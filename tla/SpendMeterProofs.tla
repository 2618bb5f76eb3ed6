-------------------------- MODULE SpendMeterProofs --------------------------
(***************************************************************************)
(* Proofs about SpendMeter, for every set of events and tenants, every     *)
(* capacity, batch size and number of attempts, and both versions of       *)
(* asyncio.wait_for.                                                       *)
(***************************************************************************)
EXTENDS SpendMeter, FiniteSetTheorems, TLAPS

\* Where the events of each buffer come from, and which phase may hold any.
Shape ==
  /\ Buffered \subseteq issued
  /\ stored \subseteq issued
  /\ queue \cap got = {}
  /\ queue \cap inflight = {}
  /\ got \cap inflight = {}
  /\ worker # "got" => got = {}
  /\ worker \in {"sending", "backoff", "stopped"} \/ inflight = {}
  /\ closer # "open" => accepting = FALSE
  /\ closer \in {"publishing", "done"} \/ closed = FALSE
  /\ closer \in {"publishing", "done"} =>
       /\ worker \in {"unstarted", "stopped"}
       /\ queue = {}
       /\ inflight = {}

\* AcceptedIsStored, strengthened: what is counted has left the buffers, so
\* that no event is counted a second time.
AcceptedHasLeft ==
  \A t \in Tenants : accepted[t] <= Cardinality(Of(stored \ Buffered, t))

IInv == /\ TypeOK
        /\ Shape
        /\ Conservation
        /\ AcceptedHasLeft
        /\ ClosedHealthComplete

-----------------------------------------------------------------------------
(***************************************************************************)
(* Counting events per tenant.                                             *)
(***************************************************************************)

\* The events of a tenant are finitely many.
LEMMA OfFinite ==
  ASSUME NEW S \in SUBSET Events, NEW t \in Tenants
  PROVE  /\ IsFiniteSet(Of(S, t))
         /\ Cardinality(Of(S, t)) \in Nat
<1>1. Of(S, t) \in SUBSET Events
  BY DEF Of
<1> QED
  BY <1>1, MeterAssumption, FS_Subset, FS_CardinalityType

\* Counting is additive over disjoint sets ...
LEMMA OfDisjointUnion ==
  ASSUME NEW S \in SUBSET Events, NEW T \in SUBSET Events,
         S \cap T = {}, NEW t \in Tenants
  PROVE  Cardinality(Of(S \cup T, t)) =
           Cardinality(Of(S, t)) + Cardinality(Of(T, t))
<1>1. Of(S \cup T, t) = Of(S, t) \cup Of(T, t)
  BY DEF Of
<1>2. Of(S, t) \cap Of(T, t) = {}
  BY DEF Of
<1>3. /\ IsFiniteSet(Of(S, t)) /\ Cardinality(Of(S, t)) \in Nat
      /\ IsFiniteSet(Of(T, t)) /\ Cardinality(Of(T, t)) \in Nat
  BY OfFinite
<1>4. Cardinality(Of(S, t) \cap Of(T, t)) = 0
  BY <1>2, FS_EmptySet
<1>5. Cardinality(Of(S, t) \cup Of(T, t)) =
        Cardinality(Of(S, t)) + Cardinality(Of(T, t))
          - Cardinality(Of(S, t) \cap Of(T, t))
  BY <1>3, FS_Union
<1>6. Cardinality(Of(S \cup T, t)) = Cardinality(Of(S, t) \cup Of(T, t))
  BY <1>1
<1> HIDE DEF Of
<1> QED
  BY <1>3, <1>4, <1>5, <1>6

\* ... and monotone.
LEMMA OfMonotone ==
  ASSUME NEW T \in SUBSET Events, NEW S \in SUBSET T, NEW t \in Tenants
  PROVE  Cardinality(Of(S, t)) <= Cardinality(Of(T, t))
<1>1. Of(S, t) \in SUBSET Of(T, t)
  BY DEF Of
<1> QED
  BY <1>1, OfFinite, FS_Subset

\* No events, no count.
LEMMA OfNone ==
  ASSUME NEW t \in Tenants
  PROVE  Cardinality(Of({}, t)) = 0
<1>1. Of({}, t) = {}
  BY DEF Of
<1> QED
  BY <1>1, FS_EmptySet

\* Plus adds the count of its set at every tenant.
LEMMA PlusEffect ==
  ASSUME NEW f \in [Tenants -> Nat], NEW S \in SUBSET Events
  PROVE  /\ Plus(f, S) \in [Tenants -> Nat]
         /\ \A t \in Tenants : Plus(f, S)[t] = f[t] + Cardinality(Of(S, t))
<1>1. \A t \in Tenants : Cardinality(Of(S, t)) \in Nat
  BY OfFinite
<1> QED
  BY <1>1 DEF Plus

-----------------------------------------------------------------------------
(***************************************************************************)
(* The ledger.  Every step emits a set N, accepts a set A, drops a set D   *)
(* and leaves a set B in the buffers.                                      *)
(***************************************************************************)

\* A counter grows by the events of a set.
Grows(before, after, S) ==
  \A t \in Tenants : after[t] = before[t] + Cardinality(Of(S, t))

\* If what was held or is new is exactly what is held, accepted or dropped
\* afterwards, each event once, the ledger still balances.
LEMMA LedgerStep ==
  ASSUME TypeOK, Conservation,
         NEW N \in SUBSET Events, NEW A \in SUBSET Events,
         NEW D \in SUBSET Events, NEW B \in SUBSET Events,
         Buffered \cap N = {}, A \cap D = {}, (A \cup D) \cap B = {},
         Buffered \cup N = (A \cup D) \cup B,
         Buffered' = B,
         Grows(emitted, emitted', N), Grows(accepted, accepted', A),
         Grows(dropped, dropped', D)
  PROVE  Conservation'
<1> SUFFICES ASSUME NEW t \in Tenants
             PROVE  emitted'[t] = accepted'[t] + dropped'[t]
                                    + Cardinality(Of(B, t))
  BY DEF Conservation, Of
<1>1. Buffered \in SUBSET Events
  BY DEF TypeOK, Buffered
<1>2. Cardinality(Of(Buffered \cup N, t)) =
        Cardinality(Of(Buffered, t)) + Cardinality(Of(N, t))
  BY <1>1, OfDisjointUnion
<1>3. Cardinality(Of((A \cup D) \cup B, t)) =
        Cardinality(Of(A \cup D, t)) + Cardinality(Of(B, t))
  <2>1. A \cup D \in SUBSET Events
    OBVIOUS
  <2> QED
    BY <2>1, OfDisjointUnion
<1>4. Cardinality(Of(A \cup D, t)) =
        Cardinality(Of(A, t)) + Cardinality(Of(D, t))
  BY OfDisjointUnion
<1>5. /\ Cardinality(Of(Buffered, t)) \in Nat
      /\ Cardinality(Of(N, t)) \in Nat
      /\ Cardinality(Of(A, t)) \in Nat
      /\ Cardinality(Of(D, t)) \in Nat
      /\ Cardinality(Of(B, t)) \in Nat
  BY <1>1, OfFinite
<1>6. emitted[t] = accepted[t] + dropped[t] + Cardinality(Of(Buffered, t))
  BY DEF Conservation
<1>7. emitted[t] \in Nat /\ accepted[t] \in Nat /\ dropped[t] \in Nat
  BY DEF TypeOK
<1>8. /\ emitted'[t] = emitted[t] + Cardinality(Of(N, t))
      /\ accepted'[t] = accepted[t] + Cardinality(Of(A, t))
      /\ dropped'[t] = dropped[t] + Cardinality(Of(D, t))
  BY DEF Grows
<1>9. Cardinality(Of(Buffered, t)) + Cardinality(Of(N, t)) =
        Cardinality(Of(A, t)) + Cardinality(Of(D, t)) + Cardinality(Of(B, t))
  <2>1. Cardinality(Of(Buffered \cup N, t)) =
          Cardinality(Of((A \cup D) \cup B, t))
    OBVIOUS
  <2> QED
    BY <2>1, <1>2, <1>3, <1>4
<1> QED
  BY <1>5, <1>6, <1>7, <1>8, <1>9

\* A counter that is not touched grows by no event.
LEMMA GrowsByNone ==
  ASSUME NEW f \in [Tenants -> Nat]
  PROVE  Grows(f, f, {})
BY OfNone DEF Grows

\* A counter written with Plus grows by its set.
LEMMA GrowsByPlus ==
  ASSUME NEW f \in [Tenants -> Nat], NEW S \in SUBSET Events
  PROVE  Grows(f, Plus(f, S), S)
BY PlusEffect DEF Grows

-----------------------------------------------------------------------------
(***************************************************************************)
(* Type correctness and shape.                                             *)
(***************************************************************************)

LEMMA InitInv == Init => IInv
<1> SUFFICES ASSUME Init PROVE IInv
  OBVIOUS
<1>1. TypeOK
  <2>1. /\ accepting \in BOOLEAN
        /\ closed \in BOOLEAN
    BY DEF Init
  <2>2. reported \in [Tenants -> Health]
    <3>1. Unreported \in Health
      BY DEF Unreported, Health
    <3> QED
      BY <3>1 DEF Init
  <2>3. attempt \in 0 .. MaxAttempts - 1
    BY MeterAssumption DEF Init
  <2> QED
    BY <2>1, <2>2, <2>3 DEF Init, TypeOK, WorkerStates, CloserStates
<1>2. Shape
  BY DEF Init, Shape, Buffered
<1>3. /\ Buffered = {}
      /\ stored \ Buffered = {}
  BY DEF Init, Buffered
<1>4. Conservation
  BY <1>3, OfNone DEF Init, Conservation
<1>5. AcceptedHasLeft
  BY <1>3, OfNone DEF Init, AcceptedHasLeft
<1>6. ClosedHealthComplete
  BY DEF Init, ClosedHealthComplete, Unreported
<1> QED
  BY <1>1, <1>2, <1>4, <1>5, <1>6 DEF IInv

\* The counters stay counters.
LEMMA CounterTypes ==
  ASSUME TypeOK, [Next]_vars
  PROVE  /\ emitted' \in [Tenants -> Nat]
         /\ accepted' \in [Tenants -> Nat]
         /\ dropped' \in [Tenants -> Nat]
<1> USE DEF TypeOK, counters
<1>1. ASSUME NEW S \in SUBSET Events
      PROVE  /\ Plus(emitted, S) \in [Tenants -> Nat]
             /\ Plus(accepted, S) \in [Tenants -> Nat]
             /\ Plus(dropped, S) \in [Tenants -> Nat]
  BY PlusEffect
<1>2. CASE Callers
  BY <1>1, <1>2 DEF Callers, Buffer, Refuse, Observe
<1>3. CASE Worker
  <2>1. ASSUME NEW acked \in Acked, NEW invalid \in Invalid,
               AttemptEnds(acked, invalid)
        PROVE  /\ emitted' \in [Tenants -> Nat]
               /\ accepted' \in [Tenants -> Nat]
               /\ dropped' \in [Tenants -> Nat]
    <3>1. /\ emitted' = emitted
          /\ accepted' = Plus(accepted, acked)
          /\ \/ dropped' = Plus(dropped, invalid)
             \/ dropped' = Plus(dropped, inflight \ acked)
      BY <2>1 DEF AttemptEnds, Resolve, Retry, GiveUp, CountAnswers
    <3>2. /\ acked \in SUBSET Events
          /\ invalid \in SUBSET Events
          /\ inflight \ acked \in SUBSET Events
      BY DEF Acked, Invalid
    <3> QED
      BY <1>1, <3>1, <3>2
  <2> QED
    BY <1>3, <2>1 DEF Worker, Get, TakeBatch, BackoffEnds
<1>4. CASE Closer
  BY <1>1, <1>4 DEF Closer, Joined, JoinTimesOut, CancelWorker, Drain
<1>5. CASE Start \/ IdleHealth \/ PublishStep \/ Close
           \/ \E e \in Events : CmsStore(e)
  BY <1>5 DEF Start, IdleHealth, PublishStep, Publish, PublishFails, Close,
     CmsStore
<1>6. CASE UNCHANGED vars
  BY <1>6 DEF vars
<1> QED
  BY <1>2, <1>3, <1>4, <1>5, <1>6 DEF Next

\* A snapshot of the counters is a health.
LEMMA HealthType ==
  ASSUME TypeOK, NEW t \in Tenants
  PROVE  HealthOf(t) \in Health
<1>1. emitted[t] \in Nat /\ accepted[t] \in Nat /\ dropped[t] \in Nat
  BY DEF TypeOK
<1>2. closed \in BOOLEAN
  BY DEF TypeOK
<1> QED
  BY <1>1, <1>2 DEF HealthOf, Health

LEMMA TypeInv ==
  ASSUME TypeOK, [Next]_vars
  PROVE  TypeOK'
<1>1. /\ emitted' \in [Tenants -> Nat]
      /\ accepted' \in [Tenants -> Nat]
      /\ dropped' \in [Tenants -> Nat]
  BY CounterTypes
<1>2. accepting' \in BOOLEAN
  <2>1. accepting' = accepting \/ accepting' = FALSE
    BY DEF Next, Start, Callers, Buffer, Refuse, Observe, Worker, Get,
       TakeBatch, AttemptEnds, Resolve, Retry, GiveUp, CountAnswers,
       BackoffEnds, IdleHealth, CmsStore, PublishStep, Publish, PublishFails,
       Close, Closer, Joined, JoinTimesOut, CancelWorker, Drain, vars
  <2> QED
    BY <2>1 DEF TypeOK
<1>3. closed' \in BOOLEAN
  <2>1. closed' = closed \/ closed' = TRUE
    BY DEF Next, Start, Callers, Buffer, Refuse, Observe, Worker, Get,
       TakeBatch, AttemptEnds, Resolve, Retry, GiveUp, CountAnswers,
       BackoffEnds, IdleHealth, CmsStore, PublishStep, Publish, PublishFails,
       Close, Closer, Joined, JoinTimesOut, CancelWorker, Drain, vars
  <2> QED
    BY <2>1 DEF TypeOK
<1>4. reported' \in [Tenants -> Health]
  <2>1. \/ reported' = reported
        \/ \E t \in Tenants : reported' = [reported EXCEPT ![t] = HealthOf(t)]
    BY DEF Next, Start, Callers, Buffer, Refuse, Observe, Worker, Get,
       TakeBatch, AttemptEnds, Resolve, Retry, GiveUp, CountAnswers,
       BackoffEnds, IdleHealth, CmsStore, PublishStep, Publish, PublishFails,
       Close, Closer, Joined, JoinTimesOut, CancelWorker, Drain, vars
  <2>2. reported \in [Tenants -> Health]
    BY DEF TypeOK
  <2> QED
    BY <2>1, <2>2, HealthType
<1>5. /\ known' \subseteq Tenants
      /\ issued' \subseteq Events
      /\ stored' \subseteq Events
      /\ left' \subseteq Tenants
  <2> USE DEF TypeOK
  <2>1. CASE Callers
    BY <2>1, MeterAssumption DEF Callers, Buffer, Refuse, Observe
  <2>2. CASE Worker
    BY <2>2 DEF Worker, Get, TakeBatch, AttemptEnds, Resolve,
       Retry, GiveUp, CountAnswers, BackoffEnds
  <2>3. CASE Closer \/ Close
    BY <2>3 DEF Close, Closer, Joined, JoinTimesOut, CancelWorker, Drain
  <2>4. CASE Start \/ IdleHealth \/ PublishStep
             \/ \E e \in Events : CmsStore(e)
    BY <2>4 DEF Start, IdleHealth, PublishStep, Publish, PublishFails, CmsStore
  <2>5. CASE UNCHANGED vars
    BY <2>5 DEF vars
  <2> QED
    BY <2>1, <2>2, <2>3, <2>4, <2>5 DEF Next
<1>6. /\ queue' \subseteq Events
      /\ got' \subseteq Events
      /\ inflight' \subseteq Events
  <2> USE DEF TypeOK, buffers
  <2>1. CASE Callers
    BY <2>1 DEF Callers, Buffer, Refuse, Observe
  <2>2. CASE Worker
    BY <2>2 DEF Worker, Get, TakeBatch, AttemptEnds, Resolve, Retry, GiveUp,
       CountAnswers, BackoffEnds
  <2>3. CASE Closer \/ Close
    BY <2>3 DEF Close, Closer, Joined, JoinTimesOut, CancelWorker, Drain
  <2>4. CASE Start \/ IdleHealth \/ PublishStep
             \/ \E e \in Events : CmsStore(e)
    BY <2>4 DEF Start, IdleHealth, PublishStep, Publish, PublishFails, CmsStore
  <2>5. CASE UNCHANGED vars
    BY <2>5 DEF vars
  <2> QED
    BY <2>1, <2>2, <2>3, <2>4, <2>5 DEF Next
<1>7. worker' \in WorkerStates /\ closer' \in CloserStates
  <2> USE DEF TypeOK, WorkerStates, CloserStates
  <2>1. CASE Callers
    BY <2>1 DEF Callers, Buffer, Refuse, Observe
  <2>2. CASE Worker
    BY <2>2 DEF Worker, Get, TakeBatch, AttemptEnds, Resolve, Retry, GiveUp,
       CountAnswers, BackoffEnds
  <2>3. CASE Closer \/ Close
    BY <2>3 DEF Close, Closer, Joined, JoinTimesOut, CancelWorker, Drain
  <2>4. CASE PublishStep
    BY <2>4 DEF PublishStep, Publish, PublishFails, PublishEnds
  <2>5. CASE Start \/ IdleHealth \/ \E e \in Events : CmsStore(e)
    BY <2>5 DEF Start, IdleHealth, CmsStore
  <2>6. CASE UNCHANGED vars
    BY <2>6 DEF vars
  <2> QED
    BY <2>1, <2>2, <2>3, <2>4, <2>5, <2>6 DEF Next
<1>8. attempt' \in 0 .. MaxAttempts - 1
  <2>1. \/ attempt' = attempt
        \/ attempt' = 0
        \/ attempt' = attempt + 1 /\ attempt + 1 < MaxAttempts
    BY DEF Next, Start, Callers, Buffer, Refuse, Observe, Worker, Get,
       TakeBatch, AttemptEnds, Resolve, Retry, GiveUp, CountAnswers,
       BackoffEnds, IdleHealth, CmsStore, PublishStep, Publish, PublishFails,
       Close, Closer, Joined, JoinTimesOut, CancelWorker, Drain, vars
  <2> QED
    BY <2>1, MeterAssumption DEF TypeOK
<1> QED
  BY <1>1, <1>2, <1>3, <1>4, <1>5, <1>6, <1>7, <1>8 DEF TypeOK

\* Cancelling the worker never strands an event a finished get task holds.
LEMMA ShapeInv ==
  ASSUME TypeOK, Shape, [Next]_vars
  PROVE  Shape'
<1> USE DEF Shape, Buffered, buffers
<1>1. ASSUME NEW e \in Events, Buffer(e) \/ Refuse(e)
      PROVE  Shape'
  BY <1>1 DEF Buffer, Refuse
<1>2. ASSUME NEW t \in Tenants, Observe(t)
      PROVE  Shape'
  BY <1>2 DEF Observe
<1>3. ASSUME NEW e \in Events, Get(e)
      PROVE  Shape'
  BY <1>3 DEF Get
<1>4. ASSUME NEW rest \in SUBSET queue, TakeBatch(rest)
      PROVE  Shape'
  <2>1. worker \in {"got", "waiting"} /\ inflight = {}
    BY <1>4 DEF TakeBatch
  <2>2. /\ inflight' = got \cup rest
        /\ queue' = queue \ rest
        /\ got' = {}
        /\ worker' = "sending"
        /\ UNCHANGED <<accepting, closed, issued, closer, stored>>
    BY <1>4 DEF TakeBatch
  <2>3. closer \notin {"publishing", "done"}
    BY <2>1
  <2> QED
    BY <2>1, <2>2, <2>3
<1>5. ASSUME NEW acked \in Acked, NEW invalid \in Invalid,
             AttemptEnds(acked, invalid)
      PROVE  Shape'
  <2>1. /\ inflight' \subseteq inflight
        /\ worker = "sending"
        /\ \/ worker' = "backoff"
           \/ worker' = "reporting" /\ inflight' = {}
        /\ UNCHANGED <<accepting, closed, issued, queue, got, closer, stored>>
    BY <1>5 DEF AttemptEnds, Resolve, Retry, GiveUp, CountAnswers
  <2> QED
    BY <2>1
<1>6. CASE BackoffEnds
  BY <1>6 DEF BackoffEnds
<1>7. CASE Start \/ IdleHealth
  BY <1>7 DEF Start, IdleHealth
<1>8. ASSUME NEW e \in Events, CmsStore(e)
      PROVE  Shape'
  BY <1>8 DEF CmsStore
<1>9. ASSUME NEW t \in Tenants, Publish(t) \/ PublishFails(t)
      PROVE  Shape'
  <2>1. /\ UNCHANGED <<accepting, closed, issued, queue, got, inflight, stored>>
        /\ \/ UNCHANGED worker
           \/ WorkerReports /\ worker' = "waiting"
        /\ \/ UNCHANGED closer
           \/ closer = "publishing" /\ closer' = "done"
    BY <1>9 DEF Publish, PublishFails, PublishEnds
  <2> QED
    BY <2>1 DEF WorkerReports
<1>10. CASE Close
  BY <1>10 DEF Close
<1>11. CASE Joined \/ JoinTimesOut
  BY <1>11 DEF Joined, JoinTimesOut, CancelWorker
<1>12. CASE Drain
  BY <1>12 DEF Drain
<1>13. CASE UNCHANGED vars
  BY <1>13 DEF vars
<1> QED
  BY <1>1, <1>2, <1>3, <1>4, <1>5, <1>6, <1>7, <1>8, <1>9, <1>10, <1>11, <1>12,
     <1>13 DEF Next, Callers, Worker, PublishStep, Closer

-----------------------------------------------------------------------------
(***************************************************************************)
(* The ledger of the meter.                                                *)
(***************************************************************************)

\* The steps that touch a counter.
Counting == \/ \E e \in Events : Buffer(e) \/ Refuse(e)
            \/ \E acked \in Acked, invalid \in Invalid :
                 AttemptEnds(acked, invalid)
            \/ Drain

\* Every other step leaves the counters alone and only moves events between
\* the buffers.
LEMMA OtherStepsMove ==
  ASSUME TypeOK, Shape, [Next]_vars, ~Counting
  PROVE  UNCHANGED counters /\ Buffered' = Buffered
<1> USE DEF counters, buffers, Buffered
<1>1. ASSUME NEW e \in Events, Get(e)
      PROVE  UNCHANGED counters /\ Buffered' = Buffered
  BY <1>1 DEF Get, Shape
<1>2. ASSUME NEW rest \in SUBSET queue, TakeBatch(rest)
      PROVE  UNCHANGED counters /\ Buffered' = Buffered
  <2>1. inflight = {}
    BY <1>2 DEF TakeBatch, Shape
  <2>2. /\ inflight' = got \cup rest
        /\ queue' = queue \ rest
        /\ got' = {}
        /\ UNCHANGED counters
    BY <1>2 DEF TakeBatch
  <2> QED
    BY <2>1, <2>2
<1>3. CASE BackoffEnds \/ Start \/ IdleHealth \/ PublishStep \/ Close
           \/ Joined \/ JoinTimesOut
  BY <1>3 DEF BackoffEnds, Start, IdleHealth, PublishStep, Publish,
     PublishFails, Close, Joined, JoinTimesOut, CancelWorker
<1>4. CASE (\E e \in Events : CmsStore(e)) \/ (\E t \in Tenants : Observe(t))
  BY <1>4 DEF CmsStore, Observe
<1>5. CASE UNCHANGED vars
  BY <1>5 DEF vars
<1> QED
  BY <1>1, <1>2, <1>3, <1>4, <1>5 DEF Next, Callers, Worker, Closer, Counting

LEMMA LedgerInv ==
  ASSUME TypeOK, Shape, Conservation, [Next]_vars
  PROVE  Conservation'
<1>1. /\ Buffered \in SUBSET Events
      /\ issued \in SUBSET Events
      /\ emitted \in [Tenants -> Nat]
      /\ accepted \in [Tenants -> Nat]
      /\ dropped \in [Tenants -> Nat]
  BY DEF TypeOK, Buffered
<1>2. {} \in SUBSET Events
  OBVIOUS
<1>3. ASSUME NEW e \in Events, Buffer(e)
      PROVE  Conservation'
  <2>1. /\ Buffered' = Buffered \cup {e}
        /\ Buffered \cap {e} = {}
    BY <1>3 DEF Buffer, Buffered, Shape
  <2>2. /\ emitted' = Plus(emitted, {e})
        /\ UNCHANGED <<accepted, dropped>>
    BY <1>3 DEF Buffer
  <2>3. /\ Grows(emitted, emitted', {e})
        /\ Grows(accepted, accepted', {})
        /\ Grows(dropped, dropped', {})
    BY <1>1, <2>2, GrowsByPlus, GrowsByNone
  <2>4. {e} \in SUBSET Events /\ Buffered' \in SUBSET Events
    BY <1>1, <2>1
  <2> QED
    BY <1>2, <2>1, <2>3, <2>4, LedgerStep
<1>4. ASSUME NEW e \in Events, Refuse(e)
      PROVE  Conservation'
  <2>1. /\ Buffered' = Buffered
        /\ Buffered \cap {e} = {}
    BY <1>4 DEF Refuse, Buffered, buffers, Shape
  <2>2. /\ emitted' = Plus(emitted, {e})
        /\ dropped' = Plus(dropped, {e})
        /\ UNCHANGED accepted
    BY <1>4 DEF Refuse
  <2>3. /\ Grows(emitted, emitted', {e})
        /\ Grows(accepted, accepted', {})
        /\ Grows(dropped, dropped', {e})
    BY <1>1, <2>2, GrowsByPlus, GrowsByNone
  <2>4. {e} \in SUBSET Events
    OBVIOUS
  <2> QED
    BY <1>1, <1>2, <2>1, <2>3, <2>4, LedgerStep
<1>5. ASSUME NEW acked \in Acked, NEW invalid \in Invalid,
             AttemptEnds(acked, invalid)
      PROVE  Conservation'
  <2>1. PICK D \in SUBSET inflight :
          /\ acked \cap D = {}
          /\ inflight' = inflight \ (acked \cup D)
          /\ dropped' = Plus(dropped, D)
    <3>1. CASE GiveUp(acked, invalid)
      BY <3>1 DEF GiveUp, Acked
    <3>2. CASE Resolve(acked, invalid) \/ Retry(acked, invalid)
      <4>1. /\ inflight' = inflight \ (acked \cup invalid)
            /\ dropped' = Plus(dropped, invalid)
        BY <3>2 DEF Resolve, Retry
      <4>2. invalid \in SUBSET inflight /\ acked \cap invalid = {}
        BY DEF Acked, Invalid
      <4> QED
        BY <4>1, <4>2
    <3> QED
      BY <1>5, <3>1, <3>2 DEF AttemptEnds
  <2>2. /\ accepted' = Plus(accepted, acked)
        /\ UNCHANGED <<emitted, queue, got>>
    BY <1>5 DEF AttemptEnds, Resolve, Retry, GiveUp, CountAnswers
  <2>3. acked \in SUBSET Events /\ D \in SUBSET Events
    BY <2>1 DEF Acked, TypeOK
  <2>4. /\ Grows(emitted, emitted', {})
        /\ Grows(accepted, accepted', acked)
        /\ Grows(dropped, dropped', D)
    BY <1>1, <2>1, <2>2, <2>3, GrowsByPlus, GrowsByNone
  <2>5. /\ Buffered' = Buffered \ (acked \cup D)
        /\ acked \cup D \subseteq Buffered
    BY <2>1, <2>2 DEF Buffered, Shape, Acked
  <2>6. /\ Buffered' \in SUBSET Events
        /\ Buffered \cap {} = {}
        /\ (acked \cup D) \cap Buffered' = {}
        /\ Buffered \cup {} = (acked \cup D) \cup Buffered'
    BY <1>1, <2>5
  <2> QED
    BY <1>2, <2>1, <2>3, <2>4, <2>6, LedgerStep
<1>6. CASE Drain
  <2>1. /\ Buffered = inflight \cup queue
        /\ Buffered' = {}
    BY <1>6 DEF Drain, Buffered, Shape
  <2>2. /\ dropped' = Plus(dropped, Buffered)
        /\ UNCHANGED <<emitted, accepted>>
    BY <1>6, <2>1 DEF Drain
  <2>3. /\ Grows(emitted, emitted', {})
        /\ Grows(accepted, accepted', {})
        /\ Grows(dropped, dropped', Buffered)
    BY <1>1, <2>2, GrowsByPlus, GrowsByNone
  <2>4. /\ Buffered \cap {} = {}
        /\ {} \cap Buffered = {}
        /\ ({} \cup Buffered) \cap {} = {}
        /\ Buffered \cup {} = ({} \cup Buffered) \cup {}
    OBVIOUS
  <2> QED
    BY <1>1, <1>2, <2>1, <2>3, <2>4, LedgerStep
<1>7. CASE ~Counting
  BY <1>7, OtherStepsMove DEF Conservation, counters, Of
<1> QED
  BY <1>3, <1>4, <1>5, <1>6, <1>7 DEF Counting

LEMMA AcceptedInv ==
  ASSUME TypeOK, Shape, AcceptedHasLeft, [Next]_vars
  PROVE  AcceptedHasLeft'
<1>1. /\ Buffered \in SUBSET Events
      /\ stored \in SUBSET Events
      /\ accepted \in [Tenants -> Nat]
  BY DEF TypeOK, Buffered
<1>2. TypeOK'
  BY TypeInv
<1>3. stored' \ Buffered' \in SUBSET Events
  BY <1>2 DEF TypeOK
<1>4. ASSUME NEW A \in SUBSET Events,
             Grows(accepted, accepted', A),
             A \cap (stored \ Buffered) = {},
             (stored \ Buffered) \cup A \subseteq stored' \ Buffered'
      PROVE  AcceptedHasLeft'
  <2> SUFFICES ASSUME NEW t \in Tenants
               PROVE  accepted'[t] <= Cardinality(Of(stored' \ Buffered', t))
    BY DEF AcceptedHasLeft, Of
  <2>1. Cardinality(Of((stored \ Buffered) \cup A, t)) =
          Cardinality(Of(stored \ Buffered, t)) + Cardinality(Of(A, t))
    <3>1. stored \ Buffered \in SUBSET Events /\ (stored \ Buffered) \cap A = {}
      BY <1>1, <1>4
    <3> QED
      BY <3>1, OfDisjointUnion
  <2>2. Cardinality(Of((stored \ Buffered) \cup A, t)) <=
          Cardinality(Of(stored' \ Buffered', t))
    BY <1>3, <1>4, OfMonotone
  <2>3. /\ accepted[t] \in Nat
        /\ accepted[t] <= Cardinality(Of(stored \ Buffered, t))
        /\ accepted'[t] = accepted[t] + Cardinality(Of(A, t))
    BY <1>1, <1>4 DEF AcceptedHasLeft, Grows
  <2>4. /\ Cardinality(Of(stored \ Buffered, t)) \in Nat
        /\ Cardinality(Of(A, t)) \in Nat
        /\ Cardinality(Of(stored' \ Buffered', t)) \in Nat
    <3>1. stored \ Buffered \in SUBSET Events
      BY <1>1
    <3> QED
      BY <1>3, <3>1, OfFinite
  <2> QED
    BY <2>1, <2>2, <2>3, <2>4
<1>5. ASSUME UNCHANGED accepted,
             stored \ Buffered \subseteq stored' \ Buffered'
      PROVE  AcceptedHasLeft'
  <2>1. Grows(accepted, accepted', {})
    BY <1>1, <1>5, GrowsByNone
  <2>2. {} \in SUBSET Events
    OBVIOUS
  <2> QED
    BY <1>4, <1>5, <2>1, <2>2
<1>6. ASSUME NEW e \in Events, Buffer(e) \/ Refuse(e)
      PROVE  AcceptedHasLeft'
  BY <1>5, <1>6 DEF Buffer, Refuse, Buffered, buffers, Shape
<1>7. ASSUME NEW acked \in Acked, NEW invalid \in Invalid,
             AttemptEnds(acked, invalid)
      PROVE  AcceptedHasLeft'
  <2>1. /\ accepted' = Plus(accepted, acked)
        /\ inflight' \subseteq inflight \ acked
        /\ UNCHANGED <<queue, got, stored>>
    BY <1>7 DEF AttemptEnds, Resolve, Retry, GiveUp, CountAnswers, Acked
  <2>2. acked \subseteq inflight \cap stored
    BY DEF Acked
  <2>3. acked \in SUBSET Events
    BY <1>1, <2>2
  <2>4. Grows(accepted, accepted', acked)
    BY <1>1, <2>1, <2>3, GrowsByPlus
  <2>5. /\ acked \cap (stored \ Buffered) = {}
        /\ (stored \ Buffered) \cup acked \subseteq stored' \ Buffered'
    BY <2>1, <2>2 DEF Buffered, Shape
  <2> QED
    BY <1>4, <2>3, <2>4, <2>5
<1>8. CASE Drain
  BY <1>5, <1>8 DEF Drain, Buffered
<1>9. CASE ~Counting
  <2>1. UNCHANGED accepted /\ Buffered' = Buffered
    BY <1>9, OtherStepsMove DEF counters
  <2>2. stored \subseteq stored'
    BY <1>9 DEF Counting, Next, Start, Callers, Observe, Worker, Get,
       TakeBatch, BackoffEnds, IdleHealth, CmsStore, PublishStep, Publish,
       PublishFails, Close, Closer, Joined, JoinTimesOut, CancelWorker, vars
  <2> QED
    BY <1>5, <2>1, <2>2
<1> QED
  BY <1>6, <1>7, <1>8, <1>9 DEF Counting

\* Only the final health is closed, and nothing is buffered when it is sent.
LEMMA HealthInv ==
  ASSUME TypeOK, Shape, Conservation, ClosedHealthComplete, [Next]_vars
  PROVE  ClosedHealthComplete'
<1>1. ASSUME NEW t \in Tenants, closed
      PROVE  HealthOf(t).emitted = HealthOf(t).accepted + HealthOf(t).dropped
  <2>1. Buffered = {}
    BY <1>1 DEF Shape, Buffered
  <2>2. Cardinality(Of(Buffered, t)) = 0
    BY <2>1, OfNone
  <2>3. /\ emitted[t] = accepted[t] + dropped[t] + Cardinality(Of(Buffered, t))
        /\ accepted[t] \in Nat /\ dropped[t] \in Nat
    BY DEF Conservation, TypeOK
  <2>4. emitted[t] = accepted[t] + dropped[t]
    BY <2>2, <2>3
  <2> QED
    BY <2>4 DEF HealthOf
<1>2. \/ reported' = reported
      \/ \E t \in Tenants : reported' = [reported EXCEPT ![t] = HealthOf(t)]
  BY DEF Next, Start, Callers, Buffer, Refuse, Observe, Worker, Get,
     TakeBatch, AttemptEnds, Resolve, Retry, GiveUp, CountAnswers,
     BackoffEnds, IdleHealth, CmsStore, PublishStep, Publish, PublishFails,
     Close, Closer, Joined, JoinTimesOut, CancelWorker, Drain, vars
<1>3. CASE reported' = reported
  BY <1>3 DEF ClosedHealthComplete
<1>4. ASSUME NEW t \in Tenants,
             reported' = [reported EXCEPT ![t] = HealthOf(t)]
      PROVE  ClosedHealthComplete'
  <2> SUFFICES ASSUME NEW u \in Tenants, reported'[u].closed
               PROVE  reported'[u].emitted =
                        reported'[u].accepted + reported'[u].dropped
    BY DEF ClosedHealthComplete
  <2>1. CASE u = t
    <3>1. reported'[u] = HealthOf(t)
      BY <1>4, <2>1 DEF TypeOK
    <3>2. closed
      BY <3>1 DEF HealthOf
    <3> QED
      BY <1>1, <3>1, <3>2
  <2>2. CASE u # t
    <3>1. reported'[u] = reported[u]
      BY <1>4, <2>2 DEF TypeOK
    <3> QED
      BY <3>1 DEF ClosedHealthComplete
  <2> QED
    BY <2>1, <2>2
<1> QED
  BY <1>2, <1>3, <1>4

-----------------------------------------------------------------------------
(***************************************************************************)
(* The theorems.                                                           *)
(***************************************************************************)

LEMMA Invariance == Spec => []IInv
<1>1. IInv /\ [Next]_vars => IInv'
  BY TypeInv, ShapeInv, LedgerInv, AcceptedInv, HealthInv DEF IInv
<1> QED
  BY InitInv, <1>1, PTL DEF Spec

\* Every variable keeps its type; in particular the worker never makes more
\* than MAX_DELIVERY_ATTEMPTS attempts with a batch.
THEOREM TypeCorrect == Spec => []TypeOK
<1>1. IInv => TypeOK
  BY DEF IInv
<1> QED
  BY Invariance, <1>1, PTL

\* The ledger balances whatever is retried, cancelled or drained.
THEOREM LedgerBalances == Spec => []Conservation
<1>1. IInv => Conservation
  BY DEF IInv
<1> QED
  BY Invariance, <1>1, PTL

\* What is counted as accepted is in the CMS.
THEOREM AcceptedDurable == Spec => []AcceptedIsStored
<1>1. IInv => AcceptedIsStored
  <2> SUFFICES ASSUME IInv, NEW t \in Tenants
               PROVE  accepted[t] <= Cardinality(Of(stored, t))
    BY DEF AcceptedIsStored
  <2>1. /\ stored \in SUBSET Events
        /\ stored \ Buffered \in SUBSET stored
        /\ accepted[t] \in Nat
    BY DEF IInv, TypeOK
  <2>2. Cardinality(Of(stored \ Buffered, t)) <= Cardinality(Of(stored, t))
    BY <2>1, OfMonotone
  <2>3. accepted[t] <= Cardinality(Of(stored \ Buffered, t))
    BY DEF IInv, AcceptedHasLeft
  <2>4. /\ Cardinality(Of(stored \ Buffered, t)) \in Nat
        /\ Cardinality(Of(stored, t)) \in Nat
    <3>1. stored \ Buffered \in SUBSET Events
      BY <2>1
    <3> QED
      BY <2>1, <3>1, OfFinite
  <2> QED
    BY <2>1, <2>2, <2>3, <2>4
<1> QED
  BY Invariance, <1>1, PTL

\* A closed health accounts for everything.
THEOREM ClosedHealthAccounts == Spec => []ClosedHealthComplete
<1>1. IInv => ClosedHealthComplete
  BY DEF IInv
<1> QED
  BY Invariance, <1>1, PTL

=============================================================================
