---------------------------- MODULE WorkloadProofs ----------------------------
(***************************************************************************)
(* Proofs about the parts that limit the work of the service, LlmAdmission,*)
(* BlockingWork, ClassifierPool and ProposalBatch, and about the answers   *)
(* of ChapterPlan and OperatorReason.                                      *)
(***************************************************************************)
EXTENDS LlmAdmission, BlockingWork, ClassifierPool, ProposalBatch,
        ChapterPlan, OperatorReason, LineProofs

-----------------------------------------------------------------------------
(***************************************************************************)
(* LlmAdmission, for any requests, capacity, providers and attempts.       *)
(***************************************************************************)

Waits == {"entering", "queued"}

\* The slots request r holds in a phase: one at the route, one for its call.
Weight(r, at) ==
  (IF r \in Summaries /\ at \notin {"outside", "entering"} THEN 1 ELSE 0)
    + (IF at = "calling" THEN 1 ELSE 0)

\* The slots held when the requests are in the phases f.
Routes(f) == {r \in Prompts : r \in Summaries /\ f[r] \notin {"outside", "entering"}}
Callings(f) == {r \in Prompts : f[r] = "calling"}
Held(f) == Cardinality(Routes(f)) + Cardinality(Callings(f))

SemaphoreTypes ==
  /\ free \in 0 .. Capacity
  /\ waiters \in Seq(Prompts)
  /\ phase \in [Prompts -> Phases]

\* Each request that waits stands in line, once, and nobody else does.
LineOfWaiting ==
  /\ Injective(waiters)
  /\ Members(waiters) = {r \in Prompts : phase[r] \in Waits}

EnteringSummaries == \A r \in Prompts : phase[r] = "entering" => r \in Summaries

NoIdleSlot == free > 0 => waiters = <<>>

SemaphoreInv ==
  SemaphoreTypes /\ LineOfWaiting /\ EnteringSummaries /\ NoIdleSlot /\ SlotsExact

ClientTypes ==
  /\ provider \in [Prompts -> 1 .. Providers]
  /\ try \in [Prompts -> 1 .. Attempts]
  /\ error \in [Prompts -> {"none", "provider", "overload"}]
  /\ answer \in [Prompts -> {"none", "200", "429", "502"}]

LlmInv == SemaphoreInv /\ ClientTypes

LEMMA HeldIsNat ==
  ASSUME NEW f
  PROVE  /\ IsFiniteSet(Routes(f)) /\ IsFiniteSet(Callings(f))
         /\ Cardinality(Routes(f)) \in Nat /\ Cardinality(Callings(f)) \in Nat
         /\ Held(f) \in Nat
<1>1. IsFiniteSet(Routes(f)) /\ IsFiniteSet(Callings(f))
  BY LlmAdmissionAssumption, FS_Subset DEF Routes, Callings
<1>2. Cardinality(Routes(f)) \in Nat /\ Cardinality(Callings(f)) \in Nat
  BY <1>1, FS_CardinalityType
<1>. QED  BY <1>1, <1>2 DEF Held

LEMMA SlotsOfHeld == SlotsExact <=> free + Cardinality(Routes(phase)) + Cardinality(Callings(phase)) = Capacity
<1>1. RouteHolders = Routes(phase) /\ CallHolders = Callings(phase)
  BY DEF RouteHolders, AtRoute, CallHolders, Routes, Callings
<1>. QED  BY <1>1 DEF SlotsExact

LEMMA SlotsOfHeldNext ==
  SlotsExact' <=> free' + Cardinality(Routes(phase')) + Cardinality(Callings(phase')) = Capacity
<1>1. RouteHolders' = Routes(phase') /\ CallHolders' = Callings(phase')
  BY DEF RouteHolders, AtRoute, CallHolders, Routes, Callings
<1>. QED  BY <1>1 DEF SlotsExact

\* What one element more or less does to a finite set.
LEMMA CountWithout ==
  ASSUME NEW S, IsFiniteSet(S), NEW e, NEW T, T \ {e} = S \ {e}
  PROVE  /\ IsFiniteSet(T)
         /\ Cardinality(T) = Cardinality(S) - (IF e \in S THEN 1 ELSE 0)
                                            + (IF e \in T THEN 1 ELSE 0)
<1>. DEFINE B == S \ {e}
<1>1. IsFiniteSet(B) /\ Cardinality(B) \in Nat /\ Cardinality(S) \in Nat
  BY FS_Subset, FS_CardinalityType
<1>2. e \notin B
  OBVIOUS
<1>. HIDE DEF B
<1>3. Cardinality(S) = Cardinality(B) + (IF e \in S THEN 1 ELSE 0)
  <2>1. CASE e \in S
    <3>1. Cardinality(B) = Cardinality(S) - 1
      BY <2>1, FS_RemoveElement DEF B
    <3>. QED  BY <1>1, <2>1, <3>1
  <2>2. CASE e \notin S
    <3>1. B = S
      BY <2>2 DEF B
    <3>. QED  BY <1>1, <2>2, <3>1
  <2>. QED  BY <2>1, <2>2
<1>4. IsFiniteSet(T) /\ Cardinality(T) = Cardinality(B) + (IF e \in T THEN 1 ELSE 0)
  <2>1. CASE e \in T
    <3>1. T = B \cup {e}
      BY <2>1 DEF B
    <3>2. IsFiniteSet(B \cup {e}) /\ Cardinality(B \cup {e}) = Cardinality(B) + 1
      BY <1>1, <1>2, FS_AddElement
    <3>. QED  BY <2>1, <3>1, <3>2
  <2>2. CASE e \notin T
    <3>1. T = B
      BY <2>2 DEF B
    <3>. QED  BY <1>1, <2>2, <3>1
  <2>. QED  BY <2>1, <2>2
<1>. QED  BY <1>1, <1>3, <1>4

\* A request that changes its phase changes what is held by what it holds.
LEMMA HeldMoves ==
  ASSUME NEW f \in [Prompts -> Phases], NEW r \in Prompts, NEW to \in Phases
  PROVE  Held([f EXCEPT ![r] = to]) = Held(f) - Weight(r, f[r]) + Weight(r, to)
<1>. DEFINE g == [f EXCEPT ![r] = to]
<1>1. g[r] = to /\ \A q \in Prompts : q # r => g[q] = f[q]
  OBVIOUS
<1>. HIDE DEF g
<1>2. Routes(g) \ {r} = Routes(f) \ {r} /\ Callings(g) \ {r} = Callings(f) \ {r}
  BY <1>1 DEF Routes, Callings
<1>3. /\ Cardinality(Routes(g)) = Cardinality(Routes(f))
           - (IF r \in Routes(f) THEN 1 ELSE 0) + (IF r \in Routes(g) THEN 1 ELSE 0)
      /\ Cardinality(Callings(g)) = Cardinality(Callings(f))
           - (IF r \in Callings(f) THEN 1 ELSE 0) + (IF r \in Callings(g) THEN 1 ELSE 0)
  BY <1>2, HeldIsNat, CountWithout
<1>4. /\ r \in Routes(f) <=> r \in Summaries /\ f[r] \notin {"outside", "entering"}
      /\ r \in Routes(g) <=> r \in Summaries /\ to \notin {"outside", "entering"}
      /\ r \in Callings(f) <=> f[r] = "calling"
      /\ r \in Callings(g) <=> to = "calling"
  BY <1>1 DEF Routes, Callings
<1>5. /\ Weight(r, f[r]) = (IF r \in Routes(f) THEN 1 ELSE 0)
                           + (IF r \in Callings(f) THEN 1 ELSE 0)
      /\ Weight(r, to) = (IF r \in Routes(g) THEN 1 ELSE 0)
                         + (IF r \in Callings(g) THEN 1 ELSE 0)
  BY <1>4 DEF Weight
<1>6. /\ Cardinality(Routes(f)) \in Nat /\ Cardinality(Callings(f)) \in Nat
      /\ Cardinality(Routes(g)) \in Nat /\ Cardinality(Callings(g)) \in Nat
  BY HeldIsNat
<1>7. Held(g) = Held(f) - Weight(r, f[r]) + Weight(r, to)
  BY <1>3, <1>5, <1>6 DEF Held
<1>. QED  BY <1>7 DEF g

LEMMA WeightIsSmall ==
  ASSUME NEW r, NEW at  PROVE  Weight(r, at) \in 0 .. 2
  BY DEF Weight

\* A request comes to the semaphore.  With a slot it holds one more than before,
\* and in line as many.
LEMMA TakeOrWaitKept ==
  ASSUME SemaphoreInv, NEW r \in Prompts,
         NEW taken \in Phases \ Waits, NEW waits \in Waits,
         phase[r] \notin Waits,
         Weight(r, taken) = Weight(r, phase[r]) + 1,
         Weight(r, waits) = Weight(r, phase[r]),
         waits = "entering" => r \in Summaries,
         TakeOrWait(r, taken, waits)
  PROVE  SemaphoreInv'
<1>1. /\ free \in Nat /\ Capacity \in Nat /\ free <= Capacity
      /\ waiters \in Seq(Prompts) /\ phase \in [Prompts -> Phases]
  BY LlmAdmissionAssumption DEF SemaphoreInv, SemaphoreTypes
<1>2. waits \in Phases /\ phase[r] \in Phases
  BY <1>1 DEF Waits, Phases
<1>3. /\ Weight(r, phase[r]) \in Nat /\ Held(phase) \in Nat
      /\ free + Held(phase) = Capacity
  <2>1. Weight(r, phase[r]) \in Nat
    BY WeightIsSmall
  <2>2. Held(phase) \in Nat /\ free + Held(phase) = Capacity
    BY <1>1, HeldIsNat, SlotsOfHeld DEF SemaphoreInv, Held
  <2>. QED  BY <2>1, <2>2
<1>4. CASE free > 0
  <2>1. free' = free - 1 /\ phase' = [phase EXCEPT ![r] = taken] /\ waiters' = waiters
    BY <1>4 DEF TakeOrWait
  <2>2. Held(phase') = Held(phase) + 1
    <3>1. Held(phase') = Held(phase) - Weight(r, phase[r]) + Weight(r, taken)
      BY <1>1, <2>1, HeldMoves
    <3>. QED  BY <1>3, <3>1
  <2>3. SemaphoreTypes'
    BY <1>1, <1>4, <2>1 DEF SemaphoreTypes
  <2>4. LineOfWaiting'
    BY <1>1, <2>1 DEF SemaphoreInv, LineOfWaiting
  <2>5. EnteringSummaries'
    BY <1>1, <2>1 DEF SemaphoreInv, EnteringSummaries, Waits
  <2>6. NoIdleSlot'
    BY <1>4, <2>1 DEF SemaphoreInv, NoIdleSlot
  <2>7. free' + Held(phase') = Capacity
    BY <1>1, <1>3, <2>1, <2>2
  <2>8. SlotsExact'
    BY <2>1, <2>3, <2>7, HeldIsNat, SlotsOfHeldNext, <1>1 DEF Held
  <2>. QED  BY <2>3, <2>4, <2>5, <2>6, <2>8 DEF SemaphoreInv
<1>5. CASE ~(free > 0)
  <2>1. free' = free /\ phase' = [phase EXCEPT ![r] = waits] /\ waiters' = Append(waiters, r)
        /\ free = 0
    BY <1>5 DEF TakeOrWait
  <2>2. Held(phase') = Held(phase)
    <3>1. Held(phase') = Held(phase) - Weight(r, phase[r]) + Weight(r, waits)
      BY <1>1, <1>2, <2>1, HeldMoves
    <3>. QED  BY <1>3, <3>1
  <2>3. r \notin Members(waiters)
    BY DEF SemaphoreInv, LineOfWaiting
  <2>4. /\ waiters' \in Seq(Prompts) /\ Injective(waiters')
        /\ Members(waiters') = Members(waiters) \cup {r}
    BY <1>1, <2>1, <2>3, JoinLine DEF SemaphoreInv, LineOfWaiting
  <2>5. SemaphoreTypes'
    BY <1>1, <1>2, <2>1, <2>4 DEF SemaphoreTypes
  <2>6. LineOfWaiting'
    BY <1>1, <2>1, <2>4 DEF SemaphoreInv, LineOfWaiting
  <2>7. EnteringSummaries'
    BY <1>1, <2>1 DEF SemaphoreInv, EnteringSummaries
  <2>8. free' + Held(phase') = Capacity
    BY <1>1, <1>3, <2>1, <2>2
  <2>9. SlotsExact'
    BY <2>1, <2>8, HeldIsNat, SlotsOfHeldNext, <1>1 DEF Held
  <2>. QED  BY <2>1, <2>5, <2>6, <2>7, <2>9 DEF SemaphoreInv, NoIdleSlot
<1>. QED  BY <1>4, <1>5

\* A request that holds one slot less gives it to the first in line, which has
\* one more then.
LEMMA ReleaseKept ==
  ASSUME SemaphoreInv, NEW r \in Prompts, NEW to \in Phases \ Waits,
         phase[r] \notin Waits,
         Weight(r, phase[r]) = Weight(r, to) + 1,
         Release(r, to)
  PROVE  SemaphoreInv'
<1>1. /\ free \in Nat /\ Capacity \in Nat /\ free <= Capacity
      /\ waiters \in Seq(Prompts) /\ phase \in [Prompts -> Phases]
  BY LlmAdmissionAssumption DEF SemaphoreInv, SemaphoreTypes
<1>2. /\ Weight(r, to) \in Nat /\ Held(phase) \in Nat
      /\ free + Held(phase) = Capacity
  <2>1. Weight(r, to) \in 0 .. 2
    BY ONLY WeightIsSmall
  <2>2. Held(phase) \in Nat /\ Cardinality(Routes(phase)) \in Nat
        /\ Cardinality(Callings(phase)) \in Nat
    BY HeldIsNat
  <2>3. free + Cardinality(Routes(phase)) + Cardinality(Callings(phase)) = Capacity
    BY SlotsOfHeld DEF SemaphoreInv
  <2>4. Held(phase) = Cardinality(Routes(phase)) + Cardinality(Callings(phase))
    BY DEF Held
  <2>. QED  BY ONLY <1>1, <2>1, <2>2, <2>3, <2>4
<1>. DEFINE g == [phase EXCEPT ![r] = to]
<1>3. /\ g \in [Prompts -> Phases] /\ g[r] = to
      /\ \A q \in Prompts : q # r => g[q] = phase[q]
  BY <1>1
<1>4. Held(g) = Held(phase) - 1 /\ Held(g) \in Nat
  <2>1. Held(g) = Held(phase) - Weight(r, phase[r]) + Weight(r, to)
    BY <1>1, HeldMoves
  <2>2. Held(g) \in Nat
    BY HeldIsNat
  <2>. HIDE DEF g
  <2>. QED  BY <1>2, <2>1, <2>2
<1>. HIDE DEF g
<1>5. CASE waiters = <<>>
  <2>1. free' = free + 1 /\ phase' = g /\ waiters' = waiters
    BY <1>5 DEF Release, g
  <2>2. free' + Held(phase') = Capacity
    BY <1>1, <1>2, <1>4, <2>1
  <2>3. SemaphoreTypes'
    BY <1>1, <1>2, <1>3, <1>4, <2>1 DEF SemaphoreTypes
  <2>4. LineOfWaiting'
    BY <1>1, <1>3, <2>1 DEF SemaphoreInv, LineOfWaiting
  <2>5. EnteringSummaries'
    BY <1>3, <2>1 DEF SemaphoreInv, EnteringSummaries, Waits
  <2>6. SlotsExact'
    BY <1>1, <2>1, <2>2, HeldIsNat, SlotsOfHeldNext DEF Held
  <2>. QED
    BY <1>5, <2>1, <2>3, <2>4, <2>5, <2>6 DEF SemaphoreInv, NoIdleSlot
<1>6. CASE waiters # <<>>
  <2>. DEFINE h == Head(waiters)
  <2>1. /\ free' = free /\ waiters' = Tail(waiters)
        /\ phase' = [phase EXCEPT ![r] = to, ![h] = Granted[phase[h]]]
    BY <1>6 DEF Release
  <2>2. /\ waiters' \in Seq(Prompts) /\ Injective(waiters')
        /\ h \in Members(waiters)
        /\ Members(waiters') = Members(waiters) \ {h}
    BY <1>1, <1>6, <2>1, LeaveFront DEF SemaphoreInv, LineOfWaiting
  <2>3. h \in Prompts /\ phase[h] \in Waits /\ h # r
    BY <2>2 DEF SemaphoreInv, LineOfWaiting
  <2>. HIDE DEF h
  <2>. DEFINE on == Granted[phase[h]]
  <2>4. on = (IF phase[h] = "entering" THEN "between" ELSE "calling")
    BY <2>3 DEF Granted, Waits
  <2>5. on \in Phases \ Waits /\ g[h] = phase[h]
    BY <1>3, <2>3, <2>4 DEF Phases, Waits
  <2>6. Weight(h, on) = Weight(h, g[h]) + 1
    <3>1. phase[h] = "entering" => h \in Summaries
      BY <2>3 DEF SemaphoreInv, EnteringSummaries
    <3>. QED  BY <2>3, <2>4, <2>5, <3>1 DEF Weight, Waits
  <2>7. phase' = [g EXCEPT ![h] = on]
    BY <2>1 DEF g
  <2>. HIDE DEF on
  <2>8. Held(phase') = Held(g) + 1
    <3>1. Weight(h, g[h]) \in Nat
      BY WeightIsSmall
    <3>2. Held([g EXCEPT ![h] = on]) = Held(g) - Weight(h, g[h]) + Weight(h, on)
      BY <1>3, <2>3, <2>5, HeldMoves
    <3>. QED  BY <1>4, <2>6, <2>7, <3>1, <3>2
  <2>9. free' + Held(phase') = Capacity
    BY <1>1, <1>2, <1>4, <2>1, <2>8
  <2>10. /\ phase' \in [Prompts -> Phases]
         /\ phase'[r] = to /\ phase'[h] = on
         /\ \A q \in Prompts : q # r /\ q # h => phase'[q] = phase[q]
    BY <1>3, <2>3, <2>5, <2>7
  <2>11. SemaphoreTypes'
    BY <1>1, <2>1, <2>2, <2>10 DEF SemaphoreTypes, SemaphoreInv
  <2>12. LineOfWaiting'
    BY <2>2, <2>3, <2>5, <2>10 DEF SemaphoreInv, LineOfWaiting
  <2>13. EnteringSummaries'
    BY <2>5, <2>10 DEF SemaphoreInv, EnteringSummaries, Waits
  <2>14. SlotsExact'
    BY <1>1, <2>1, <2>9, HeldIsNat, SlotsOfHeldNext DEF Held
  <2>15. NoIdleSlot'
    BY <1>6, <2>1 DEF SemaphoreInv, NoIdleSlot
  <2>. QED  BY <2>11, <2>12, <2>13, <2>14, <2>15 DEF SemaphoreInv
<1>. QED  BY <1>5, <1>6

\* A request that stops waiting leaves the line, and held nothing for it.
LEMMA StopWaitingKept ==
  ASSUME SemaphoreInv, NEW r \in Prompts, NEW to \in Phases \ Waits,
         Weight(r, to) = Weight(r, phase[r]),
         StopWaiting(r, to)
  PROVE  SemaphoreInv'
<1>1. /\ free \in Nat /\ Capacity \in Nat /\ free <= Capacity
      /\ waiters \in Seq(Prompts) /\ phase \in [Prompts -> Phases]
  BY LlmAdmissionAssumption DEF SemaphoreInv, SemaphoreTypes
<1>2. /\ Weight(r, to) \in Nat /\ Held(phase) \in Nat
      /\ free + Held(phase) = Capacity
  <2>1. Weight(r, to) \in 0 .. 2
    BY ONLY WeightIsSmall
  <2>2. Held(phase) \in Nat /\ Cardinality(Routes(phase)) \in Nat
        /\ Cardinality(Callings(phase)) \in Nat
    BY HeldIsNat
  <2>3. free + Cardinality(Routes(phase)) + Cardinality(Callings(phase)) = Capacity
    BY SlotsOfHeld DEF SemaphoreInv
  <2>4. Held(phase) = Cardinality(Routes(phase)) + Cardinality(Callings(phase))
    BY DEF Held
  <2>. QED  BY ONLY <1>1, <2>1, <2>2, <2>3, <2>4
<1>3. free' = free /\ phase' = [phase EXCEPT ![r] = to]
  BY DEF StopWaiting
<1>4. PICK i \in DOMAIN waiters : waiters[i] = r /\ waiters' = RemoveAt(waiters, i)
  BY DEF StopWaiting
<1>5. /\ waiters' \in Seq(Prompts) /\ Injective(waiters')
      /\ Members(waiters') = Members(waiters) \ {r}
  <2>1. waiters \in Seq(Prompts) /\ Injective(waiters) /\ i \in DOMAIN waiters
    BY <1>1, <1>4 DEF SemaphoreInv, LineOfWaiting
  <2>2. /\ RemoveAt(waiters, i) \in Seq(Prompts) /\ Injective(RemoveAt(waiters, i))
        /\ Members(RemoveAt(waiters, i)) = Members(waiters) \ {waiters[i]}
    BY ONLY <2>1, LeaveLine
  <2>. QED  BY ONLY <1>4, <2>2
<1>6. Held(phase') = Held(phase)
  <2>1. Held(phase') = Held(phase) - Weight(r, phase[r]) + Weight(r, to)
    BY <1>1, <1>3, HeldMoves
  <2>. QED  BY <1>2, <2>1
<1>7. free' + Held(phase') = Capacity
  BY <1>2, <1>3, <1>6
<1>8. SemaphoreTypes'
  BY <1>1, <1>3, <1>5 DEF SemaphoreTypes, SemaphoreInv
<1>9. LineOfWaiting'
  BY <1>1, <1>3, <1>5 DEF SemaphoreInv, LineOfWaiting
<1>10. EnteringSummaries'
  BY <1>1, <1>3 DEF SemaphoreInv, EnteringSummaries, Waits
<1>11. SlotsExact'
  BY <1>1, <1>3, <1>7, HeldIsNat, SlotsOfHeldNext DEF Held
<1>12. NoIdleSlot'
  <2>1. waiters # <<>>
    BY <1>4
  <2>. QED  BY <1>3, <2>1 DEF SemaphoreInv, NoIdleSlot
<1>. QED  BY <1>8, <1>9, <1>10, <1>11, <1>12 DEF SemaphoreInv

\* The moves of a request that neither take nor give a slot nor wait for one.
LEMMA GoesOnKept ==
  ASSUME SemaphoreInv, NEW r \in Prompts, NEW to \in Phases \ Waits,
         phase[r] \notin Waits, Weight(r, to) = Weight(r, phase[r]),
         phase' = [phase EXCEPT ![r] = to], UNCHANGED <<free, waiters>>
  PROVE  SemaphoreInv'
<1>1. /\ free \in Nat /\ Capacity \in Nat /\ phase \in [Prompts -> Phases]
  BY LlmAdmissionAssumption DEF SemaphoreInv, SemaphoreTypes
<1>2. /\ Weight(r, to) \in Nat /\ Held(phase) \in Nat
      /\ free + Held(phase) = Capacity
  <2>1. Weight(r, to) \in 0 .. 2
    BY ONLY WeightIsSmall
  <2>2. Held(phase) \in Nat /\ Cardinality(Routes(phase)) \in Nat
        /\ Cardinality(Callings(phase)) \in Nat
    BY HeldIsNat
  <2>3. free + Cardinality(Routes(phase)) + Cardinality(Callings(phase)) = Capacity
    BY SlotsOfHeld DEF SemaphoreInv
  <2>4. Held(phase) = Cardinality(Routes(phase)) + Cardinality(Callings(phase))
    BY DEF Held
  <2>. QED  BY ONLY <1>1, <2>1, <2>2, <2>3, <2>4
<1>3. Held(phase') = Held(phase)
  <2>1. Held(phase') = Held(phase) - Weight(r, phase[r]) + Weight(r, to)
    BY <1>1, HeldMoves
  <2>. QED  BY <1>2, <2>1
<1>4. free' + Held(phase') = Capacity
  BY <1>2, <1>3
<1>5. SlotsExact'
  BY <1>1, <1>4, HeldIsNat, SlotsOfHeldNext DEF Held
<1>6. SemaphoreTypes'
  BY <1>1 DEF SemaphoreInv, SemaphoreTypes
<1>7. LineOfWaiting'
  BY <1>1 DEF SemaphoreInv, LineOfWaiting
<1>8. EnteringSummaries'
  BY <1>1 DEF SemaphoreInv, EnteringSummaries, Waits
<1>. QED  BY <1>5, <1>6, <1>7, <1>8 DEF SemaphoreInv, NoIdleSlot

\* What is held in each phase.
LEMMA WeightOfPhase ==
  ASSUME NEW r
  PROVE  /\ Weight(r, "outside") = 0 /\ Weight(r, "entering") = 0
         /\ Weight(r, "queued") = Weight(r, "between")
         /\ Weight(r, "backoff") = Weight(r, "between")
         /\ Weight(r, "leaving") = Weight(r, "between")
         /\ Weight(r, "calling") = Weight(r, "between") + 1
         /\ Weight(r, "between") = IF r \in Summaries THEN 1 ELSE 0
  BY DEF Weight

LEMMA NextPhases ==
  ASSUME NEW r
  PROVE  AfterProvider(r) \in {"leaving", "between"}
  BY DEF AfterProvider

LEMMA LlmInvInit == LlmInit => LlmInv
<1>. SUFFICES ASSUME LlmInit  PROVE  LlmInv
  OBVIOUS
<1>1. Capacity \in Nat \ {0} /\ Providers \in Nat \ {0} /\ Attempts \in Nat \ {0}
  BY LlmAdmissionAssumption
<1>2. SemaphoreTypes
  BY <1>1 DEF LlmInit, SemaphoreTypes, Phases
<1>3. LineOfWaiting
  BY DEF LlmInit, LineOfWaiting, Injective, Members, Waits
<1>4. SlotsExact
  <2>1. Routes(phase) = {} /\ Callings(phase) = {}
    BY DEF LlmInit, Routes, Callings
  <2>2. Cardinality(Routes(phase)) = 0 /\ Cardinality(Callings(phase)) = 0
    BY <2>1, FS_EmptySet
  <2>3. free = Capacity
    BY DEF LlmInit
  <2>4. free + Cardinality(Routes(phase)) + Cardinality(Callings(phase)) = Capacity
    BY <1>1, <2>2, <2>3
  <2>. QED  BY <2>4, SlotsOfHeld
<1>5. ClientTypes
  BY <1>1 DEF LlmInit, ClientTypes
<1>. QED
  BY <1>2, <1>3, <1>4, <1>5
     DEF LlmInit, LlmInv, SemaphoreInv, EnteringSummaries, NoIdleSlot

\* The provider that is given up leaves a chain to try, or an error.
LEMMA GivingUpTypes ==
  ASSUME ClientTypes, NEW r \in Prompts, NEW why \in {"provider", "overload"},
         GiveUpProvider(r, why)
  PROVE  ClientTypes'
<1>1. Providers \in Nat \ {0} /\ Attempts \in Nat \ {0}
  BY LlmAdmissionAssumption
<1>2. error' = [error EXCEPT ![r] = why]
  BY DEF GiveUpProvider
<1>3. CASE Exhausted(r)
  <2>1. answer' = [answer EXCEPT ![r] = "502"] /\ UNCHANGED <<provider, try>>
    BY <1>3 DEF GiveUpProvider
  <2>. QED  BY <1>2, <2>1 DEF ClientTypes
<1>4. CASE ~Exhausted(r)
  <2>1. /\ provider' = [provider EXCEPT ![r] = @ + 1]
        /\ try' = [try EXCEPT ![r] = 1] /\ answer' = answer
    BY <1>4 DEF GiveUpProvider
  <2>2. provider[r] + 1 \in 1 .. Providers
    BY <1>1, <1>4 DEF Exhausted, ClientTypes
  <2>3. provider' \in [Prompts -> 1 .. Providers]
    BY <2>1, <2>2 DEF ClientTypes
  <2>4. try' \in [Prompts -> 1 .. Attempts]
    BY <1>1, <2>1 DEF ClientTypes
  <2>. QED  BY <1>2, <2>1, <2>3, <2>4 DEF ClientTypes
<1>. QED  BY <1>3, <1>4

LEMMA ArriveKept == ASSUME LlmInv, NEW r \in Prompts, Arrive(r)  PROVE  LlmInv'
<1>1. phase[r] = "outside"
  BY DEF Arrive
<1>2. ClientTypes'
  <2>1. Providers \in Nat \ {0} /\ Attempts \in Nat \ {0}
    BY LlmAdmissionAssumption
  <2>2. 1 \in 1 .. Providers /\ 1 \in 1 .. Attempts
    BY <2>1
  <2>. QED  BY <2>2 DEF LlmInv, Arrive, ClientTypes
<1>3. CASE r \in Summaries
  <2>1. TakeOrWait(r, "between", "entering")
    BY <1>3 DEF Arrive
  <2>2. /\ Weight(r, "between") = Weight(r, phase[r]) + 1
        /\ Weight(r, "entering") = Weight(r, phase[r])
    BY <1>1, <1>3, WeightOfPhase
  <2>3. "between" \in Phases \ Waits /\ "entering" \in Waits /\ phase[r] \notin Waits
    BY <1>1 DEF Phases, Waits
  <2>. QED  BY <1>2, <1>3, <2>1, <2>2, <2>3, TakeOrWaitKept DEF LlmInv
<1>4. CASE r \notin Summaries
  <2>1. phase' = [phase EXCEPT ![r] = "between"] /\ UNCHANGED <<free, waiters>>
    BY <1>4 DEF Arrive
  <2>2. Weight(r, "between") = Weight(r, phase[r])
    BY <1>1, <1>4, WeightOfPhase
  <2>3. "between" \in Phases \ Waits /\ phase[r] \notin Waits
    BY <1>1 DEF Phases, Waits
  <2>. QED  BY <1>2, <2>1, <2>2, <2>3, GoesOnKept DEF LlmInv
<1>. QED  BY <1>3, <1>4

\* A wait expires at the route or for a call, or is cancelled there.
LEMMA WaitEndsKept ==
  ASSUME LlmInv, NEW r \in Prompts
  PROVE  /\ phase[r] = "entering" /\ StopWaiting(r, "outside") => SemaphoreInv'
         /\ phase[r] = "queued" /\ StopWaiting(r, "leaving") => SemaphoreInv'
         /\ phase[r] = "queued" /\ StopWaiting(r, AfterProvider(r)) => SemaphoreInv'
<1>1. {"outside", "leaving", "between"} \subseteq Phases \ Waits
  BY DEF Phases, Waits
<1>2. ASSUME phase[r] = "entering", StopWaiting(r, "outside")  PROVE  SemaphoreInv'
  BY <1>1, <1>2, WeightOfPhase, StopWaitingKept DEF LlmInv
<1>3. ASSUME phase[r] = "queued", NEW to \in {"leaving", "between"}, StopWaiting(r, to)
      PROVE  SemaphoreInv'
  BY <1>1, <1>3, WeightOfPhase, StopWaitingKept DEF LlmInv
<1>. QED  BY <1>2, <1>3, NextPhases

\* A call ends, however, and its slot is free or handed on.
LEMMA CallEndsKept ==
  ASSUME LlmInv, NEW r \in Prompts, NEW to \in {"leaving", "between", "backoff"},
         phase[r] = "calling", Release(r, to)
  PROVE  SemaphoreInv'
<1>1. to \in Phases \ Waits /\ phase[r] \notin Waits
  BY DEF Phases, Waits
<1>2. Weight(r, phase[r]) = Weight(r, to) + 1
  BY WeightOfPhase
<1>. QED  BY <1>1, <1>2, ReleaseKept DEF LlmInv

LEMMA LeaveRouteKept ==
  ASSUME LlmInv, NEW r \in Prompts, LeaveRoute(r)  PROVE  SemaphoreInv'
<1>1. phase[r] = "leaving" /\ "outside" \in Phases \ Waits /\ phase[r] \notin Waits
  BY DEF LeaveRoute, Phases, Waits
<1>2. CASE r \in Summaries
  <2>1. Weight(r, phase[r]) = Weight(r, "outside") + 1
    BY <1>1, <1>2, WeightOfPhase
  <2>. QED  BY <1>1, <1>2, <2>1, ReleaseKept DEF LlmInv, LeaveRoute
<1>3. CASE r \notin Summaries
  <2>1. Weight(r, "outside") = Weight(r, phase[r])
    BY <1>1, <1>3, WeightOfPhase
  <2>. QED  BY <1>1, <1>3, <2>1, GoesOnKept DEF LlmInv, LeaveRoute
<1>. QED  BY <1>2, <1>3

\* A request that pauses or begins an attempt.
LEMMA GoesOn ==
  ASSUME LlmInv, NEW r \in Prompts, NEW to \in {"between", "leaving"},
         phase[r] = "backoff", phase' = [phase EXCEPT ![r] = to],
         UNCHANGED <<free, waiters>>
  PROVE  SemaphoreInv'
<1>1. to \in Phases \ Waits /\ phase[r] \notin Waits
  BY DEF Phases, Waits
<1>2. Weight(r, to) = Weight(r, phase[r])
  BY WeightOfPhase
<1>. QED  BY <1>1, <1>2, GoesOnKept DEF LlmInv

LEMMA StartAttemptKept ==
  ASSUME LlmInv, NEW r \in Prompts, StartAttempt(r)  PROVE  SemaphoreInv'
<1>1. /\ phase[r] = "between" /\ phase[r] \notin Waits
      /\ "calling" \in Phases \ Waits /\ "queued" \in Waits
      /\ TakeOrWait(r, "calling", "queued")
  BY DEF StartAttempt, Phases, Waits
<1>2. /\ Weight(r, "calling") = Weight(r, phase[r]) + 1
      /\ Weight(r, "queued") = Weight(r, phase[r])
  BY <1>1, WeightOfPhase
<1>. QED  BY <1>1, <1>2, TakeOrWaitKept DEF LlmInv

LEMMA LlmInvNext == LlmInv /\ [LlmNext]_lvars => LlmInv'
<1>. SUFFICES ASSUME LlmInv, [LlmNext]_lvars  PROVE  LlmInv'
  OBVIOUS
<1>. USE DEF LlmInv
<1>1. ASSUME NEW r \in Prompts, Arrive(r)  PROVE  LlmInv'
  BY <1>1, ArriveKept
<1>2. ASSUME NEW r \in Prompts, EntryTimesOut(r)  PROVE  LlmInv'
  <2>1. SemaphoreInv'
    BY <1>2, WaitEndsKept DEF EntryTimesOut
  <2>2. ClientTypes'
    BY <1>2 DEF EntryTimesOut, ClientTypes
  <2>. QED  BY <2>1, <2>2
<1>3. ASSUME NEW r \in Prompts, StartAttempt(r)  PROVE  LlmInv'
  <2>1. ClientTypes'
    BY <1>3 DEF StartAttempt, ClientTypes
  <2>. QED  BY <1>3, <2>1, StartAttemptKept
<1>4. ASSUME NEW r \in Prompts, AttemptTimesOut(r)  PROVE  LlmInv'
  <2>1. SemaphoreInv'
    BY <1>4, WaitEndsKept DEF AttemptTimesOut
  <2>2. ClientTypes'
    BY <1>4, GivingUpTypes DEF AttemptTimesOut
  <2>. QED  BY <2>1, <2>2
<1>5. ASSUME NEW r \in Prompts, CallSucceeds(r)  PROVE  LlmInv'
  <2>1. SemaphoreInv'
    BY <1>5, CallEndsKept DEF CallSucceeds
  <2>2. ClientTypes'
    BY <1>5 DEF CallSucceeds, ClientTypes
  <2>. QED  BY <2>1, <2>2
<1>6. ASSUME NEW r \in Prompts, RetryCall(r)  PROVE  LlmInv'
  <2>1. SemaphoreInv'
    BY <1>6, CallEndsKept DEF RetryCall
  <2>2. /\ try[r] < Attempts /\ try' = [try EXCEPT ![r] = @ + 1]
        /\ UNCHANGED <<provider, error, answer>>
    BY <1>6 DEF RetryCall
  <2>3. try' \in [Prompts -> 1 .. Attempts]
    <3>1. try[r] + 1 \in 1 .. Attempts
      BY <2>2, LlmAdmissionAssumption DEF ClientTypes
    <3>. QED  BY <2>2, <3>1 DEF ClientTypes
  <2>4. ClientTypes'
    BY <2>2, <2>3 DEF ClientTypes
  <2>. QED  BY <2>1, <2>4
<1>7. ASSUME NEW r \in Prompts, CallFails(r)  PROVE  LlmInv'
  <2>1. SemaphoreInv'
    BY <1>7, CallEndsKept, NextPhases DEF CallFails
  <2>2. ClientTypes'
    BY <1>7, GivingUpTypes DEF CallFails
  <2>. QED  BY <2>1, <2>2
<1>8. ASSUME NEW r \in Prompts, PauseEnds(r)  PROVE  LlmInv'
  <2>1. SemaphoreInv'
    BY <1>8, GoesOn DEF PauseEnds
  <2>2. ClientTypes'
    BY <1>8 DEF PauseEnds, ClientTypes
  <2>. QED  BY <2>1, <2>2
<1>9. ASSUME NEW r \in Prompts, LeaveRoute(r)  PROVE  LlmInv'
  <2>1. ClientTypes'
    BY <1>9 DEF LeaveRoute, ClientTypes
  <2>. QED  BY <1>9, <2>1, LeaveRouteKept
<1>10. ASSUME NEW r \in Prompts, CancelRequest(r)  PROVE  LlmInv'
  <2>1. ClientTypes'
    BY <1>10 DEF CancelRequest, ClientTypes
  <2>2. SemaphoreInv'
    BY <1>10, WaitEndsKept, CallEndsKept, GoesOn DEF CancelRequest
  <2>. QED  BY <2>1, <2>2
<1>11. CASE UNCHANGED lvars
  BY <1>11 DEF lvars, ClientTypes, SemaphoreInv, SemaphoreTypes, LineOfWaiting,
               EnteringSummaries, NoIdleSlot, SlotsExact, RouteHolders, AtRoute,
               CallHolders
<1>. QED
  BY <1>1, <1>2, <1>3, <1>4, <1>5, <1>6, <1>7, <1>8, <1>9, <1>10, <1>11
     DEF LlmNext, Proceed

LEMMA LlmInvAlways == LlmSpec => []LlmInv
  BY LlmInvInit, LlmInvNext, PTL DEF LlmSpec

\* Every variable of LlmAdmission keeps its type.
THEOREM LlmTypeCorrect == LlmSpec => []LlmTypeOK
<1>1. LlmInv => LlmTypeOK
  BY DEF LlmInv, SemaphoreInv, SemaphoreTypes, ClientTypes, LlmTypeOK
<1>. QED  BY <1>1, LlmInvAlways, PTL

\* For any capacity and any requests, each slot is free or held exactly once,
\* whatever times out, fails or is cancelled.
THEOREM SlotsStayExact == LlmSpec => []SlotsExact
<1>1. LlmInv => SlotsExact
  BY DEF LlmInv, SemaphoreInv
<1>. QED  BY <1>1, LlmInvAlways, PTL

\* No slot is free while a request waits for one: a released slot is handed to
\* the first in line, and who gives up waiting leaves the line.
THEOREM NoSlotIdles == LlmSpec => []NoIdleSlot
<1>1. LlmInv => NoIdleSlot
  BY DEF LlmInv, SemaphoreInv
<1>. QED  BY <1>1, LlmInvAlways, PTL

-----------------------------------------------------------------------------
(***************************************************************************)
(* BlockingWork, for any requests, classes, capacities and pools.          *)
(***************************************************************************)

QueuedIn(p) == {v \in Visitors : Pool(v) = p /\ visit[v] = "queued"}

\* The work queue of a pool holds each request that waits for the pool, once.
JobsOfQueued ==
  \A p \in Classes : Injective(jobs[p]) /\ Members(jobs[p]) = QueuedIn(p)

SlotsWithinRoom == \A c \in Classes : Cardinality(SlotHolders(c)) <= Room[c]

BlockingInv == BlockingTypeOK /\ JobsOfQueued /\ SlotsWithinRoom

LEMMA SlotHoldersFinite ==
  ASSUME NEW c
  PROVE  IsFiniteSet(SlotHolders(c)) /\ Cardinality(SlotHolders(c)) \in Nat
  BY BlockingAssumption, FS_Subset, FS_CardinalityType DEF SlotHolders

LEMMA PoolIsClass == \A v \in Visitors : ClassOf[v] \in Classes /\ Pool(v) \in Classes
  BY BlockingAssumption DEF Pool

\* The requests that wait or run in a pool hold a slot of the class of the pool,
\* but for those of other classes.
LEMMA BlockingInvCause == BlockingInv => WaitsOnlyForCause
<1>. SUFFICES ASSUME BlockingInv, NEW p \in Classes
              PROVE  Delayed(p) <= orphans[p] + Cardinality(Foreign(p))
  BY DEF WaitsOnlyForCause
<1>. DEFINE Q == QueuedIn(p)
            L == Live(p)
            F == Foreign(p)
            H == SlotHolders(p)
<1>1. /\ IsFiniteSet(Q) /\ IsFiniteSet(L) /\ IsFiniteSet(F) /\ IsFiniteSet(H)
  BY BlockingAssumption, FS_Subset DEF QueuedIn, Live, Foreign, SlotHolders
<1>2. Q \cap L = {}
  BY DEF QueuedIn, Live
<1>3. Q \cup L \subseteq F \cup H
  BY DEF QueuedIn, Live, Foreign, SlotHolders, Admitted
<1>4. Cardinality(Q) = Len(jobs[p])
  BY LengthOfInjective DEF BlockingInv, BlockingTypeOK, JobsOfQueued
<1>5. Cardinality(H) <= Room[p]
  BY DEF BlockingInv, SlotsWithinRoom
<1>6. orphans[p] \in Nat /\ Room[p] \in Nat
  BY BlockingAssumption DEF BlockingInv, BlockingTypeOK
<1>7. Delayed(p) = Len(jobs[p]) - (Room[p] - Cardinality(L) - orphans[p])
  BY DEF Delayed, Idle
<1>. HIDE DEF Q, L, F, H
<1>8. /\ Cardinality(Q) \in Nat /\ Cardinality(L) \in Nat
      /\ Cardinality(F) \in Nat /\ Cardinality(H) \in Nat
      /\ Cardinality(F \cap H) \in Nat
  BY <1>1, FS_CardinalityType, FS_Intersection
<1>9. /\ IsFiniteSet(Q \cup L)
      /\ Cardinality(Q \cup L) = Cardinality(Q) + Cardinality(L) - Cardinality(Q \cap L)
  BY <1>1, FS_Union
<1>10. Cardinality(Q \cap L) = 0
  BY <1>2, FS_EmptySet
<1>11. /\ IsFiniteSet(F \cup H)
       /\ Cardinality(F \cup H) = Cardinality(F) + Cardinality(H) - Cardinality(F \cap H)
  BY <1>1, FS_Union
<1>12. Cardinality(Q \cup L) <= Cardinality(F \cup H)
  BY <1>3, <1>11, FS_Subset
<1>13. Len(jobs[p]) + Cardinality(L) <= Cardinality(F) + Room[p]
  BY <1>4, <1>5, <1>6, <1>8, <1>9, <1>10, <1>11, <1>12
<1>14. Len(jobs[p]) - (Room[p] - Cardinality(L) - orphans[p]) <= orphans[p] + Cardinality(F)
  <2>1. \A n, l, f, r, o \in Int : n + l <= f + r => n - (r - l - o) <= o + f
    OBVIOUS
  <2>2. /\ Len(jobs[p]) \in Int /\ Room[p] \in Int /\ orphans[p] \in Int
        /\ Cardinality(L) \in Int /\ Cardinality(F) \in Int
    BY <1>4, <1>6, <1>8
  <2>. QED  BY <1>13, <2>1, <2>2, Zenon
<1>. QED  BY <1>7, <1>14 DEF F

LEMMA BlockingInvInit == BlockingInit => BlockingInv
<1>. SUFFICES ASSUME BlockingInit  PROVE  BlockingInv
  OBVIOUS
<1>1. BlockingTypeOK
  BY DEF BlockingInit, BlockingTypeOK
<1>2. JobsOfQueued
  BY DEF BlockingInit, JobsOfQueued, Injective, Members, QueuedIn
<1>3. ASSUME NEW c \in Classes  PROVE  Cardinality(SlotHolders(c)) <= Room[c]
  <2>1. SlotHolders(c) = {}
    BY DEF BlockingInit, SlotHolders, Admitted
  <2>. QED  BY <2>1, FS_EmptySet, BlockingAssumption
<1>. QED  BY <1>1, <1>2, <1>3 DEF BlockingInv, SlotsWithinRoom

\* A request that keeps its slot, or gives it back, leaves room.
LEMMA SlotKeptOrGiven ==
  ASSUME BlockingInv, NEW v \in Visitors, NEW to \in {"outside"} \cup Admitted,
         visit[v] \in Admitted, Go(v, to)
  PROVE  SlotsWithinRoom'
<1>1. visit' = [visit EXCEPT ![v] = to]
  BY DEF Go
<1>2. ASSUME NEW c \in Classes  PROVE  Cardinality(SlotHolders(c)') <= Room[c]
  <2>1. SlotHolders(c)' \subseteq SlotHolders(c)
    BY <1>1 DEF SlotHolders, BlockingInv, BlockingTypeOK
  <2>2. Cardinality(SlotHolders(c)') <= Cardinality(SlotHolders(c))
    BY <2>1, SlotHoldersFinite, FS_Subset
  <2>3. Cardinality(SlotHolders(c)') \in Nat
    BY <2>1, SlotHoldersFinite, FS_Subset, FS_CardinalityType
  <2>. QED
    BY <2>2, <2>3, SlotHoldersFinite, BlockingAssumption DEF BlockingInv, SlotsWithinRoom
<1>. QED  BY <1>2 DEF SlotsWithinRoom

\* A request that is in no queue before or after leaves the queues as they are.
LEMMA QueuesKept ==
  ASSUME BlockingInv, NEW v \in Visitors, NEW to \in {"outside"} \cup Admitted,
         visit[v] # "queued", to # "queued", Go(v, to), UNCHANGED jobs
  PROVE  JobsOfQueued'
<1>1. visit' = [visit EXCEPT ![v] = to]
  BY DEF Go
<1>2. \A p : QueuedIn(p)' = QueuedIn(p)
  BY <1>1 DEF QueuedIn, Pool, BlockingInv, BlockingTypeOK
<1>. QED  BY <1>2 DEF BlockingInv, JobsOfQueued

LEMMA AdmitKept == ASSUME BlockingInv, NEW v \in Visitors, Admit(v)  PROVE  BlockingInv'
<1>1. /\ visit[v] = "outside" /\ visit' = [visit EXCEPT ![v] = "admitted"]
      /\ UNCHANGED <<jobs, orphans>>
      /\ Cardinality(SlotHolders(ClassOf[v])) < Room[ClassOf[v]]
  BY DEF Admit, Go
<1>2. BlockingTypeOK'
  BY <1>1 DEF BlockingInv, BlockingTypeOK, Admitted
<1>3. JobsOfQueued'
  BY <1>1, QueuesKept DEF Go, Admitted
<1>4. ASSUME NEW c \in Classes  PROVE  Cardinality(SlotHolders(c)') <= Room[c]
  <2>1. CASE c # ClassOf[v]
    <3>1. SlotHolders(c)' = SlotHolders(c)
      BY <1>1, <2>1 DEF SlotHolders, BlockingInv, BlockingTypeOK
    <3>. QED  BY <3>1 DEF BlockingInv, SlotsWithinRoom
  <2>2. CASE c = ClassOf[v]
    <3>1. SlotHolders(c)' = SlotHolders(c) \cup {v}
      BY <1>1, <2>2 DEF SlotHolders, BlockingInv, BlockingTypeOK, Admitted
    <3>2. v \notin SlotHolders(c)
      BY <1>1 DEF SlotHolders, Admitted
    <3>3. Cardinality(SlotHolders(c)') = Cardinality(SlotHolders(c)) + 1
      BY <3>1, <3>2, SlotHoldersFinite, FS_AddElement
    <3>. QED  BY <1>1, <2>2, <3>3, SlotHoldersFinite, BlockingAssumption
  <2>. QED  BY <2>1, <2>2
<1>. QED  BY <1>2, <1>3, <1>4 DEF BlockingInv, SlotsWithinRoom

LEMMA SubmitKept == ASSUME BlockingInv, NEW v \in Visitors, Submit(v)  PROVE  BlockingInv'
<1>1. /\ visit[v] = "admitted" /\ visit' = [visit EXCEPT ![v] = "queued"]
      /\ jobs' = [jobs EXCEPT ![Pool(v)] = Append(@, v)]
      /\ UNCHANGED orphans
  BY DEF Submit, Go
<1>2. jobs \in [Classes -> Seq(Visitors)] /\ Pool(v) \in Classes
  BY PoolIsClass DEF BlockingInv, BlockingTypeOK
<1>3. v \notin Members(jobs[Pool(v)])
  BY <1>1, <1>2 DEF BlockingInv, JobsOfQueued, QueuedIn
<1>4. /\ jobs'[Pool(v)] \in Seq(Visitors) /\ Injective(jobs'[Pool(v)])
      /\ Members(jobs'[Pool(v)]) = Members(jobs[Pool(v)]) \cup {v}
  BY <1>1, <1>2, <1>3, JoinLine DEF BlockingInv, JobsOfQueued
<1>5. BlockingTypeOK'
  BY <1>1, <1>2, <1>4 DEF BlockingInv, BlockingTypeOK, Admitted
<1>6. ASSUME NEW p \in Classes
      PROVE  Injective(jobs'[p]) /\ Members(jobs'[p]) = QueuedIn(p)'
  <2>1. QueuedIn(p)' = IF p = Pool(v) THEN QueuedIn(p) \cup {v} ELSE QueuedIn(p)
    BY <1>1 DEF QueuedIn, Pool, BlockingInv, BlockingTypeOK
  <2>2. p # Pool(v) => jobs'[p] = jobs[p]
    BY <1>1, <1>2
  <2>. QED  BY <1>2, <1>4, <2>1, <2>2 DEF BlockingInv, JobsOfQueued
<1>7. SlotsWithinRoom'
  BY <1>1, SlotKeptOrGiven DEF Go, Admitted
<1>. QED  BY <1>5, <1>6, <1>7 DEF BlockingInv, JobsOfQueued

LEMMA TakeJobKept == ASSUME BlockingInv, NEW p \in Classes, TakeJob(p)  PROVE  BlockingInv'
<1>. DEFINE v == Head(jobs[p])
<1>1. /\ jobs[p] # <<>> /\ visit' = [visit EXCEPT ![v] = "running"]
      /\ jobs' = [jobs EXCEPT ![p] = Tail(@)]
      /\ UNCHANGED orphans
  BY DEF TakeJob, Go
<1>2. jobs \in [Classes -> Seq(Visitors)]
  BY DEF BlockingInv, BlockingTypeOK
<1>3. /\ jobs'[p] \in Seq(Visitors) /\ Injective(jobs'[p])
      /\ v \in Members(jobs[p])
      /\ Members(jobs'[p]) = Members(jobs[p]) \ {v}
  BY <1>1, <1>2, LeaveFront DEF BlockingInv, JobsOfQueued
<1>4. v \in Visitors /\ Pool(v) = p /\ visit[v] = "queued"
  BY <1>3 DEF BlockingInv, JobsOfQueued, QueuedIn
<1>. HIDE DEF v
<1>5. BlockingTypeOK'
  BY <1>1, <1>2, <1>3, <1>4 DEF BlockingInv, BlockingTypeOK, Admitted
<1>6. ASSUME NEW c \in Classes
      PROVE  Injective(jobs'[c]) /\ Members(jobs'[c]) = QueuedIn(c)'
  <2>1. QueuedIn(c)' = QueuedIn(c) \ {v}
    BY <1>1, <1>4 DEF QueuedIn, Pool, BlockingInv, BlockingTypeOK
  <2>2. c # p => jobs'[c] = jobs[c] /\ v \notin QueuedIn(c)
    BY <1>1, <1>2, <1>4 DEF QueuedIn
  <2>. QED  BY <1>3, <2>1, <2>2 DEF BlockingInv, JobsOfQueued
<1>7. SlotsWithinRoom'
  BY <1>1, <1>4, SlotKeptOrGiven DEF Go, Admitted
<1>. QED  BY <1>5, <1>6, <1>7 DEF BlockingInv, JobsOfQueued

\* A request that gives up waiting takes its job out of the queue.
LEMMA CutWaitingKept ==
  ASSUME BlockingInv, NEW v \in Visitors, visit[v] = "queued",
         NEW i \in DOMAIN jobs[Pool(v)], jobs[Pool(v)][i] = v,
         jobs' = [jobs EXCEPT ![Pool(v)] = RemoveAt(@, i)],
         Go(v, "served"), UNCHANGED orphans
  PROVE  BlockingInv'
<1>1. visit' = [visit EXCEPT ![v] = "served"]
  BY DEF Go
<1>2. jobs \in [Classes -> Seq(Visitors)] /\ Pool(v) \in Classes
  BY PoolIsClass DEF BlockingInv, BlockingTypeOK
<1>3. /\ jobs'[Pool(v)] \in Seq(Visitors) /\ Injective(jobs'[Pool(v)])
      /\ Members(jobs'[Pool(v)]) = Members(jobs[Pool(v)]) \ {v}
  BY <1>2, LeaveLine DEF BlockingInv, JobsOfQueued
<1>4. BlockingTypeOK'
  BY <1>1, <1>2, <1>3 DEF BlockingInv, BlockingTypeOK, Admitted
<1>5. ASSUME NEW c \in Classes
      PROVE  Injective(jobs'[c]) /\ Members(jobs'[c]) = QueuedIn(c)'
  <2>1. QueuedIn(c)' = QueuedIn(c) \ {v}
    BY <1>1 DEF QueuedIn, Pool, BlockingInv, BlockingTypeOK
  <2>2. c # Pool(v) => jobs'[c] = jobs[c] /\ v \notin QueuedIn(c)
    BY <1>2 DEF QueuedIn
  <2>. QED  BY <1>3, <2>1, <2>2 DEF BlockingInv, JobsOfQueued
<1>6. SlotsWithinRoom'
  BY SlotKeptOrGiven DEF Admitted
<1>. QED  BY <1>4, <1>5, <1>6 DEF BlockingInv, JobsOfQueued

\* The other moves of a request that holds a slot.
LEMMA MoveKept ==
  ASSUME BlockingInv, NEW v \in Visitors, NEW to \in {"outside"} \cup Admitted,
         visit[v] \in Admitted \ {"queued"}, to # "queued", Go(v, to), UNCHANGED jobs,
         orphans' \in [Classes -> Nat]
  PROVE  BlockingInv'
<1>1. BlockingTypeOK'
  BY DEF BlockingInv, BlockingTypeOK, Go
<1>. QED  BY <1>1, SlotKeptOrGiven, QueuesKept DEF BlockingInv

LEMMA BlockingInvNext == BlockingInv /\ [BlockingNext]_wvars => BlockingInv'
<1>. SUFFICES ASSUME BlockingInv, [BlockingNext]_wvars  PROVE  BlockingInv'
  OBVIOUS
<1>1. orphans \in [Classes -> Nat]
  BY DEF BlockingInv, BlockingTypeOK
<1>2. ASSUME NEW v \in Visitors, Admit(v)  PROVE  BlockingInv'
  BY <1>2, AdmitKept
<1>3. ASSUME NEW v \in Visitors, Submit(v)  PROVE  BlockingInv'
  BY <1>3, SubmitKept
<1>4. ASSUME NEW v \in Visitors, JobEnds(v)  PROVE  BlockingInv'
  BY <1>1, <1>4, MoveKept DEF JobEnds, Admitted
<1>5. ASSUME NEW v \in Visitors, CutShort(v)  PROVE  BlockingInv'
  <2>1. CASE visit[v] = "queued"
    BY <1>5, <2>1, CutWaitingKept DEF CutShort
  <2>2. CASE visit[v] = "running"
    <3>1. /\ orphans' = [orphans EXCEPT ![Pool(v)] = @ + 1]
          /\ Go(v, "served") /\ UNCHANGED jobs
      BY <1>5, <2>2 DEF CutShort
    <3>2. orphans' \in [Classes -> Nat]
      BY <1>1, <3>1, PoolIsClass
    <3>. QED  BY <2>2, <3>1, <3>2, MoveKept DEF Admitted
  <2>. QED  BY <1>5, <2>1, <2>2 DEF CutShort
<1>6. ASSUME NEW v \in Visitors, LeaveClass(v)  PROVE  BlockingInv'
  BY <1>1, <1>6, MoveKept DEF LeaveClass, Admitted
<1>7. ASSUME NEW p \in Classes, TakeJob(p)  PROVE  BlockingInv'
  BY <1>7, TakeJobKept
<1>8. ASSUME NEW p \in Classes, OrphanEnds(p)  PROVE  BlockingInv'
  <2>1. /\ orphans' = [orphans EXCEPT ![p] = @ - 1] /\ orphans[p] > 0
        /\ UNCHANGED <<visit, jobs>>
    BY <1>8 DEF OrphanEnds
  <2>2. orphans' \in [Classes -> Nat]
    BY <1>1, <2>1
  <2>. QED
    BY <2>1, <2>2 DEF BlockingInv, BlockingTypeOK, JobsOfQueued, SlotsWithinRoom,
                      QueuedIn, SlotHolders, Pool
<1>9. CASE UNCHANGED wvars
  BY <1>9 DEF wvars, BlockingInv, BlockingTypeOK, JobsOfQueued, SlotsWithinRoom,
              QueuedIn, SlotHolders, Pool
<1>. QED
  BY <1>2, <1>3, <1>4, <1>5, <1>6, <1>7, <1>8, <1>9 DEF BlockingNext

LEMMA BlockingInvAlways == BlockingSpec => []BlockingInv
  BY BlockingInvInit, BlockingInvNext, PTL DEF BlockingSpec

\* Every variable of BlockingWork keeps its type.
THEOREM BlockingTypeCorrect == BlockingSpec => []BlockingTypeOK
<1>1. BlockingInv => BlockingTypeOK
  BY DEF BlockingInv
<1>. QED  BY <1>1, BlockingInvAlways, PTL

\* For any capacities, and whichever class works in whichever pool, an admitted
\* request waits for a thread only behind threads that work for nobody or
\* behind the work of another class.
THEOREM WaitsHaveCause == BlockingSpec => []WaitsOnlyForCause
  BY BlockingInvCause, BlockingInvAlways, PTL

-----------------------------------------------------------------------------
(***************************************************************************)
(* ClassifierPool, for any number of accounts and any workers.             *)
(***************************************************************************)

Asking == {w \in Workers : worker[w] \in Indices}

\* The tasks of the queue are those that stand in it and those in hand.
TasksCounted == unfinished = Len(line) + Cardinality(Asking)

AtArrival == classify = "arriving" => line = <<>> /\ Asking = {}

\* Until the join returns no worker has stopped or has been told to, and an
\* account without an answer is in the queue or in hand.
NoAccountLost ==
  classify = "joining" =>
    /\ 0 \notin Members(line)
    /\ \A i \in Indices : \/ results[i] # "none"
                          \/ i \in Members(line)
                          \/ \E w \in Workers : worker[w] = i

AnsweredAfterJoin ==
  classify \in {"gathering", "answered"} => \A i \in Indices : results[i] # "none"

WorkersEnded == classify \in Ended => \A w \in Workers : worker[w] = Stopped

ClassifierInv ==
  /\ ClassifierTypeOK
  /\ TasksCounted /\ AtArrival /\ NoAccountLost /\ AnsweredAfterJoin /\ WorkersEnded

LEMMA AskingFinite ==
  /\ IsFiniteSet(Workers) /\ Cardinality(Workers) \in Nat
  /\ IsFiniteSet(Asking) /\ Cardinality(Asking) \in Nat
  BY ClassifierAssumption, FS_Subset, FS_CardinalityType DEF Asking

LEMMA IndicesAreNumbers == Accounts \in Nat /\ Ready \notin Indices /\ Stopped \notin Indices
                           /\ Ready # Stopped
  BY ClassifierAssumption DEF Ready, Stopped, Indices

LEMMA ClassifierInvInit == ClassifierInit => ClassifierInv
<1>. SUFFICES ASSUME ClassifierInit  PROVE  ClassifierInv
  OBVIOUS
<1>1. Asking = {}
  BY IndicesAreNumbers DEF ClassifierInit, Asking
<1>2. ClassifierTypeOK
  BY DEF ClassifierInit, ClassifierTypeOK
<1>3. TasksCounted
  BY <1>1, FS_EmptySet DEF ClassifierInit, TasksCounted
<1>. QED
  BY <1>1, <1>2, <1>3
     DEF ClassifierInit, ClassifierInv, AtArrival, NoAccountLost,
         AnsweredAfterJoin, WorkersEnded, Ended

\* The accounts are put in the queue, each once.
LEMMA BeginClassifyKept == ClassifierInv /\ BeginClassify => ClassifierInv'
<1>. SUFFICES ASSUME ClassifierInv, BeginClassify  PROVE  ClassifierInv'
  OBVIOUS
<1>1. /\ classify = "arriving" /\ classify' = "joining"
      /\ line' = [i \in Indices |-> i] /\ unfinished' = Accounts
      /\ UNCHANGED <<worker, results>>
  BY DEF BeginClassify
<1>2. Accounts \in Nat /\ Indices = 1 .. Accounts
  BY ClassifierAssumption DEF Indices
<1>3. line' \in Seq(0 .. Accounts) /\ Len(line') = Accounts /\ DOMAIN line' = Indices
  BY <1>1, <1>2
<1>4. ClassifierTypeOK'
  BY <1>1, <1>2, <1>3 DEF ClassifierInv, ClassifierTypeOK
<1>5. Asking' = {}
  BY <1>1 DEF ClassifierInv, AtArrival, Asking
<1>6. TasksCounted'
  BY <1>1, <1>2, <1>3, <1>5, FS_EmptySet DEF TasksCounted
<1>7. Members(line') = Indices
  BY <1>1, <1>3 DEF Members
<1>8. NoAccountLost'
  BY <1>2, <1>7 DEF NoAccountLost
<1>. QED
  BY <1>1, <1>4, <1>6, <1>8
     DEF ClassifierInv, AtArrival, AnsweredAfterJoin, WorkersEnded, Ended

\* What a worker takes from the queue is in its hand, and a sentinel ends it.
LEMMA GetKept == ASSUME ClassifierInv, NEW w \in Workers, Get(w)  PROVE  ClassifierInv'
<1>1. /\ worker[w] = Ready /\ line # <<>> /\ line' = Tail(line)
      /\ UNCHANGED <<classify, results>>
  BY DEF Get
<1>2. /\ worker \in [Workers -> Indices \cup {Ready, Stopped}]
      /\ line \in Seq(0 .. Accounts) /\ unfinished \in Nat
  BY DEF ClassifierInv, ClassifierTypeOK
<1>3. /\ line' \in Seq(0 .. Accounts) /\ Len(line') = Len(line) - 1
      /\ Len(line) \in Nat /\ Len(line) > 0
      /\ Head(line) \in 0 .. Accounts
  <2>1. \A S, s : s \in Seq(S) /\ s # <<>> =>
          /\ Tail(s) \in Seq(S) /\ Len(Tail(s)) = Len(s) - 1
          /\ Len(s) \in Nat /\ Len(s) > 0 /\ Head(s) \in S
    OBVIOUS
  <2>. QED  BY <1>1, <1>2, <2>1, Zenon
<1>4. Members(line') \subseteq Members(line) /\ Members(line) \subseteq Members(line') \cup {Head(line)}
      /\ Head(line) \in Members(line)
  BY <1>1, <1>2, FrontTaken
<1>5. IsFiniteSet(Asking) /\ Cardinality(Asking) \in Nat /\ w \notin Asking
  BY <1>1, AskingFinite, IndicesAreNumbers DEF Asking
<1>6. classify \notin Ended
  BY <1>1, IndicesAreNumbers DEF ClassifierInv, WorkersEnded
<1>7. classify # "arriving"
  BY <1>1 DEF ClassifierInv, AtArrival
<1>8. unfinished = Len(line) + Cardinality(Asking)
  BY DEF ClassifierInv, TasksCounted
<1>9. CASE Head(line) = 0
  <2>1. worker' = [worker EXCEPT ![w] = Stopped] /\ unfinished' = unfinished - 1
    BY <1>9 DEF Get
  <2>2. Asking' = Asking
    BY <1>2, <1>5, <2>1, IndicesAreNumbers DEF Asking
  <2>3. unfinished' = Len(line') + Cardinality(Asking') /\ unfinished' \in Nat
    BY <1>3, <1>5, <1>8, <2>1, <2>2
  <2>4. ClassifierTypeOK'
    BY <1>1, <1>3, <2>1, <2>3 DEF ClassifierInv, ClassifierTypeOK
  <2>5. classify # "joining"
    BY <1>4, <1>9 DEF ClassifierInv, NoAccountLost
  <2>. QED
    BY <1>1, <1>6, <1>7, <2>3, <2>4, <2>5
       DEF ClassifierInv, TasksCounted, AtArrival, NoAccountLost, AnsweredAfterJoin,
           WorkersEnded
<1>10. CASE Head(line) # 0
  <2>1. worker' = [worker EXCEPT ![w] = Head(line)] /\ unfinished' = unfinished
    BY <1>10 DEF Get
  <2>2. Head(line) \in Indices
    BY <1>3, <1>10, IndicesAreNumbers DEF Indices
  <2>3. Asking' = Asking \cup {w}
    BY <1>2, <2>1, <2>2 DEF Asking
  <2>4. Cardinality(Asking') = Cardinality(Asking) + 1
    BY <1>5, <2>3, FS_AddElement
  <2>5. unfinished' = Len(line') + Cardinality(Asking')
    BY <1>3, <1>5, <1>8, <2>1, <2>4
  <2>6. ClassifierTypeOK'
    BY <1>1, <1>3, <2>1, <2>2 DEF ClassifierInv, ClassifierTypeOK
  <2>7. NoAccountLost'
    <3>1. SUFFICES ASSUME classify = "joining", NEW i \in Indices
                   PROVE  \/ results[i] # "none"
                          \/ i \in Members(line')
                          \/ \E v \in Workers : worker'[v] = i
      BY <1>1, <1>4 DEF ClassifierInv, NoAccountLost
    <3>2. CASE i = Head(line)
      BY <1>2, <2>1, <3>2
    <3>3. CASE \E v \in Workers : worker[v] = i
      BY <1>1, <1>2, <2>1, <3>3, IndicesAreNumbers
    <3>. QED  BY <1>4, <3>1, <3>2, <3>3 DEF ClassifierInv, NoAccountLost
  <2>. QED
    BY <1>1, <1>6, <1>7, <2>5, <2>6, <2>7
       DEF ClassifierInv, TasksCounted, AtArrival, AnsweredAfterJoin, WorkersEnded
<1>. QED  BY <1>9, <1>10

\* A worker with an answer has one task less in hand.
LEMMA ClassifiedKept ==
  ASSUME ClassifierInv, NEW w \in Workers, Classified(w)  PROVE  ClassifierInv'
<1>1. /\ worker[w] \in Indices /\ unfinished' = unfinished - 1
      /\ worker' = [worker EXCEPT ![w] = Ready] /\ UNCHANGED <<classify, line>>
  BY DEF Classified
<1>2. PICK said \in {"class", "other", "capped"} :
        results' = [results EXCEPT ![worker[w]] = said]
  BY DEF Classified
<1>3. /\ worker \in [Workers -> Indices \cup {Ready, Stopped}]
      /\ line \in Seq(0 .. Accounts) /\ unfinished \in Nat /\ Len(line) \in Nat
      /\ results \in [Indices -> {"none", "class", "other", "capped"}]
  BY DEF ClassifierInv, ClassifierTypeOK
<1>4. /\ IsFiniteSet(Asking) /\ Cardinality(Asking) \in Nat /\ w \in Asking
  BY <1>1, AskingFinite DEF Asking
<1>5. Asking' = Asking \ {w}
  BY <1>1, <1>3, IndicesAreNumbers DEF Asking
<1>6. Cardinality(Asking') = Cardinality(Asking) - 1 /\ Cardinality(Asking') \in Nat
  <2>1. IsFiniteSet(Asking \ {w}) /\ Cardinality(Asking \ {w}) = Cardinality(Asking) - 1
    BY <1>4, FS_RemoveElement
  <2>. QED  BY <1>5, <2>1, FS_CardinalityType
<1>7. unfinished' = Len(line) + Cardinality(Asking') /\ unfinished' \in Nat
  BY <1>1, <1>3, <1>4, <1>6 DEF ClassifierInv, TasksCounted
<1>8. ClassifierTypeOK'
  <2>1. results' \in [Indices -> {"none", "class", "other", "capped"}]
    BY <1>1, <1>2, <1>3
  <2>. QED  BY <1>1, <1>3, <1>7, <2>1 DEF ClassifierInv, ClassifierTypeOK
<1>9. \A i \in Indices : results[i] # "none" => results'[i] # "none"
  BY <1>1, <1>2, <1>3
<1>10. results'[worker[w]] # "none"
  BY <1>1, <1>2, <1>3
<1>11. NoAccountLost'
  <2>1. SUFFICES ASSUME classify = "joining", NEW i \in Indices, results'[i] = "none"
                 PROVE  i \in Members(line) \/ \E v \in Workers : worker'[v] = i
    BY <1>1 DEF ClassifierInv, NoAccountLost
  <2>2. i \in Members(line) \/ \E v \in Workers : worker[v] = i
    BY <1>9, <2>1 DEF ClassifierInv, NoAccountLost
  <2>. QED  BY <1>1, <1>3, <1>10, <2>1, <2>2
<1>12. classify \notin Ended /\ classify # "arriving"
  BY <1>1, <1>4, IndicesAreNumbers DEF ClassifierInv, WorkersEnded, AtArrival
<1>. QED
  BY <1>1, <1>7, <1>8, <1>9, <1>11, <1>12
     DEF ClassifierInv, TasksCounted, AtArrival, AnsweredAfterJoin, WorkersEnded

LEMMA SentinelsFollow ==
  ASSUME ClassifierInv
  PROVE  /\ line \o Sentinels \in Seq(0 .. Accounts)
         /\ Len(line \o Sentinels) = Len(line) + Cardinality(Workers)
         /\ Len(line) \in Nat
<1>. DEFINE n == Cardinality(Workers)
<1>1. n \in Nat /\ Accounts \in Nat
  BY AskingFinite, IndicesAreNumbers
<1>2. Sentinels = [i \in 1 .. n |-> 0]
  BY DEF Sentinels
<1>3. line \in Seq(0 .. Accounts)
  BY DEF ClassifierInv, ClassifierTypeOK
<1>. HIDE DEF n
<1>4. Sentinels \in Seq(0 .. Accounts) /\ Len(Sentinels) = n
  BY <1>1, <1>2
<1>5. /\ line \o Sentinels \in Seq(0 .. Accounts)
      /\ Len(line \o Sentinels) = Len(line) + Len(Sentinels)
  BY <1>3, <1>4, ConcatProperties, Zenon
<1>6. Len(line) \in Nat
  BY <1>3
<1>. QED  BY <1>4, <1>5, <1>6 DEF n

\* The queue is joined, or the request is cancelled in the join: an account is
\* left to be answered only in the second case.
LEMMA StopKept ==
  ASSUME ClassifierInv, Joined \/ CancelClassify  PROVE  ClassifierInv'
<1>1. /\ classify = "joining" /\ classify' \in {"gathering", "giving_up"}
      /\ line' = line \o Sentinels
      /\ unfinished' = unfinished + Cardinality(Workers)
      /\ UNCHANGED <<worker, results>>
      /\ classify' = "gathering" => unfinished = 0
  BY DEF Joined, CancelClassify, Stop
<1>2. /\ line' \in Seq(0 .. Accounts) /\ Len(line') = Len(line) + Cardinality(Workers)
      /\ Len(line) \in Nat /\ Cardinality(Workers) \in Nat
      /\ Cardinality(Asking) \in Nat /\ IsFiniteSet(Asking)
  BY <1>1, SentinelsFollow, AskingFinite
<1>3. unfinished = Len(line) + Cardinality(Asking) /\ unfinished \in Nat
  BY DEF ClassifierInv, TasksCounted, ClassifierTypeOK
<1>4. Asking' = Asking
  BY <1>1 DEF Asking
<1>5. unfinished' = Len(line') + Cardinality(Asking') /\ unfinished' \in Nat
  BY <1>1, <1>2, <1>3, <1>4
<1>6. ClassifierTypeOK'
  BY <1>1, <1>2, <1>5 DEF ClassifierInv, ClassifierTypeOK
<1>7. ASSUME unfinished = 0  PROVE  \A i \in Indices : results[i] # "none"
  <2>1. Len(line) = 0 /\ Cardinality(Asking) = 0
    BY <1>2, <1>3, <1>7
  <2>2. Members(line) = {}
    BY <2>1 DEF ClassifierInv, ClassifierTypeOK, Members
  <2>3. Asking = {}
    BY <1>2, <2>1, FS_EmptySet
  <2>. QED  BY <1>1, <2>2, <2>3 DEF ClassifierInv, NoAccountLost, Asking
<1>. QED
  BY <1>1, <1>5, <1>6, <1>7
     DEF ClassifierInv, TasksCounted, AtArrival, NoAccountLost, AnsweredAfterJoin,
         WorkersEnded, Ended

LEMMA CancelAgainKept == ClassifierInv /\ CancelAgain => ClassifierInv'
<1>. SUFFICES ASSUME ClassifierInv, CancelAgain  PROVE  ClassifierInv'
  OBVIOUS
<1>1. /\ classify' = "giving_up" /\ worker' = [w \in Workers |-> Stopped]
      /\ unfinished' = unfinished - Cardinality(Asking)
      /\ UNCHANGED <<line, results>>
  BY DEF CancelAgain, Asking
<1>2. Asking' = {}
  BY <1>1, IndicesAreNumbers DEF Asking
<1>3. Len(line) \in Nat /\ Cardinality(Asking) \in Nat
  BY AskingFinite DEF ClassifierInv, ClassifierTypeOK
<1>4. unfinished' = Len(line') + 0 /\ unfinished' \in Nat
  BY <1>1, <1>3 DEF ClassifierInv, TasksCounted
<1>5. ClassifierTypeOK'
  BY <1>1, <1>4 DEF ClassifierInv, ClassifierTypeOK
<1>. QED
  BY <1>1, <1>2, <1>4, <1>5, FS_EmptySet
     DEF ClassifierInv, TasksCounted, AtArrival, NoAccountLost, AnsweredAfterJoin,
         WorkersEnded, Ended

LEMMA ClassifierInvNext == ClassifierInv /\ [ClassifierNext]_pvars => ClassifierInv'
<1>. SUFFICES ASSUME ClassifierInv, [ClassifierNext]_pvars  PROVE  ClassifierInv'
  OBVIOUS
<1>1. CASE BeginClassify
  BY <1>1, BeginClassifyKept
<1>2. CASE Joined \/ CancelClassify
  BY <1>2, StopKept
<1>3. CASE CancelAgain
  BY <1>3, CancelAgainKept
<1>4. CASE WorkersGathered
  <2>1. /\ classify' = IF classify = "gathering" THEN "answered" ELSE "cancelled"
        /\ UNCHANGED <<line, unfinished, worker, results>>
        /\ \A w \in Workers : worker[w] = Stopped
    BY <1>4 DEF WorkersGathered
  <2>2. ClassifierTypeOK'
    BY <2>1 DEF ClassifierInv, ClassifierTypeOK, Ended
  <2>. QED
    BY <2>1, <2>2
       DEF ClassifierInv, TasksCounted, AtArrival, NoAccountLost, AnsweredAfterJoin,
           WorkersEnded, Asking
<1>5. ASSUME NEW w \in Workers, Get(w)  PROVE  ClassifierInv'
  BY <1>5, GetKept
<1>6. ASSUME NEW w \in Workers, Classified(w)  PROVE  ClassifierInv'
  BY <1>6, ClassifiedKept
<1>7. CASE UNCHANGED pvars
  BY <1>7 DEF pvars, ClassifierInv, ClassifierTypeOK, TasksCounted, AtArrival,
              NoAccountLost, AnsweredAfterJoin, WorkersEnded, Asking
<1>. QED
  BY <1>1, <1>2, <1>3, <1>4, <1>5, <1>6, <1>7 DEF ClassifierNext

LEMMA ClassifierInvAlways == ClassifierSpec => []ClassifierInv
  BY ClassifierInvInit, ClassifierInvNext, PTL DEF ClassifierSpec

\* Every variable of ClassifierPool keeps its type; the count of unfinished
\* tasks never goes below zero, which asyncio would raise.
THEOREM ClassifierTypeCorrect == ClassifierSpec => []ClassifierTypeOK
<1>1. ClassifierInv => ClassifierTypeOK
  BY DEF ClassifierInv
<1>. QED  BY <1>1, ClassifierInvAlways, PTL

\* For any list of accounts and any workers, an answered request has an answer
\* for every account, and no worker outlives a request.
THEOREM AllAnswered == ClassifierSpec => []AnsweredInFull
<1>1. ClassifierInv => AnsweredInFull
  BY DEF ClassifierInv, AnsweredInFull, AnsweredAfterJoin, WorkersEnded
<1>. QED  BY <1>1, ClassifierInvAlways, PTL

-----------------------------------------------------------------------------
(***************************************************************************)
(* ProposalBatch, for any number of cases, slots and ticks.                *)
(***************************************************************************)

LEMMA TimesMonotone ==
  ASSUME NEW k \in Nat, NEW a \in Int, NEW b \in Int, a <= b
  PROVE  k * a <= k * b /\ a * k <= b * k
<1>1. k * (b - a) >= 0 /\ k * (b - a) = k * b - k * a
  OBVIOUS
<1>2. k * a = a * k /\ k * b = b * k /\ k * a \in Int /\ k * b \in Int
  OBVIOUS
<1>. QED  BY <1>1, <1>2

LEMMA DivisionBounds ==
  ASSUME NEW a \in Nat, NEW d \in Nat \ {0}
  PROVE  /\ a \div d \in Nat
         /\ d * (a \div d) <= a
         /\ a < d * (a \div d) + d
  OBVIOUS

\* The waves before case i, when each wave takes its full time.
Wave(i) == (i - 1) \div Slots

Calling == {j \in Numbers : case[j] = "calling"}
Waiting == {j \in Numbers : case[j] = "waiting"}

NewBatch ==
  batch = "new" => \A i \in Numbers : case[i] = "waiting" /\ started[i] = 0

AtFirst == batch = "new" => clock = 0

\* No slot is free while a case waits.
SlotsBusy == batch # "new" /\ Waiting # {} => Cardinality(Calling) = Slots

\* The cases begin in their order.
InOrder == \A i \in Waiting, j \in Calling : j < i

CallsBounded ==
  \A j \in Calling : started[j] <= clock /\ clock - started[j] <= CaseTimeout

\* A case begins when the waves before it have had their time, or earlier.
StartedInWave == \A j \in Calling : started[j] <= Wave(j) * CaseTimeout
WaitsInWave == \A i \in Waiting : clock <= Wave(i) * CaseTimeout

ProposalInv ==
  /\ ProposalTypeOK
  /\ NewBatch /\ AtFirst /\ SlotsBusy /\ InOrder
  /\ CallsBounded /\ StartedInWave /\ WaitsInWave

\* The wave of a case is one of the waves of the batch.
LEMMA WaveBounds ==
  ASSUME NEW i \in Numbers
  PROVE  /\ Wave(i) \in Nat /\ Waves \in Nat /\ Wave(i) + 1 <= Waves
         /\ Slots * Wave(i) <= i - 1
         /\ i - 1 < Slots * Wave(i) + Slots
<1>1. /\ Slots \in Nat \ {0} /\ Cases \in Nat /\ i - 1 \in Nat
      /\ Cases + Slots - 1 \in Nat /\ i <= Cases /\ i \in Nat
  BY ProposalAssumption DEF Numbers
<1>2. Wave(i) \in Nat /\ Slots * Wave(i) <= i - 1 /\ i - 1 < Slots * Wave(i) + Slots
  BY <1>1, DivisionBounds DEF Wave
<1>3. Waves \in Nat /\ Cases + Slots - 1 < Slots * Waves + Slots
  BY <1>1, DivisionBounds DEF Waves
<1>4. Wave(i) + 1 <= Waves
  <2>1. SUFFICES ASSUME Waves <= Wave(i)  PROVE  FALSE
    BY <1>2, <1>3
  <2>2. Slots * Waves <= Slots * Wave(i)
    BY <1>1, <1>2, <1>3, <2>1, TimesMonotone
  <2>3. Slots * Waves \in Int /\ Slots * Wave(i) \in Int
    BY <1>1, <1>2, <1>3
  <2>. QED  BY <1>1, <1>2, <1>3, <2>2, <2>3
<1>. QED  BY <1>2, <1>3, <1>4

LEMMA DeadlineNat == Waves \in Nat /\ Deadline \in Nat
<1>1. /\ Slots \in Nat \ {0} /\ Cases + Slots - 1 \in Nat /\ CaseTimeout \in Nat
  BY ProposalAssumption
<1>2. Waves \in Nat
  BY <1>1, DivisionBounds DEF Waves
<1>. QED  BY <1>1, <1>2 DEF Deadline

LEMMA ProposalInvWaves == ProposalInv => WavesInTime
<1>. SUFFICES ASSUME ProposalInv, NEW i \in Numbers, case[i] \in {"waiting", "calling"}
              PROVE  clock <= Deadline
  BY DEF WavesInTime
<1>1. Wave(i) \in Nat /\ Waves \in Nat /\ Wave(i) + 1 <= Waves
  BY WaveBounds
<1>2. CaseTimeout \in Nat
  BY ProposalAssumption
<1>3. /\ (Wave(i) + 1) * CaseTimeout <= Waves * CaseTimeout
      /\ (Wave(i) + 1) * CaseTimeout = Wave(i) * CaseTimeout + CaseTimeout
  <2>1. (Wave(i) + 1) * CaseTimeout <= Waves * CaseTimeout
    BY <1>1, <1>2, TimesMonotone
  <2>2. \A q \in Nat, k \in Nat : (q + 1) * k = q * k + k
    OBVIOUS
  <2>. QED  BY <1>1, <1>2, <2>1, <2>2
<1>4. Wave(i) * CaseTimeout \in Int /\ Waves * CaseTimeout \in Int
  BY <1>1, <1>2
<1>5. clock \in Int /\ started[i] \in Int
  BY <1>1, <1>4 DEF ProposalInv, ProposalTypeOK, Deadline
<1>6. CASE case[i] = "waiting"
  BY <1>2, <1>3, <1>4, <1>5, <1>6 DEF ProposalInv, WaitsInWave, Waiting, Deadline
<1>7. CASE case[i] = "calling"
  BY <1>2, <1>3, <1>4, <1>5, <1>7
     DEF ProposalInv, CallsBounded, StartedInWave, Calling, Deadline
<1>. QED  BY <1>6, <1>7

LEMMA ProposalInvInit == ProposalInit => ProposalInv
<1>. SUFFICES ASSUME ProposalInit  PROVE  ProposalInv
  OBVIOUS
<1>1. CaseTimeout \in Nat
  BY ProposalAssumption
<1>2. \A i \in Numbers : 0 <= Wave(i) * CaseTimeout
  <2>1. ASSUME NEW i \in Numbers  PROVE  0 <= Wave(i) * CaseTimeout
    <3>1. Wave(i) \in Nat
      BY WaveBounds
    <3>2. 0 * CaseTimeout <= Wave(i) * CaseTimeout /\ 0 * CaseTimeout = 0
      BY <1>1, <3>1, TimesMonotone
    <3>. QED  BY <3>2
  <2>. QED  BY <2>1
<1>3. Deadline \in Nat
  BY <1>1, DeadlineNat
<1>4. ProposalTypeOK
  BY <1>3 DEF ProposalInit, ProposalTypeOK
<1>5. Calling = {}
  BY DEF ProposalInit, Calling
<1>6. WaitsInWave
  BY <1>2 DEF ProposalInit, WaitsInWave, Waiting
<1>. QED
  BY <1>4, <1>5, <1>6 DEF ProposalInit, ProposalInv, NewBatch, AtFirst, SlotsBusy,
     InOrder, CallsBounded, StartedInWave

LEMMA CallingFinite == IsFiniteSet(Calling)
<1>1. IsFiniteSet(Numbers)
  BY ProposalAssumption, FS_Interval DEF Numbers
<1>. QED  BY <1>1, FS_Subset DEF Calling

\* While no call has come to its end and a case waits, its wave has not had its
\* time: all the slots are with cases before it, and they would not fit into
\* what is before it of its own wave.
LEMMA TickKeepsWaves ==
  ASSUME ProposalInv, BatchTick
  PROVE  WaitsInWave'
<1>. SUFFICES ASSUME NEW i \in Waiting  PROVE  clock + 1 <= Wave(i) * CaseTimeout
  BY DEF WaitsInWave, Waiting, BatchTick, Wave
<1>. DEFINE q == Wave(i)
<1>1. i \in Numbers /\ case[i] = "waiting" /\ clock <= q * CaseTimeout
  BY DEF ProposalInv, WaitsInWave, Waiting
<1>2. q \in Nat /\ Slots * q <= i - 1 /\ i - 1 < Slots * q + Slots
  BY <1>1, WaveBounds
<1>3. CaseTimeout \in Nat \ {0} /\ Slots \in Nat \ {0} /\ i \in Nat
  BY <1>1, ProposalAssumption DEF Numbers
<1>4. q * CaseTimeout \in Int /\ clock \in Int /\ Slots * q \in Int
  BY <1>2, <1>3, DeadlineNat DEF ProposalInv, ProposalTypeOK
<1>5. SUFFICES ASSUME clock = q * CaseTimeout  PROVE  FALSE
  BY <1>1, <1>4
<1>. HIDE DEF q
<1>6. ASSUME NEW j \in Calling  PROVE  j \in (Slots * q + 1) .. (i - 1)
  <2>1. j \in Numbers /\ case[j] = "calling" /\ j < i /\ j \in Nat
    BY DEF Calling, Numbers, ProposalInv, InOrder
  <2>2. started[j] \in Int /\ clock - started[j] <= CaseTimeout
        /\ started[j] <= Wave(j) * CaseTimeout
    BY <2>1, DeadlineNat
       DEF ProposalInv, ProposalTypeOK, CallsBounded, StartedInWave
  <2>3. clock - started[j] # CaseTimeout
    BY <2>1 DEF BatchTick, TimeIsUp
  <2>4. Wave(j) \in Nat /\ Slots * Wave(j) <= j - 1
    BY <2>1, WaveBounds
  <2>5. q <= Wave(j)
    <3>1. SUFFICES ASSUME Wave(j) + 1 <= q  PROVE  FALSE
      BY <1>2, <2>4
    <3>2. (Wave(j) + 1) * CaseTimeout <= q * CaseTimeout
      BY <1>2, <1>3, <2>4, <3>1, TimesMonotone
    <3>3. \A a \in Nat, k \in Nat : (a + 1) * k = a * k + k /\ a * k \in Nat
      OBVIOUS
    <3>4. Wave(j) * CaseTimeout + CaseTimeout <= clock /\ Wave(j) * CaseTimeout \in Int
      BY <1>3, <1>5, <2>4, <3>2, <3>3
    <3>. QED  BY <1>3, <1>4, <2>2, <2>3, <3>4
  <2>6. Slots * q <= Slots * Wave(j) /\ Slots * Wave(j) \in Int
    BY <1>2, <1>3, <2>4, <2>5, TimesMonotone
  <2>. QED  BY <1>3, <1>4, <2>1, <2>4, <2>6
<1>7. Calling \subseteq (Slots * q + 1) .. (i - 1)
  BY <1>6
<1>8. /\ IsFiniteSet((Slots * q + 1) .. (i - 1))
      /\ Cardinality((Slots * q + 1) .. (i - 1)) =
           IF Slots * q + 1 > i - 1 THEN 0 ELSE i - 1 - (Slots * q + 1) + 1
  <2>1. Slots * q + 1 \in Int /\ i - 1 \in Int
    BY <1>3, <1>4
  <2>. QED  BY <2>1, FS_Interval, Zenon
<1>9. Cardinality(Calling) <= Cardinality((Slots * q + 1) .. (i - 1))
  BY <1>7, <1>8, FS_Subset
<1>10. Cardinality(Calling) = Slots
  BY <1>1 DEF ProposalInv, SlotsBusy, BatchTick, Waiting
<1>. QED  BY <1>2, <1>3, <1>4, <1>8, <1>9, <1>10

\* A case leaves the semaphore: the first of those that wait, if there is one,
\* has its slot.
LEMMA ReturnKept ==
  ASSUME ProposalInv, NEW i \in Numbers, NEW how \in Outcomes, Return(i, how),
         batch' \in {"new", "gathering", "answered", "capped", "cancelled"},
         batch' = "new" => batch = "new"
  PROVE  ProposalInv'
<1>1. case[i] = "calling" /\ UNCHANGED clock
  BY DEF Return
<1>2. batch # "new" /\ batch' # "new"
  BY <1>1 DEF ProposalInv, NewBatch
<1>3. how \notin {"waiting", "calling"}
  BY DEF Outcomes
<1>4. CASE Waiting = {}
  <2>1. case' = [case EXCEPT ![i] = how] /\ UNCHANGED started
    BY <1>4 DEF Return, Waiting
  <2>2. ProposalTypeOK'
    BY <1>1, <2>1 DEF ProposalInv, ProposalTypeOK
  <2>3. Waiting' = {} /\ Calling' = Calling \ {i}
    BY <1>3, <1>4, <2>1 DEF Waiting, Calling, ProposalInv, ProposalTypeOK
  <2>. QED
    BY <1>1, <1>2, <2>1, <2>2, <2>3
       DEF ProposalInv, NewBatch, AtFirst, SlotsBusy, InOrder, CallsBounded,
           StartedInWave, WaitsInWave, Wave
<1>5. CASE Waiting # {}
  <2>. DEFINE f == First(Waiting)
  <2>1. f \in Waiting /\ \A k \in Waiting : f <= k
    <3>1. Waiting \in SUBSET Nat
      BY DEF Waiting, Numbers
    <3>2. \E x \in Waiting : \A y \in Waiting : x <= y
      BY <1>5, <3>1, LeastExists
    <3>. QED  BY <3>2 DEF First
  <2>2. /\ case' = [case EXCEPT ![i] = how, ![f] = "calling"]
        /\ started' = [started EXCEPT ![f] = clock]
    BY <1>5 DEF Return, Waiting
  <2>. HIDE DEF f
  <2>3. f \in Numbers /\ case[f] = "waiting" /\ f # i
    BY <1>1, <2>1 DEF Waiting
  <2>4. ProposalTypeOK'
    BY <1>1, <2>2, <2>3 DEF ProposalInv, ProposalTypeOK
  <2>5. Waiting' = Waiting \ {f}
    BY <1>3, <1>1, <2>2, <2>3 DEF Waiting, ProposalInv, ProposalTypeOK
  <2>6. Calling' = (Calling \ {i}) \cup {f}
    BY <1>3, <1>1, <2>2, <2>3 DEF Calling, ProposalInv, ProposalTypeOK
  <2>7. Cardinality(Calling') = Cardinality(Calling)
    <3>1. i \in Calling /\ f \notin Calling /\ IsFiniteSet(Calling)
      BY <1>1, <2>3, CallingFinite DEF Calling
    <3>2. /\ IsFiniteSet(Calling \ {i})
          /\ Cardinality(Calling \ {i}) = Cardinality(Calling) - 1
      BY <3>1, FS_RemoveElement
    <3>3. Cardinality((Calling \ {i}) \cup {f}) = Cardinality(Calling \ {i}) + 1
      BY <3>1, <3>2, FS_AddElement
    <3>4. Cardinality(Calling) \in Nat
      BY <3>1, FS_CardinalityType
    <3>. QED  BY <2>6, <3>2, <3>3, <3>4
  <2>8. SlotsBusy'
    BY <1>2, <1>5, <2>7 DEF ProposalInv, SlotsBusy
  <2>9. InOrder'
    <3>1. ASSUME NEW k \in Waiting \ {f}  PROVE  f < k
      BY <2>1, <2>3, <3>1 DEF Waiting, Numbers
    <3>. QED  BY <2>5, <2>6, <3>1 DEF ProposalInv, InOrder
  <2>10. started \in [Numbers -> 0 .. Deadline + 1] /\ clock \in Nat
    BY DeadlineNat DEF ProposalInv, ProposalTypeOK
  <2>11. ASSUME NEW j \in Calling'
         PROVE  \/ j \in Calling /\ started'[j] = started[j]
                \/ j = f /\ started'[j] = clock
    BY <2>2, <2>3, <2>6, <2>10, <2>11 DEF Calling
  <2>12. CallsBounded'
    BY <1>1, <2>10, <2>11, ProposalAssumption DEF ProposalInv, CallsBounded
  <2>13. StartedInWave'
    BY <1>1, <2>1, <2>11 DEF ProposalInv, StartedInWave, WaitsInWave, Wave
  <2>14. WaitsInWave'
    BY <1>1, <2>5 DEF ProposalInv, WaitsInWave, Wave
  <2>. QED
    BY <1>2, <2>4, <2>8, <2>9, <2>12, <2>13, <2>14 DEF ProposalInv, NewBatch, AtFirst
<1>. QED  BY <1>4, <1>5

LEMMA ProposalInvNext == ProposalInv /\ [ProposalNext]_bvars => ProposalInv'
<1>. SUFFICES ASSUME ProposalInv, [ProposalNext]_bvars  PROVE  ProposalInv'
  OBVIOUS
<1>1. CASE BeginBatch
  <2>1. /\ case' = [i \in Numbers |-> IF i <= Slots THEN "calling" ELSE "waiting"]
        /\ UNCHANGED <<clock, started>> /\ batch' = "gathering" /\ batch = "new"
    BY <1>1 DEF BeginBatch
  <2>2. /\ clock = 0 /\ Calling = {}
        /\ \A i \in Numbers : case[i] = "waiting" /\ started[i] = 0
    BY <2>1 DEF ProposalInv, NewBatch, AtFirst, Calling
  <2>3. ProposalTypeOK'
    BY <2>1 DEF ProposalInv, ProposalTypeOK
  <2>4. /\ Calling' = {i \in Numbers : i <= Slots}
        /\ Waiting' = {i \in Numbers : ~(i <= Slots)}
    BY <2>1 DEF Calling, Waiting
  <2>5. SlotsBusy'
    <3>1. SUFFICES ASSUME Waiting' # {}  PROVE  Cardinality(Calling') = Slots
      BY DEF SlotsBusy
    <3>2. Slots \in Int /\ Cases \in Int /\ 1 \in Int
      BY ProposalAssumption
    <3>3. Slots < Cases
      BY <2>4, <3>1, <3>2 DEF Numbers
    <3>4. Calling' = 1 .. Slots
      BY <2>4, <3>2, <3>3 DEF Numbers
    <3>5. Cardinality(1 .. Slots) = IF 1 > Slots THEN 0 ELSE Slots - 1 + 1
      BY <3>2, FS_Interval, Zenon
    <3>. QED  BY <3>2, <3>4, <3>5, ProposalAssumption
  <2>6. InOrder'
    BY <2>4, ProposalAssumption DEF InOrder, Numbers
  <2>7. CallsBounded'
    BY <2>1, <2>2, <2>4, ProposalAssumption DEF CallsBounded
  <2>8. StartedInWave' /\ WaitsInWave'
    <3>1. \A i \in Numbers : 0 <= Wave(i) * CaseTimeout
      BY <2>2 DEF ProposalInv, WaitsInWave, Waiting
    <3>. QED  BY <2>1, <2>2, <2>4, <3>1 DEF StartedInWave, WaitsInWave, Wave
  <2>. QED
    BY <2>1, <2>3, <2>5, <2>6, <2>7, <2>8 DEF ProposalInv, NewBatch, AtFirst
<1>2. CASE BatchGathered
  <2>1. batch = "gathering" /\ batch' = "answered" /\ UNCHANGED <<clock, case, started>>
    BY <1>2 DEF BatchGathered
  <2>2. ProposalTypeOK'
    BY <2>1 DEF ProposalInv, ProposalTypeOK
  <2>. QED
    BY <2>1, <2>2
       DEF ProposalInv, NewBatch, AtFirst, SlotsBusy, InOrder, CallsBounded,
           StartedInWave, WaitsInWave, Waiting, Calling, Wave
<1>3. CASE CancelBatch
  <2>1. /\ batch' = "cancelled" /\ UNCHANGED <<clock, started>>
        /\ case' = [i \in Numbers |-> IF case[i] \in Outcomes THEN case[i]
                                      ELSE "cancelled"]
    BY <1>3 DEF CancelBatch
  <2>2. ProposalTypeOK'
    BY <2>1 DEF ProposalInv, ProposalTypeOK, Outcomes
  <2>3. Calling' = {} /\ Waiting' = {}
    BY <2>1 DEF Calling, Waiting, Outcomes
  <2>. QED
    BY <2>1, <2>2, <2>3
       DEF ProposalInv, NewBatch, AtFirst, SlotsBusy, InOrder, CallsBounded,
           StartedInWave, WaitsInWave
<1>4. CASE BatchTick
  <2>1. /\ batch # "new" /\ clock <= Deadline /\ clock' = clock + 1
        /\ UNCHANGED <<case, started, batch>>
        /\ \A i \in Numbers : ~TimeIsUp(i)
    BY <1>4 DEF BatchTick
  <2>2. clock \in Nat /\ started \in [Numbers -> 0 .. Deadline + 1]
    BY DeadlineNat DEF ProposalInv, ProposalTypeOK
  <2>3. clock' \in 0 .. Deadline + 1
    BY <2>1, <2>2, DeadlineNat
  <2>4. ProposalTypeOK'
    BY <2>1, <2>3 DEF ProposalInv, ProposalTypeOK
  <2>5. CallsBounded'
    <3>4. Calling' = Calling
      BY <2>1 DEF Calling
    <3>1. SUFFICES ASSUME NEW j \in Calling
                   PROVE  started[j] <= clock + 1 /\ (clock + 1) - started[j] <= CaseTimeout
      BY <2>1, <3>4, Zenon DEF CallsBounded
    <3>2. /\ started[j] \in Nat
          /\ started[j] <= clock /\ clock - started[j] <= CaseTimeout
      BY <2>2, DeadlineNat DEF ProposalInv, CallsBounded, Calling
    <3>3. clock - started[j] # CaseTimeout
      BY <2>1 DEF TimeIsUp, Calling
    <3>. QED  BY <2>2, <3>2, <3>3, ProposalAssumption
  <2>6. WaitsInWave'
    BY <1>4, TickKeepsWaves
  <2>. QED
    BY <2>1, <2>4, <2>5, <2>6
       DEF ProposalInv, NewBatch, AtFirst, SlotsBusy, InOrder, StartedInWave,
           Waiting, Calling, Wave
<1>5. ASSUME NEW i \in Numbers, CaseReturns(i)  PROVE  ProposalInv'
  <2>1. UNCHANGED batch /\ \E how \in Outcomes : Return(i, how)
    BY <1>5 DEF CaseReturns, Outcomes
  <2>. QED  BY <2>1, ReturnKept DEF ProposalInv, ProposalTypeOK
<1>6. ASSUME NEW i \in Numbers, CaseTimesOut(i)  PROVE  ProposalInv'
  <2>1. UNCHANGED batch /\ \E how \in Outcomes : Return(i, how)
    BY <1>6 DEF CaseTimesOut, Outcomes
  <2>. QED  BY <2>1, ReturnKept DEF ProposalInv, ProposalTypeOK
<1>7. ASSUME NEW i \in Numbers, CaseCapped(i)  PROVE  ProposalInv'
  <2>1. /\ batch' \in {"capped", batch} /\ "capped" \in Outcomes
        /\ Return(i, "capped")
    BY <1>7 DEF CaseCapped, Outcomes
  <2>. QED  BY <2>1, ReturnKept DEF ProposalInv, ProposalTypeOK
<1>8. CASE UNCHANGED bvars
  BY <1>8 DEF bvars, ProposalInv, ProposalTypeOK, NewBatch, AtFirst, SlotsBusy,
              InOrder, CallsBounded, StartedInWave, WaitsInWave, Waiting, Calling,
              Wave
<1>. QED
  BY <1>1, <1>2, <1>3, <1>4, <1>5, <1>6, <1>7, <1>8 DEF ProposalNext

LEMMA ProposalInvAlways == ProposalSpec => []ProposalInv
  BY ProposalInvInit, ProposalInvNext, PTL DEF ProposalSpec

\* Every variable of ProposalBatch keeps its type.
THEOREM ProposalTypeCorrect == ProposalSpec => []ProposalTypeOK
<1>1. ProposalInv => ProposalTypeOK
  BY DEF ProposalInv
<1>. QED  BY <1>1, ProposalInvAlways, PTL

\* For any number of cases, slots and ticks, no call of a batch begins or runs
\* after the waves the batch has time for.
THEOREM WavesEndInTime == ProposalSpec => []WavesInTime
  BY ProposalInvWaves, ProposalInvAlways, PTL

-----------------------------------------------------------------------------
(***************************************************************************)
(* OperatorReason, for packets of any size.                                *)
(***************************************************************************)

\* The request is a packet within the bound, and its fact cites some of it.
FactInPacket == Len(packet) <= MaxEvidence /\ fact \in ToSet(packet)

OperatorInv == OperatorTypeOK /\ FactInPacket /\ AnswersGrounded

\* The label an evidence of the packet gets is one it stands under.
LEMMA LabelOfEvidence ==
  ASSUME OperatorTypeOK, FactInPacket
  PROVE  LabelOf(fact) \in 1 .. Len(packet) /\ packet[LabelOf(fact)] = fact
<1>. DEFINE I == {i \in 1 .. Len(packet) : packet[i] = fact}
<1>1. Len(packet) \in Nat /\ DOMAIN packet = 1 .. Len(packet)
  BY DEF OperatorTypeOK
<1>2. I \in SUBSET (0 .. Len(packet)) /\ I # {}
  BY <1>1 DEF FactInPacket, ToSet
<1>3. \E x \in I : \A y \in I : x >= y
  BY <1>1, <1>2, GreatestExists
<1>4. LabelOf(fact) = Max(I)
  BY <1>2 DEF LabelOf, SelectLastInSeq
<1>5. Max(I) \in I
  BY <1>3 DEF Max
<1>. QED  BY <1>4, <1>5

LEMMA OperatorInvInit == OperatorInit => OperatorInv
<1>. SUFFICES ASSUME OperatorInit  PROVE  OperatorInv
  OBVIOUS
<1>1. PICK n \in 1 .. MaxEvidence : packet \in [1 .. n -> Evidence]
  BY DEF OperatorInit
<1>2. n \in Nat /\ packet \in Seq(Evidence) /\ Len(packet) = n
  BY <1>1, PacketAssumption
<1>3. OperatorTypeOK
  BY <1>2 DEF OperatorInit, OperatorTypeOK
<1>4. FactInPacket
  BY <1>1, <1>2, PacketAssumption DEF OperatorInit, FactInPacket
<1>5. AnswersGrounded
  BY DEF OperatorInit, AnswersGrounded
<1>. QED  BY <1>3, <1>4, <1>5 DEF OperatorInv

\* What the checks let through, mapped back, keeps within the packet.
LEMMA ReturnedKept ==
  ASSUME OperatorInv, NEW n \in 1 .. 2, NEW answered \in [1 .. n -> Blocks],
         NEW offer \in Offers \cup {NoOffer}, Returned(answered, offer)
  PROVE  OperatorInv'
<1>1. UNCHANGED <<packet, fact, secret, offered, cited>>
  BY DEF Returned, request
<1>2. /\ packet \in Seq(Evidence) /\ DOMAIN packet = 1 .. Len(packet)
      /\ DOMAIN answered = 1 .. n
      /\ \A i \in 1 .. n : answered[i].needs \in BOOLEAN
  BY DEF OperatorInv, OperatorTypeOK, Blocks
<1>3. FactInPacket'
  BY <1>1 DEF OperatorInv, FactInPacket
<1>4. CASE Grounded(answered, offer)
  <2>1. /\ reasoning' = "answered" /\ chosen' = offer
        /\ blocks' = [i \in 1 .. n |->
             [needs |-> answered[i].needs,
              ids |-> {IdOf(l) : l \in answered[i].labels}]]
    BY <1>2, <1>4 DEF Returned
  <2>2. ASSUME NEW i \in 1 .. n
        PROVE  /\ blocks'[i] \in [needs : BOOLEAN, ids : SUBSET Evidence]
               /\ blocks'[i].ids \subseteq ToSet(packet)
               /\ blocks'[i].needs => blocks'[i].ids # {}
    <3>1. /\ answered[i].labels \subseteq DOMAIN packet
          /\ answered[i].needs => answered[i].labels # {}
      BY <1>2, <1>4 DEF Grounded
    <3>2. \A l \in answered[i].labels : IdOf(l) \in Evidence /\ IdOf(l) \in ToSet(packet)
      BY <1>2, <3>1 DEF IdOf, ToSet
    <3>. QED  BY <1>2, <2>1, <3>1, <3>2
  <2>3. blocks' \in Seq([needs : BOOLEAN, ids : SUBSET Evidence]) /\ DOMAIN blocks' = 1 .. n
    BY <2>1, <2>2
  <2>4. OperatorTypeOK'
    BY <1>1, <2>1, <2>3 DEF OperatorInv, OperatorTypeOK
  <2>5. \A b \in ToSet(blocks') : b.ids \subseteq ToSet(packet') /\ (b.needs => b.ids # {})
    BY <1>1, <2>2, <2>3 DEF ToSet
  <2>6. chosen' # NoOffer => chosen' \in offered'
    BY <1>1, <1>4, <2>1 DEF Grounded
  <2>7. cited' # 0 => packet'[cited'] = fact'
    BY <1>1 DEF OperatorInv, AnswersGrounded, IdOf
  <2>. QED
    BY <1>3, <2>4, <2>5, <2>6, <2>7 DEF OperatorInv, AnswersGrounded, IdOf
<1>5. CASE ~Grounded(answered, offer)
  <2>1. reasoning' = "invalid" /\ UNCHANGED <<blocks, chosen>>
    BY <1>5 DEF Returned
  <2>. QED
    BY <1>1, <1>3, <2>1 DEF OperatorInv, OperatorTypeOK, AnswersGrounded, IdOf
<1>. QED  BY <1>4, <1>5

LEMMA OperatorInvNext == OperatorInv /\ [OperatorNext]_ovars => OperatorInv'
<1>. SUFFICES ASSUME OperatorInv, [OperatorNext]_ovars  PROVE  OperatorInv'
  OBVIOUS
<1>. USE DEF OperatorInv, FactInPacket, AnswersGrounded, IdOf
<1>1. CASE Ask
  <2>1. LabelOf(fact) \in 1 .. Len(packet) /\ packet[LabelOf(fact)] = fact
    BY LabelOfEvidence
  <2>2. Len(packet) \in Nat
    BY DEF OperatorTypeOK
  <2>3. /\ UNCHANGED <<packet, fact, secret, offered, blocks, chosen>>
        /\ cited' = LabelOf(fact)
        /\ reasoning' \in {"broken", "asking"}
    BY <1>1 DEF Ask, request
  <2>4. cited' \in Labels
    BY <2>1, <2>2, <2>3, PacketAssumption DEF Labels
  <2>5. OperatorTypeOK'
    BY <2>3, <2>4 DEF OperatorTypeOK
  <2>. QED  BY <2>1, <2>3, <2>5
<1>2. CASE LlmFails
  BY <1>2 DEF LlmFails, request, OperatorTypeOK
<1>3. ASSUME NEW n \in 1 .. 2, NEW answered \in [1 .. n -> Blocks],
             NEW offer \in Offers \cup {NoOffer}, Returned(answered, offer)
      PROVE  OperatorInv'
  BY <1>3, ReturnedKept
<1>4. CASE Malformed
  BY <1>4 DEF Malformed, request, OperatorTypeOK
<1>5. CASE UNCHANGED ovars
  BY <1>5 DEF ovars, OperatorTypeOK
<1>. QED  BY <1>1, <1>2, <1>3, <1>4, <1>5 DEF OperatorNext

LEMMA OperatorInvAlways == OperatorSpec => []OperatorInv
  BY OperatorInvInit, OperatorInvNext, PTL DEF OperatorSpec

\* Every variable of OperatorReason keeps its type.
THEOREM OperatorTypeCorrect == OperatorSpec => []OperatorTypeOK
<1>1. OperatorInv => OperatorTypeOK
  BY DEF OperatorInv
<1>. QED  BY <1>1, OperatorInvAlways, PTL

\* However often the packet lists its evidence and whatever the model returns,
\* a fact is shown under a label of the evidence it cites, and an answer rests
\* on evidence of the packet and offers only what was offered.
THEOREM AnswersStayGrounded == OperatorSpec => []AnswersGrounded
<1>1. OperatorInv => AnswersGrounded
  BY DEF OperatorInv
<1>. QED  BY <1>1, OperatorInvAlways, PTL

-----------------------------------------------------------------------------
(***************************************************************************)
(* ChapterPlan, for any windows, providers and outputs.                    *)
(***************************************************************************)

Cuts == [start : Windows, end : Windows \cup {NoEnd}]
Spans == [start : Windows, end : Windows]

\* An output that is refused is so for a plan with no chapters or with gaps.
Accepts(items) == Cleaned(items) # <<>> /\ Complete(Placed(Cleaned(items)))

PlanInv ==
  /\ PlanTypeOK
  /\ output \in Outputs
  /\ planning = "answered" => Accepts(output) /\ plan = Placed(Cleaned(output))
  /\ planning = "failed" /\ last = "output" => ~Accepts(output)

\* The windows have a first and a last one, and each other one has a neighbour.
LEMMA WindowsLine ==
  /\ FirstWindow \in Windows /\ \A w \in Windows : FirstWindow <= w
  /\ LastWindow \in Windows /\ \A w \in Windows : w <= LastWindow
  /\ \A v, w \in Windows : v < w =>
       /\ Before(w) \in Windows /\ Before(w) < w /\ v <= Before(w)
       /\ \A u \in Windows : u < w => u <= Before(w)
<1>1. Windows \in SUBSET Nat /\ Windows \in SUBSET Int /\ IsFiniteSet(Windows) /\ Windows # {}
  BY PlanAssumption
<1>2. \E w \in Windows : \A v \in Windows : w <= v
  BY <1>1, LeastExists
<1>3. \E w \in Windows : \A v \in Windows : v <= w
  BY <1>1, LargestExists
<1>4. ASSUME NEW v \in Windows, NEW w \in Windows, v < w
      PROVE  \E x \in Windows : x < w /\ \A u \in Windows : u < w => u <= x
  <2>. DEFINE P == {u \in Windows : u < w}
  <2>1. P \in SUBSET Int /\ IsFiniteSet(P) /\ P # {}
    BY <1>1, <1>4, FS_Subset
  <2>. QED  BY <2>1, LargestExists
<1>5. FirstWindow \in Windows /\ \A w \in Windows : FirstWindow <= w
  BY <1>2 DEF FirstWindow
<1>6. LastWindow \in Windows /\ \A w \in Windows : w <= LastWindow
  BY <1>3 DEF LastWindow
<1>7. ASSUME NEW v \in Windows, NEW w \in Windows, v < w
      PROVE  /\ Before(w) \in Windows /\ Before(w) < w /\ v <= Before(w)
             /\ \A u \in Windows : u < w => u <= Before(w)
  BY <1>4, <1>7 DEF Before
<1>. QED  BY <1>5, <1>6, <1>7

\* What a chapter keeps of an item.
LEMMA CleanCut ==
  ASSUME NEW items \in Outputs, NEW i \in Kept(items)
  PROVE  /\ items[i] \in Cuts /\ Clean(items[i]) \in Cuts
         /\ Clean(items[i]).start = items[i].start
         /\ Clean(items[i]).end # NoEnd =>
              Clean(items[i]).end = items[i].end /\ items[i].end >= items[i].start
<1>1. items[i] \in Items /\ items[i].start # Junk
  BY DEF Kept, Outputs
<1>2. items[i] \in Cuts
  BY <1>1 DEF Items, Cuts
<1>. QED  BY <1>2 DEF Clean, Cuts

\* The chapters of an output in their order.
LEMMA CleanedLine ==
  ASSUME NEW items \in Outputs
  PROVE  \E N \in Nat :
           /\ Cleaned(items) \in [1 .. N -> Cuts]
           /\ \A m, n \in 1 .. N :
                m < n <=> Cleaned(items)[m].start < Cleaned(items)[n].start
           /\ \A n \in 1 .. N : \E i \in Kept(items) : Cleaned(items)[n] = Clean(items[i])
           /\ \A i \in Kept(items) : \E n \in 1 .. N : Cleaned(items)[n] = Clean(items[i])
<1>. DEFINE K == Kept(items)
            S == {Clean(items[i]) : i \in K}
            before == [c \in S |-> {b \in S : b.start < c.start}]
            f == [i \in K |-> Clean(items[i])]
<1>1. IsFiniteSet(K) /\ K \in SUBSET Nat
  <2>1. PICK n \in Nat : items \in [1 .. n -> Items]
    BY PlanAssumption DEF Outputs
  <2>2. K \in SUBSET (1 .. n)
    BY <2>1 DEF Kept
  <2>3. IsFiniteSet(1 .. n)
    BY FS_Interval
  <2>. QED  BY <2>2, <2>3, FS_Subset
<1>2. f \in Surjection(K, S)
  BY DEF Surjection
<1>3. IsFiniteSet(S)
  BY <1>1, <1>2, FS_Surjection
<1>4. S \in SUBSET Cuts /\ \A c \in S : c.start \in Int
  <2>1. \A c \in S : c \in Cuts
    BY CleanCut
  <2>2. \A c \in Cuts : c.start \in Windows
    BY DEF Cuts
  <2>3. \A w \in Windows : w \in Int
    BY PlanAssumption
  <2>. HIDE DEF S
  <2>. QED  BY <2>1, <2>2, <2>3
<1>5. \A b, c \in S : b.start = c.start => b = c
  <2>1. ASSUME NEW i \in K, NEW j \in K, items[i].start = items[j].start  PROVE  i = j
    <3>1. i \in Nat /\ j \in Nat
      BY <1>1
    <3>2. ~(j < i) /\ ~(i < j)
      <4>1. /\ \A m \in 1 .. i - 1 : items[m].start # items[i].start
            /\ \A m \in 1 .. j - 1 : items[m].start # items[j].start
        BY DEF Kept
      <4>2. i \in 1 .. i /\ j \in 1 .. j
        <5>1. PICK n \in Nat : items \in [1 .. n -> Items]
          BY PlanAssumption DEF Outputs
        <5>. QED  BY <5>1 DEF Kept
      <4>. QED  BY <2>1, <3>1, <4>1, <4>2
    <3>. QED  BY <3>1, <3>2
  <2>2. \A i, j \in K : Clean(items[i]).start = Clean(items[j]).start => i = j
    BY <2>1, CleanCut
  <2>. QED  BY <2>2
<1>. HIDE DEF S
<1>6. OrderOn(S, before)
  <2>1. before \in [S -> SUBSET S] /\ \A c \in S : before[c] = {b \in S : b.start < c.start}
    OBVIOUS
  <2>. HIDE DEF before
  <2>2. \A x \in S : x \notin before[x]
    BY <1>4, <2>1
  <2>3. \A x, y \in S : y \in before[x] => before[y] \subseteq before[x]
    <3>1. ASSUME NEW x \in S, NEW y \in S, NEW z \in S, y.start < x.start, z.start < y.start
          PROVE  z.start < x.start
      BY <1>4, <3>1
    <3>. QED  BY <2>1, <3>1
  <2>4. \A x, y \in S : x # y => x \in before[y] \/ y \in before[x]
    <3>1. ASSUME NEW x \in S, NEW y \in S, x # y
          PROVE  x.start < y.start \/ y.start < x.start
      BY <1>4, <1>5, <3>1
    <3>. QED  BY <2>1, <3>1
  <2>. QED  BY <1>3, <2>1, <2>2, <2>3, <2>4 DEF OrderOn
<1>7. Cleaned(items) = Ordered(before)
  BY DEF Cleaned, S
<1>12. \A b, c \in S : b \in before[c] <=> b.start < c.start
  OBVIOUS
<1>. HIDE DEF before
<1>8. /\ Cardinality(S) \in Nat
      /\ Cleaned(items) \in [1 .. Cardinality(S) -> S]
      /\ \A c \in S : \E n \in 1 .. Cardinality(S) : Cleaned(items)[n] = c
      /\ \A m, n \in 1 .. Cardinality(S) :
           m < n <=> Cleaned(items)[m] \in before[Cleaned(items)[n]]
  BY <1>6, <1>7, OrderedLine
<1>9. \A m, n \in 1 .. Cardinality(S) :
        m < n <=> Cleaned(items)[m].start < Cleaned(items)[n].start
  BY <1>8, <1>12
<1>10. /\ \A n \in 1 .. Cardinality(S) : \E i \in K : Cleaned(items)[n] = Clean(items[i])
       /\ \A i \in K : \E n \in 1 .. Cardinality(S) : Cleaned(items)[n] = Clean(items[i])
  BY <1>8 DEF S
<1>11. Cleaned(items) \in [1 .. Cardinality(S) -> Cuts]
  BY <1>4, <1>8
<1>. QED  BY <1>8, <1>9, <1>10, <1>11

\* Every start that is meant is that of a kept item.
LEMMA StartsKept ==
  ASSUME NEW items \in Outputs
  PROVE  Starts(items) = {items[i].start : i \in Kept(items)}
<1>1. PICK N \in Nat : items \in [1 .. N -> Items]
  BY PlanAssumption DEF Outputs
<1>2. Starts(items) = {items[i].start : i \in 1 .. N} \ {Junk}
  BY <1>1 DEF Starts, ToSet
<1>3. ASSUME NEW s \in Starts(items)  PROVE  \E i \in Kept(items) : items[i].start = s
  <2>. DEFINE P == {i \in 1 .. N : items[i].start = s}
  <2>1. P \in SUBSET Nat /\ P # {} /\ s # Junk
    BY <1>2, <1>3
  <2>2. PICK i \in P : \A j \in P : i <= j
    BY <2>1, LeastExists
  <2>3. i \in Kept(items)
    BY <1>1, <2>1, <2>2 DEF Kept
  <2>. QED  BY <2>2, <2>3
<1>4. \A i \in Kept(items) : items[i].start \in Starts(items)
  BY <1>1, <1>2 DEF Kept
<1>. QED  BY <1>3, <1>4

\* Chapters that begin at the first window, each ending before the next and the
\* last one at the last window, share no window and leave none out.
LEMMA SpansCover ==
  ASSUME NEW N \in Nat \ {0}, NEW p \in [1 .. N -> Spans],
         p[1].start = FirstWindow, p[N].end = LastWindow,
         \A m, n \in 1 .. N : m < n => p[m].start < p[n].start,
         \A n \in 2 .. N : p[n - 1].end = Before(p[n].start),
         NEW w \in Windows
  PROVE  Cardinality({i \in 1 .. N : p[i].start <= w /\ w <= p[i].end}) = 1
<1>1. \A n \in 1 .. N : /\ p[n].start \in Windows /\ p[n].end \in Windows
                        /\ p[n].start \in Int /\ p[n].end \in Int
  <2>1. \A n \in 1 .. N : p[n].start \in Windows /\ p[n].end \in Windows
    BY DEF Spans
  <2>2. \A v \in Windows : v \in Int
    BY PlanAssumption
  <2>. QED  BY <2>1, <2>2
<1>2. w \in Int /\ FirstWindow <= w /\ w <= LastWindow
  BY WindowsLine, PlanAssumption
<1>3. ASSUME NEW m \in 1 .. N, NEW n \in 1 .. N, m < n
      PROVE  p[m].end < p[n].start
  <2>1. m + 1 \in 2 .. N /\ m + 1 - 1 = m /\ m + 1 \in 1 .. N
    BY <1>3
  <2>2. p[m].end = Before(p[m + 1].start) /\ p[m].start < p[m + 1].start
    BY <2>1
  <2>3. p[m].end < p[m + 1].start
    BY <1>1, <2>1, <2>2, WindowsLine
  <2>4. m + 1 = n \/ m + 1 < n
    BY <1>3
  <2>5. p[m + 1].start <= p[n].start
    <3>1. CASE m + 1 = n
      BY <1>1, <2>1, <3>1
    <3>2. CASE m + 1 < n
      BY <1>1, <2>1, <3>2
    <3>. QED  BY <2>4, <3>1, <3>2
  <2>. QED  BY <1>1, <2>1, <2>3, <2>5
<1>. DEFINE begun == {n \in 1 .. N : p[n].start <= w}
<1>4. PICK i \in begun : \A n \in begun : i >= n
  <2>1. begun \in SUBSET (0 .. N) /\ N \in Nat
    OBVIOUS
  <2>2. 1 \in begun
    BY <1>2
  <2>3. \E i \in begun : \A n \in begun : i >= n
    <3>. HIDE DEF begun
    <3>. QED  BY <2>1, <2>2, GreatestExists
  <2>. QED  BY <2>3
<1>5. i \in 1 .. N /\ p[i].start <= w
  BY <1>4
<1>6. w <= p[i].end
  <2>1. CASE i = N
    BY <1>2, <2>1
  <2>2. CASE i # N
    <3>1. i + 1 \in 2 .. N /\ i + 1 - 1 = i /\ i + 1 \in 1 .. N /\ i < i + 1
      BY <1>5, <2>2
    <3>2. i + 1 \notin begun
      BY <1>4, <3>1
    <3>3. w < p[i + 1].start
      BY <1>1, <1>2, <3>1, <3>2
    <3>4. p[i].end = Before(p[i + 1].start) /\ p[i].start < p[i + 1].start
      BY <1>5, <3>1
    <3>. QED  BY <1>1, <3>1, <3>3, <3>4, WindowsLine
  <2>. QED  BY <2>1, <2>2
<1>7. ASSUME NEW n \in 1 .. N, p[n].start <= w, w <= p[n].end  PROVE  n = i
  <2>1. ~(n < i)
    BY <1>1, <1>2, <1>3, <1>5, <1>7
  <2>2. ~(i < n)
    BY <1>1, <1>2, <1>3, <1>5, <1>6, <1>7
  <2>. QED  BY <1>5, <2>1, <2>2
<1>8. {n \in 1 .. N : p[n].start <= w /\ w <= p[n].end} = {i}
  BY <1>5, <1>6, <1>7
<1>. QED  BY <1>8, FS_Singleton

\* The chapters of an output, placed.
LEMMA PlacedSpans ==
  ASSUME NEW N \in Nat, NEW c \in [1 .. N -> Cuts],
         \A m, n \in 1 .. N : m < n => c[m].start < c[n].start
  PROVE  /\ DOMAIN Placed(c) = 1 .. N /\ Len(c) = N
         /\ \A n \in 1 .. N :
              /\ Placed(c)[n] \in Spans
              /\ Placed(c)[n].start = (IF n = 1 THEN FirstWindow ELSE c[n].start)
              /\ Placed(c)[n].start <= c[n].start
              /\ Placed(c)[n].end = (IF c[n].end # NoEnd THEN c[n].end
                                    ELSE IF n = N THEN LastWindow
                                    ELSE Before(c[n + 1].start))
         /\ \A m, n \in 1 .. N : m < n => Placed(c)[m].start < Placed(c)[n].start
         /\ Placed(c) \in Seq(Spans) /\ Len(Placed(c)) = N
<1>1. Len(c) = N /\ DOMAIN c = 1 .. N
  OBVIOUS
<1>2. Placed(c) = [n \in 1 .. N |->
                     [start |-> IF n = 1 THEN FirstWindow ELSE c[n].start,
                      end |-> IF c[n].end # NoEnd THEN c[n].end
                              ELSE IF n = N THEN LastWindow
                              ELSE Before(c[n + 1].start)]]
  BY <1>1 DEF Placed
<1>3. \A n \in 1 .. N : /\ c[n].start \in Windows /\ c[n].start \in Int
                        /\ c[n].end # NoEnd => c[n].end \in Windows
  <2>1. \A n \in 1 .. N : c[n].start \in Windows /\ (c[n].end # NoEnd => c[n].end \in Windows)
    BY DEF Cuts
  <2>2. \A v \in Windows : v \in Int
    BY PlanAssumption
  <2>. QED  BY <2>1, <2>2
<1>. HIDE DEF Placed
<1>. DEFINE p == Placed(c)
<1>4. DOMAIN p = 1 .. N
  BY <1>2
<1>5. ASSUME NEW n \in 1 .. N
      PROVE  /\ p[n].start = IF n = 1 THEN FirstWindow ELSE c[n].start
             /\ p[n].end \in Windows /\ p[n] = [start |-> p[n].start, end |-> p[n].end]
  <2>1. /\ p[n].start = IF n = 1 THEN FirstWindow ELSE c[n].start
        /\ p[n].end = IF c[n].end # NoEnd THEN c[n].end
                      ELSE IF n = N THEN LastWindow
                      ELSE Before(c[n + 1].start)
        /\ p[n] = [start |-> p[n].start, end |-> p[n].end]
    BY <1>2
  <2>2. ASSUME n # N  PROVE  Before(c[n + 1].start) \in Windows
    <3>1. n + 1 \in 1 .. N /\ n < n + 1
      BY <2>2
    <3>2. c[n].start < c[n + 1].start
      BY <3>1
    <3>. QED  BY <1>3, <3>1, <3>2, WindowsLine
  <2>3. LastWindow \in Windows
    BY WindowsLine
  <2>. QED  BY <1>3, <2>1, <2>2, <2>3
<1>10. p = [n \in 1 .. N |-> p[n]]
  BY <1>2
<1>12. \A n \in 1 .. N : p[n].end = (IF c[n].end # NoEnd THEN c[n].end
                                   ELSE IF n = N THEN LastWindow
                                   ELSE Before(c[n + 1].start))
  BY <1>2
<1>. HIDE DEF p
<1>6. ASSUME NEW n \in 1 .. N
      PROVE  /\ p[n] \in Spans /\ p[n].start \in Windows /\ p[n].start \in Int
             /\ p[n].start <= c[n].start
             /\ n # 1 => p[n].start = c[n].start
  <2>1. FirstWindow \in Windows /\ FirstWindow <= c[n].start
    BY <1>3, WindowsLine
  <2>2. p[n].start \in Windows
    BY <1>3, <1>5, <2>1
  <2>3. p[n] \in Spans
    <3>1. [start |-> p[n].start, end |-> p[n].end] \in Spans
      BY <1>5, <2>2 DEF Spans
    <3>. QED  BY <1>5, <3>1
  <2>4. p[n].start \in Int
    BY <2>2, PlanAssumption
  <2>5. p[n].start = FirstWindow \/ p[n].start = c[n].start
    BY <1>5
  <2>6. p[n].start <= c[n].start
    BY <1>3, <2>1, <2>5
  <2>7. n # 1 => p[n].start = c[n].start
    BY <1>5
  <2>. QED  BY <2>2, <2>3, <2>4, <2>6, <2>7
<1>7. ASSUME NEW m \in 1 .. N, NEW n \in 1 .. N, m < n  PROVE  p[m].start < p[n].start
  <2>1. c[m].start < c[n].start /\ n # 1
    BY <1>7
  <2>2. p[m].start <= c[m].start /\ p[n].start = c[n].start
    BY <1>6, <2>1
  <2>. QED  BY <1>3, <1>6, <2>1, <2>2
<1>8. p \in [1 .. N -> Spans]
  BY <1>6, <1>10
<1>9. p \in Seq(Spans) /\ Len(p) = N
  BY <1>8, <1>4
<1>11. \A n \in 1 .. N : /\ p[n] \in Spans
                          /\ p[n].start = (IF n = 1 THEN FirstWindow ELSE c[n].start)
                          /\ p[n].start <= c[n].start
  BY <1>5, <1>6
<1>. QED  BY <1>1, <1>4, <1>7, <1>9, <1>11, <1>12 DEF p

\* An accepted plan covers every window once and starts a chapter where the
\* output does, but for the first one.
LEMMA AcceptedCovers ==
  ASSUME NEW items \in Outputs, Accepts(items)
  PROVE  LET p == Placed(Cleaned(items))
         IN  /\ p \in Seq(Spans)
             /\ \A w \in Windows :
                  Cardinality({i \in DOMAIN p : p[i].start <= w /\ w <= p[i].end}) = 1
             /\ Starts(p) \ {FirstWindow} =
                  {s \in Starts(items) : \E t \in Starts(items) : t < s}
<1>. DEFINE c == Cleaned(items)
            p == Placed(c)
<1>1. PICK N \in Nat :
        /\ c \in [1 .. N -> Cuts]
        /\ \A m, n \in 1 .. N : m < n <=> c[m].start < c[n].start
        /\ \A n \in 1 .. N : \E i \in Kept(items) : c[n] = Clean(items[i])
        /\ \A i \in Kept(items) : \E n \in 1 .. N : c[n] = Clean(items[i])
  BY CleanedLine
<1>2. c # <<>> /\ Complete(p)
  BY DEF Accepts
<1>. HIDE DEF c
<1>3. N # 0
  BY <1>1, <1>2
<1>4. /\ DOMAIN p = 1 .. N /\ Len(c) = N
      /\ \A n \in 1 .. N :
           /\ p[n] \in Spans
           /\ p[n].start = (IF n = 1 THEN FirstWindow ELSE c[n].start)
           /\ p[n].start <= c[n].start
           /\ p[n].end = (IF c[n].end # NoEnd THEN c[n].end
                          ELSE IF n = N THEN LastWindow
                          ELSE Before(c[n + 1].start))
      /\ \A m, n \in 1 .. N : m < n => p[m].start < p[n].start
      /\ p \in Seq(Spans) /\ Len(p) = N
  BY <1>1, PlacedSpans
<1>. HIDE DEF p
<1>5. /\ p[N].end = LastWindow
      /\ \A n \in 1 .. N : n > 1 => p[n - 1].end = Before(p[n].start)
  BY <1>2, <1>4 DEF Complete
<1>6. ASSUME NEW w \in Windows
      PROVE  Cardinality({i \in DOMAIN p : p[i].start <= w /\ w <= p[i].end}) = 1
  <2>1. N \in Nat \ {0} /\ p \in [1 .. N -> Spans] /\ p[1].start = FirstWindow
    BY <1>3, <1>4
  <2>2. \A n \in 2 .. N : p[n - 1].end = Before(p[n].start)
    BY <1>5
  <2>3. Cardinality({i \in 1 .. N : p[i].start <= w /\ w <= p[i].end}) = 1
    BY <1>4, <1>5, <2>1, <2>2, SpansCover
  <2>. QED  BY <1>4, <2>3
<1>7. \A n \in 1 .. N : /\ c[n].start \in Windows /\ c[n].start \in Int
                        /\ p[n].start \in Windows /\ p[n].start \in Int
  <2>1. \A n \in 1 .. N : c[n].start \in Windows /\ p[n].start \in Windows
    BY <1>1, <1>4 DEF Cuts, Spans
  <2>2. \A v \in Windows : v \in Int
    BY PlanAssumption
  <2>. QED  BY <2>1, <2>2
<1>8. Starts(items) = {c[n].start : n \in 1 .. N}
  <2>1. \A i \in Kept(items) : Clean(items[i]).start = items[i].start
    BY CleanCut
  <2>. QED  BY <1>1, <2>1, StartsKept
<1>9. Starts(p) = {p[n].start : n \in 1 .. N}
  BY <1>4, <1>7, PlanAssumption DEF Starts, ToSet
<1>10. ASSUME NEW n \in 1 .. N
       PROVE  (\E t \in Starts(items) : t < c[n].start) <=> n # 1
  <2>1. ASSUME n # 1  PROVE  c[1].start < c[n].start /\ 1 \in 1 .. N
    BY <1>1, <2>1
  <2>2. ASSUME n = 1, NEW m \in 1 .. N  PROVE  ~(c[m].start < c[n].start)
    <3>1. ~(m < n)
      BY <2>2
    <3>. QED  BY <1>1, <3>1
  <2>. QED  BY <1>8, <2>1, <2>2
<1>11. ASSUME NEW n \in 1 .. N  PROVE  p[n].start # FirstWindow <=> n # 1
  <2>1. ASSUME n # 1  PROVE  1 \in 1 .. N /\ p[1].start < p[n].start
    BY <1>4, <2>1
  <2>. QED  BY <1>4, <1>7, <2>1
<1>12. \A n \in 1 .. N : n # 1 => p[n].start = c[n].start
  BY <1>4
<1>13. Starts(p) \ {FirstWindow} = {p[n].start : n \in {m \in 1 .. N : m # 1}}
  BY <1>9, <1>11
<1>14. {s \in Starts(items) : \E t \in Starts(items) : t < s}
         = {c[n].start : n \in {m \in 1 .. N : m # 1}}
  BY <1>8, <1>10
<1>15. Starts(p) \ {FirstWindow} = {s \in Starts(items) : \E t \in Starts(items) : t < s}
  BY <1>12, <1>13, <1>14
<1>. QED  BY <1>4, <1>6, <1>15 DEF p, c

\* An output that is sound as it stands is accepted.
LEMMA SoundAccepted ==
  ASSUME NEW items \in Outputs, Sound(items)
  PROVE  Accepts(items)
<1>. DEFINE c == Cleaned(items)
            p == Placed(c)
<1>1. PICK N \in Nat :
        /\ c \in [1 .. N -> Cuts]
        /\ \A m, n \in 1 .. N : m < n <=> c[m].start < c[n].start
        /\ \A n \in 1 .. N : \E i \in Kept(items) : c[n] = Clean(items[i])
        /\ \A i \in Kept(items) : \E n \in 1 .. N : c[n] = Clean(items[i])
  BY CleanedLine
<1>. HIDE DEF c
<1>2. /\ DOMAIN p = 1 .. N /\ Len(c) = N
      /\ \A n \in 1 .. N :
           /\ p[n] \in Spans
           /\ p[n].start = (IF n = 1 THEN FirstWindow ELSE c[n].start)
           /\ p[n].start <= c[n].start
           /\ p[n].end = (IF c[n].end # NoEnd THEN c[n].end
                          ELSE IF n = N THEN LastWindow
                          ELSE Before(c[n + 1].start))
      /\ \A m, n \in 1 .. N : m < n => p[m].start < p[n].start
      /\ p \in Seq(Spans) /\ Len(p) = N
  BY <1>1, PlacedSpans
<1>. HIDE DEF p
<1>3. Starts(items) = {c[n].start : n \in 1 .. N}
  <2>1. \A i \in Kept(items) : Clean(items[i]).start = items[i].start
    BY CleanCut
  <2>. QED  BY <1>1, <2>1, StartsKept
<1>4. N # 0
  BY <1>3 DEF Sound
<1>5. \A n \in 1 .. N : /\ c[n].start \in Windows /\ c[n].start \in Int
                        /\ p[n].start \in Windows /\ p[n].start \in Int
  <2>1. \A n \in 1 .. N : c[n].start \in Windows /\ p[n].start \in Windows
    BY <1>1, <1>2 DEF Cuts, Spans
  <2>2. \A v \in Windows : v \in Int
    BY PlanAssumption
  <2>. QED  BY <2>1, <2>2
<1>6. ASSUME NEW n \in 1 .. N
      PROVE  p[n].end = IF n = N THEN LastWindow ELSE Before(c[n + 1].start)
  <2>1. CASE c[n].end = NoEnd
    BY <1>2, <2>1
  <2>2. CASE c[n].end # NoEnd
    <3>1. PICK i \in Kept(items) : c[n] = Clean(items[i])
      BY <1>1
    <3>2. /\ c[n].start = items[i].start
          /\ c[n].end = items[i].end /\ items[i].end >= items[i].start
      BY <2>2, <3>1, CleanCut
    <3>. DEFINE later == {s \in Starts(items) : s > items[i].start}
    <3>3. /\ later = {} => c[n].end = LastWindow
          /\ later # {} => c[n].end = Before(CHOOSE s \in later : \A t \in later : s <= t)
      BY <2>2, <3>2 DEF Sound
    <3>4. \A s : s \in later <=> \E m \in 1 .. N : n < m /\ s = c[m].start
      <4>1. \A m \in 1 .. N : n < m <=> c[m].start > c[n].start
        BY <1>1, <1>5
      <4>. QED  BY <1>3, <3>2, <4>1
    <3>. HIDE DEF later
    <3>5. CASE n = N
      <4>1. later = {}
        BY <3>4, <3>5
      <4>. QED  BY <1>2, <2>2, <3>3, <3>5, <4>1
    <3>6. CASE n # N
      <4>1. n + 1 \in 1 .. N /\ n < n + 1
        BY <3>6
      <4>2. c[n + 1].start \in later
        BY <3>4, <4>1
      <4>3. ASSUME NEW t \in later  PROVE  t \in Int /\ c[n + 1].start <= t
        <5>1. PICK m \in 1 .. N : n < m /\ t = c[m].start
          BY <3>4, <4>3
        <5>2. m = n + 1 \/ n + 1 < m
          BY <5>1
        <5>3. m = n + 1 \/ c[n + 1].start < c[m].start
          BY <1>1, <4>1, <5>2
        <5>. QED  BY <1>5, <4>1, <5>1, <5>3
      <4>4. (CHOOSE s \in later : \A t \in later : s <= t) = c[n + 1].start
        <5>1. \A s \in later : (\A t \in later : s <= t) => s = c[n + 1].start
          BY <4>2, <4>3
        <5>. QED  BY <4>2, <4>3, <5>1
      <4>5. later # {}
        BY <4>2
      <4>. QED  BY <1>2, <2>2, <3>3, <3>6, <4>4, <4>5
    <3>. QED  BY <3>5, <3>6
  <2>. QED  BY <2>1, <2>2
<1>7. \A n \in 1 .. N : n > 1 => p[n - 1].end = Before(p[n].start)
  <2>1. ASSUME NEW n \in 1 .. N, n > 1  PROVE  p[n - 1].end = Before(p[n].start)
    <3>1. n - 1 \in 1 .. N /\ n - 1 # N /\ n - 1 + 1 = n
      BY <2>1
    <3>2. p[n - 1].end = Before(c[n].start)
      BY <1>6, <3>1
    <3>3. p[n].start = c[n].start
      BY <1>2, <2>1
    <3>. QED  BY <3>2, <3>3
  <2>. QED  BY <2>1
<1>8. N \in 1 .. N /\ p[N].end = LastWindow
  <2>1. N \in 1 .. N
    BY <1>4
  <2>. QED  BY <1>6, <2>1
<1>9. ASSUME NEW n \in 1 .. N  PROVE  p[n].end >= p[n].start
  <2>1. CASE n = N
    BY <1>5, <1>8, <2>1, WindowsLine, PlanAssumption
  <2>2. CASE n # N
    <3>1. n + 1 \in 1 .. N /\ n < n + 1 /\ n + 1 > 1 /\ n + 1 - 1 = n
      BY <2>2
    <3>2. p[n].end = Before(p[n + 1].start) /\ p[n].start < p[n + 1].start
      BY <1>2, <1>7, <3>1
    <3>3. p[n].end \in Windows /\ p[n].start <= p[n].end
      BY <1>5, <3>1, <3>2, WindowsLine
    <3>4. \A v \in Windows : v \in Int
      BY PlanAssumption
    <3>5. p[n].end \in Int
      BY <3>3, <3>4
    <3>. QED  BY <1>5, <3>3, <3>5
  <2>. QED  BY <2>1, <2>2
<1>10. Complete(p)
  BY <1>2, <1>7, <1>8, <1>9 DEF Complete
<1>11. c # <<>>
  BY <1>1, <1>4
<1>. QED  BY <1>10, <1>11 DEF Accepts, c, p

LEMMA PlanInvInit == PlanInit => PlanInv
<1>1. <<>> \in Seq(Items) /\ <<>> \in Outputs
  <2>1. <<>> \in [1 .. 0 -> Items] /\ 0 \in 0 .. MaxItems
    BY PlanAssumption
  <2>. QED  BY <2>1 DEF Outputs
<1>. QED  BY <1>1, PlanAssumption DEF PlanInit, PlanInv, PlanTypeOK

LEMMA PlanInvNext == PlanInv /\ [PlanNext]_hvars => PlanInv'
<1>. SUFFICES ASSUME PlanInv, [PlanNext]_hvars  PROVE  PlanInv'
  OBVIOUS
<1>. USE PlanAssumption
<1>1. ASSUME NEW items \in Outputs  PROVE  items \in Seq(Items)
  BY <1>1 DEF Outputs
<1>2. ASSUME NEW items \in Outputs, Answered(items)  PROVE  PlanInv'
  <2>1. items \in Seq(Items)
    BY <1>1
  <2>2. CASE Accepts(items)
    <3>1. /\ planning' = "answered" /\ output' = items
          /\ plan' = Placed(Cleaned(items))
          /\ UNCHANGED <<round, asked, last>>
      BY <1>2, <2>2 DEF Answered, Accepts
    <3>2. plan' \in Seq(Items)
      <4>1. plan' \in Seq(Spans)
        BY <2>2, <3>1, AcceptedCovers
      <4>2. Spans \subseteq Items
        BY DEF Spans, Items
      <4>. QED  BY <4>1, <4>2
    <3>. QED  BY <2>1, <2>2, <3>1, <3>2 DEF PlanInv, PlanTypeOK
  <2>3. CASE ~Accepts(items)
    <3>1. \/ NextProvider("output")
          \/ /\ planning' = "failed" /\ last' = "output" /\ output' = items
             /\ UNCHANGED <<round, asked, plan>>
      BY <1>2, <2>3 DEF Answered, Accepts
    <3>2. planning = "asking"
      BY <1>2 DEF Answered
    <3>3. CASE NextProvider("output")
      BY <3>2, <3>3 DEF NextProvider, PlanInv, PlanTypeOK
    <3>4. CASE /\ planning' = "failed" /\ last' = "output" /\ output' = items
               /\ UNCHANGED <<round, asked, plan>>
      BY <2>1, <2>3, <3>4 DEF PlanInv, PlanTypeOK
    <3>. QED  BY <3>1, <3>3, <3>4
  <2>. QED  BY <2>2, <2>3
<1>3. CASE NoJson
  <2>1. <<>> \in [1 .. 0 -> Items] /\ 0 \in 0 .. MaxItems
    OBVIOUS
  <2>. QED  BY <1>2, <1>3, <2>1 DEF NoJson, Outputs
<1>4. CASE ProviderFails
  BY <1>4 DEF ProviderFails, NextProvider, PlanInv, PlanTypeOK
<1>5. CASE Capped
  BY <1>5 DEF Capped, End, PlanInv, PlanTypeOK
<1>6. CASE PlanTimesOut
  BY <1>6 DEF PlanTimesOut, End, PlanInv, PlanTypeOK
<1>7. CASE UNCHANGED hvars
  BY <1>7 DEF hvars, PlanInv, PlanTypeOK
<1>. QED  BY <1>2, <1>3, <1>4, <1>5, <1>6, <1>7 DEF PlanNext

LEMMA PlanInvAlways == PlanSpec => []PlanInv
BY PlanInvInit, PlanInvNext, PTL DEF PlanSpec

\* The request keeps to its rounds and to its chain, and what it holds is output
\* of a provider.
THEOREM PlanTypeCorrect == PlanSpec => []PlanTypeOK
<1>1. PlanInv => PlanTypeOK
  BY DEF PlanInv
<1>. QED  BY <1>1, PlanInvAlways, PTL

\* However the items of a provider are mixed, repeated or broken, an answered
\* plan covers every window exactly once and cuts where the provider did, and a
\* plan is only given up for output that contradicts itself or says nothing.
THEOREM ChaptersCoverOnce == PlanSpec => []PlanCoversOnce
<1>1. PlanInv => PlanCoversOnce
  <2>. SUFFICES ASSUME PlanInv  PROVE  PlanCoversOnce
    OBVIOUS
  <2>1. output \in Outputs
    BY DEF PlanInv
  <2>2. ASSUME planning = "answered"
        PROVE  /\ \A w \in Windows : Cardinality(Covering(w)) = 1
               /\ Starts(plan) \ {FirstWindow} =
                    {s \in Starts(output) : \E t \in Starts(output) : t < s}
    <3>1. Accepts(output) /\ plan = Placed(Cleaned(output))
      BY <2>2 DEF PlanInv
    <3>. QED  BY <2>1, <3>1, AcceptedCovers DEF Covering
  <2>3. ASSUME planning = "failed", last = "output"  PROVE  ~Sound(output)
    BY <2>1, <2>3, SoundAccepted DEF PlanInv
  <2>. QED  BY <2>2, <2>3 DEF PlanCoversOnce
<1>. QED  BY <1>1, PlanInvAlways, PTL

=============================================================================
