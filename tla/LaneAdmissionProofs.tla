------------------------- MODULE LaneAdmissionProofs -------------------------
(***************************************************************************)
(* For any number of requests and any capacity: the two counters of the    *)
(* embedding scheduler are exact, the capacity is kept, and a request of a *)
(* lane that holds nothing never sleeps beside a free slot.                *)
(*                                                                         *)
(* The counters are what makes the argument work: `active` cannot become   *)
(* negative in leave, nor `waiting` in enter's finally, because each is    *)
(* the number of requests in the phases that own such a decrement.         *)
(***************************************************************************)
EXTENDS LaneAdmission, FiniteSetTheorems, TLAPS

IInv ==
  /\ TypeOK
  /\ CountersExact
  /\ CapacityKept
  /\ FloorNeverAsleep

\* By how much a request's step changes the number of members of a class.
Delta(before, after) == (IF after THEN 1 ELSE 0) - (IF before THEN 1 ELSE 0)

-----------------------------------------------------------------------------
\* Adding, removing or keeping one element changes the size by Delta.
LEMMA CountDelta ==
  ASSUME NEW S \in SUBSET Requests, NEW T \in SUBSET Requests,
         NEW r \in Requests,
         \A q \in Requests \ {r} : q \in T <=> q \in S
  PROVE  /\ Cardinality(S) \in Nat
         /\ Cardinality(T) \in Nat
         /\ Cardinality(T) = Cardinality(S) + Delta(r \in S, r \in T)
         /\ r \in S => Cardinality(S) > 0
<1>1. IsFiniteSet(S) /\ IsFiniteSet(T)
  BY FS_Subset, LaneAssumption
<1>2. Cardinality(S) \in Nat /\ Cardinality(T) \in Nat
  BY <1>1, FS_CardinalityType
<1>3. r \in S => Cardinality(S) > 0
  BY <1>1, <1>2, FS_EmptySet
<1>4. CASE r \in S /\ r \notin T
  <2>1. T = S \ {r}
    BY <1>4
  <2> QED
    BY <1>1, <1>2, <1>3, <1>4, <2>1, FS_RemoveElement DEF Delta
<1>5. CASE r \notin S /\ r \in T
  <2>1. T = S \cup {r}
    BY <1>5
  <2> QED
    BY <1>1, <1>2, <1>3, <1>5, <2>1, FS_AddElement DEF Delta
<1>6. CASE r \in S <=> r \in T
  <2>1. T = S
    BY <1>6
  <2> QED
    BY <1>2, <1>3, <1>6, <2>1 DEF Delta
<1> QED
  BY <1>4, <1>5, <1>6

\* A step in which only r changes class changes only the counts of its lane.
LEMMA CountStep ==
  ASSUME TypeOK, TypeOK', NEW r \in Requests, NEW l \in Lanes,
         lane' = lane,
         \A q \in Requests \ {r} :
           /\ phase'[q] \in Holding <=> phase[q] \in Holding
           /\ phase'[q] \in Waiting <=> phase[q] \in Waiting
  PROVE  /\ Cardinality(Holders(l)') = Cardinality(Holders(l)) +
              IF lane[r] = l
              THEN Delta(phase[r] \in Holding, phase'[r] \in Holding) ELSE 0
         /\ Cardinality(Waiters(l)') = Cardinality(Waiters(l)) +
              IF lane[r] = l
              THEN Delta(phase[r] \in Waiting, phase'[r] \in Waiting) ELSE 0
<1>1. /\ Holders(l) \in SUBSET Requests /\ Holders(l)' \in SUBSET Requests
      /\ Waiters(l) \in SUBSET Requests /\ Waiters(l)' \in SUBSET Requests
  BY DEF Holders, Waiters
<1>2. \A q \in Requests \ {r} : /\ q \in Holders(l)' <=> q \in Holders(l)
                                /\ q \in Waiters(l)' <=> q \in Waiters(l)
  BY DEF Holders, Waiters
<1>3. /\ Cardinality(Holders(l)) \in Nat
      /\ Cardinality(Holders(l)') = Cardinality(Holders(l)) +
           Delta(r \in Holders(l), r \in Holders(l)')
  BY <1>1, <1>2, CountDelta
<1>4. /\ Cardinality(Waiters(l)) \in Nat
      /\ Cardinality(Waiters(l)') = Cardinality(Waiters(l)) +
           Delta(r \in Waiters(l), r \in Waiters(l)')
  BY <1>1, <1>2, CountDelta
<1>5. CASE lane[r] = l
  <2>1. /\ r \in Holders(l) <=> phase[r] \in Holding
        /\ r \in Holders(l)' <=> phase'[r] \in Holding
        /\ r \in Waiters(l) <=> phase[r] \in Waiting
        /\ r \in Waiters(l)' <=> phase'[r] \in Waiting
    BY <1>5 DEF Holders, Waiters
  <2> QED
    BY <1>3, <1>4, <1>5, <2>1 DEF Delta
<1>6. CASE lane[r] # l
  <2>1. /\ r \notin Holders(l) /\ r \notin Holders(l)'
        /\ r \notin Waiters(l) /\ r \notin Waiters(l)'
    BY <1>6 DEF Holders, Waiters
  <2> QED
    BY <1>3, <1>4, <1>6, <2>1 DEF Delta
<1> QED
  BY <1>5, <1>6

\* A request that holds or waits is counted, so its decrement is safe.
LEMMA Counted ==
  ASSUME TypeOK, CountersExact, NEW r \in Requests
  PROVE  /\ phase[r] \in Holding => active[lane[r]] > 0
         /\ phase[r] \in Waiting => waiting[lane[r]] > 0
<1>1. lane[r] \in Lanes
  BY DEF TypeOK
<1>2. /\ Holders(lane[r]) \in SUBSET Requests
      /\ Waiters(lane[r]) \in SUBSET Requests
  BY DEF Holders, Waiters
<1>3. /\ phase[r] \in Holding => r \in Holders(lane[r])
      /\ phase[r] \in Waiting => r \in Waiters(lane[r])
  BY DEF Holders, Waiters
<1>4. /\ r \in Holders(lane[r]) => Cardinality(Holders(lane[r])) > 0
      /\ r \in Waiters(lane[r]) => Cardinality(Waiters(lane[r])) > 0
  BY <1>2, CountDelta
<1> QED
  BY <1>1, <1>3, <1>4 DEF CountersExact

\* The strengthened invariant holds initially.
LEMMA InitInv == Init => IInv
<1> SUFFICES ASSUME Init PROVE IInv
  OBVIOUS
<1>1. TypeOK
  BY DEF Init, TypeOK, Lanes, Phases
<1>2. CountersExact
  <2>1. \A l \in Lanes : Holders(l) = {} /\ Waiters(l) = {}
    BY DEF Init, Holders, Waiters, Holding, Waiting
  <2> QED
    BY <2>1, FS_EmptySet DEF Init, CountersExact
<1>3. CapacityKept
  BY LaneAssumption DEF Init, CapacityKept, TotalActive, Lanes
<1>4. FloorNeverAsleep
  BY DEF Init, FloorNeverAsleep
<1> QED
  BY <1>1, <1>2, <1>3, <1>4 DEF IInv

\* Taking one slot in a lane raises the total by one.
LEMMA TotalStep ==
  ASSUME TypeOK, NEW l \in Lanes, NEW d \in Int,
         active'[l] = active[l] + d,
         \A m \in Lanes \ {l} : active'[m] = active[m]
  PROVE  TotalActive' = TotalActive + d /\ TotalActive \in Nat
<1>1. /\ active["news"] \in Nat /\ active["pods"] \in Nat
      /\ active["legacy"] \in Nat
  BY DEF TypeOK, Lanes
<1>2. CASE l = "news"
  BY <1>1, <1>2 DEF TotalActive, TypeOK, Lanes
<1>3. CASE l = "pods"
  BY <1>1, <1>3 DEF TotalActive, TypeOK, Lanes
<1>4. CASE l = "legacy"
  BY <1>1, <1>4 DEF TotalActive, TypeOK, Lanes
<1> QED
  BY <1>2, <1>3, <1>4 DEF Lanes

\* Admission: at once, or after a wake-up.
LEMMA AdmitInv ==
  ASSUME IInv, NEW r \in Requests, EnterAtOnce(r) \/ WakeAndEnter(r)
  PROVE  IInv'
<1> USE DEF IInv
<1> DEFINE w == IF phase[r] = "woken" THEN 1 ELSE 0
<1>1. /\ phase[r] \in {"arriving", "woken"} /\ CanEnter(lane[r])
      /\ lane[r] \in Lanes
      /\ active' = [active EXCEPT ![lane[r]] = @ + 1]
      /\ waiting' = [waiting EXCEPT ![lane[r]] = @ - w]
      /\ phase' = [phase EXCEPT ![r] = "holding"]
      /\ turns # <<>> /\ turns' = Tail(turns)
      /\ UNCHANGED <<lane, sleepers>>
  <2>1. CASE EnterAtOnce(r)
    <3>1. waiting = [waiting EXCEPT ![lane[r]] = @ - 0]
      BY DEF TypeOK
    <3> QED
      BY <2>1, <3>1 DEF EnterAtOnce, MyTurn, TypeOK
  <2>2. CASE WakeAndEnter(r)
    BY <2>2 DEF WakeAndEnter, MyTurn, TypeOK
  <2> QED
    BY <2>1, <2>2
<1>2. waiting[lane[r]] - w \in Nat
  <2>1. phase[r] = "woken" => waiting[lane[r]] > 0
    BY Counted DEF Waiting
  <2> QED
    BY <1>1, <2>1 DEF TypeOK
<1>3. TypeOK'
  BY <1>1, <1>2 DEF TypeOK, Phases
<1>4. CountersExact'
  <2> SUFFICES ASSUME NEW l \in Lanes
               PROVE  /\ active'[l] = Cardinality(Holders(l)')
                      /\ waiting'[l] = Cardinality(Waiters(l)')
    BY DEF CountersExact, Holders, Waiters
  <2>1. /\ Cardinality(Holders(l)') = Cardinality(Holders(l)) +
             IF lane[r] = l
             THEN Delta(phase[r] \in Holding, phase'[r] \in Holding) ELSE 0
        /\ Cardinality(Waiters(l)') = Cardinality(Waiters(l)) +
             IF lane[r] = l
             THEN Delta(phase[r] \in Waiting, phase'[r] \in Waiting) ELSE 0
    BY <1>1, <1>3, CountStep DEF TypeOK
  <2>2. /\ Delta(phase[r] \in Holding, phase'[r] \in Holding) = 1
        /\ Delta(phase[r] \in Waiting, phase'[r] \in Waiting) = -w
    BY <1>1 DEF Delta, Holding, Waiting, TypeOK
  <2> QED
    BY <1>1, <2>1, <2>2 DEF CountersExact, TypeOK
<1>5. TotalActive' = TotalActive + 1 /\ TotalActive \in Nat
  <2>1. /\ TypeOK /\ lane[r] \in Lanes /\ active'[lane[r]] = active[lane[r]] + 1
        /\ \A m \in Lanes \ {lane[r]} : active'[m] = active[m]
    BY <1>1 DEF TypeOK
  <2> HIDE DEF IInv
  <2> QED
    BY <2>1, TotalStep
<1>6. CapacityKept'
  BY <1>1, <1>5, LaneAssumption DEF CapacityKept, CanEnter
<1>7. FloorNeverAsleep'
  <2> SUFFICES ASSUME NEW q \in Requests, phase'[q] = "asleep",
                      lane[q] # "legacy", active'[lane[q]] = 0
               PROVE  FALSE
    BY <1>1 DEF FloorNeverAsleep
  <2>1. phase[q] = "asleep" /\ active[lane[q]] = 0
    BY <1>1 DEF TypeOK
  <2>2. TotalActive >= Capacity
    BY <2>1 DEF FloorNeverAsleep
  <2> QED
    BY <1>1, <1>5, <2>2, LaneAssumption DEF CanEnter
<1> QED
  BY <1>3, <1>4, <1>6, <1>7

\* Falling asleep, for the first time or again.
LEMMA SleepInv ==
  ASSUME IInv, NEW r \in Requests, EnterAndSleep(r) \/ WakeAndSleep(r)
  PROVE  IInv'
<1> USE DEF IInv
<1> DEFINE w == IF phase[r] = "woken" THEN 0 ELSE 1
<1>1. /\ phase[r] \in {"arriving", "woken"} /\ ~CanEnter(lane[r])
      /\ lane[r] \in Lanes
      /\ waiting' = [waiting EXCEPT ![lane[r]] = @ + w]
      /\ phase' = [phase EXCEPT ![r] = "asleep"]
      /\ sleepers' = Append(sleepers, r)
      /\ turns # <<>> /\ turns' = Tail(turns)
      /\ UNCHANGED <<active, lane>>
  <2>1. CASE EnterAndSleep(r)
    BY <2>1 DEF EnterAndSleep, MyTurn, TypeOK
  <2>2. CASE WakeAndSleep(r)
    <3>1. waiting = [waiting EXCEPT ![lane[r]] = @ + 0]
      BY DEF TypeOK
    <3> QED
      BY <2>2, <3>1 DEF WakeAndSleep, MyTurn, TypeOK
  <2> QED
    BY <2>1, <2>2
<1>2. TypeOK'
  BY <1>1 DEF TypeOK, Phases
<1>3. CountersExact'
  <2> SUFFICES ASSUME NEW l \in Lanes
               PROVE  /\ active'[l] = Cardinality(Holders(l)')
                      /\ waiting'[l] = Cardinality(Waiters(l)')
    BY DEF CountersExact, Holders, Waiters
  <2>1. /\ Cardinality(Holders(l)') = Cardinality(Holders(l)) +
             IF lane[r] = l
             THEN Delta(phase[r] \in Holding, phase'[r] \in Holding) ELSE 0
        /\ Cardinality(Waiters(l)') = Cardinality(Waiters(l)) +
             IF lane[r] = l
             THEN Delta(phase[r] \in Waiting, phase'[r] \in Waiting) ELSE 0
    BY <1>1, <1>2, CountStep DEF TypeOK
  <2>2. /\ Delta(phase[r] \in Holding, phase'[r] \in Holding) = 0
        /\ Delta(phase[r] \in Waiting, phase'[r] \in Waiting) = w
    BY <1>1 DEF Delta, Holding, Waiting, TypeOK
  <2> QED
    BY <1>1, <2>1, <2>2 DEF CountersExact, TypeOK
<1>4. CapacityKept'
  BY <1>1 DEF CapacityKept, TotalActive
<1>5. FloorNeverAsleep'
  <2> SUFFICES ASSUME NEW q \in Requests, phase'[q] = "asleep",
                      lane[q] # "legacy", active[lane[q]] = 0
               PROVE  TotalActive >= Capacity
    BY <1>1 DEF FloorNeverAsleep, TotalActive
  <2>1. CASE q = r
    <3>1. TotalActive \in Int
      BY DEF TotalActive, TypeOK, Lanes
    <3> QED
      BY <1>1, <2>1, <3>1, LaneAssumption DEF CanEnter
  <2>2. CASE q # r
    BY <1>1, <2>2 DEF FloorNeverAsleep, TypeOK
  <2> QED
    BY <2>1, <2>2
<1> QED
  BY <1>2, <1>3, <1>4, <1>5

\* Freeing a slot wakes every sleeper, so none is left to be unjust to.
LEMMA LeaveInv ==
  ASSUME IInv, NEW r \in Requests, Leave(r)
  PROVE  IInv'
<1> USE DEF IInv
<1>1. /\ phase[r] = "leaving" /\ lane[r] \in Lanes
      /\ active' = [active EXCEPT ![lane[r]] = @ - 1]
      /\ phase' = [q \in Requests |-> IF q = r THEN "outside"
                                      ELSE IF phase[q] = "asleep" THEN "woken"
                                      ELSE phase[q]]
      /\ turns # <<>> /\ turns' = Tail(turns) \o sleepers
      /\ sleepers' = <<>>
      /\ UNCHANGED <<waiting, lane>>
  BY DEF Leave, MyTurn, TypeOK
<1>2. active[lane[r]] > 0
  BY <1>1, Counted DEF Holding
<1>3. TypeOK'
  <2>1. active' \in [Lanes -> Nat]
    BY <1>1, <1>2 DEF TypeOK
  <2>2. phase' \in [Requests -> Phases]
    BY <1>1 DEF TypeOK, Phases
  <2>3. turns' \in Seq(Requests) /\ sleepers' \in Seq(Requests)
    <3>1. Tail(turns) \in Seq(Requests)
      BY <1>1 DEF TypeOK
    <3> QED
      BY <1>1, <3>1 DEF TypeOK
  <2> QED
    BY <1>1, <2>1, <2>2, <2>3 DEF TypeOK
<1>4. CountersExact'
  <2> SUFFICES ASSUME NEW l \in Lanes
               PROVE  /\ active'[l] = Cardinality(Holders(l)')
                      /\ waiting'[l] = Cardinality(Waiters(l)')
    BY DEF CountersExact, Holders, Waiters
  <2>1. \A q \in Requests \ {r} :
          /\ phase'[q] \in Holding <=> phase[q] \in Holding
          /\ phase'[q] \in Waiting <=> phase[q] \in Waiting
    BY <1>1 DEF Holding, Waiting
  <2>2. /\ Cardinality(Holders(l)') = Cardinality(Holders(l)) +
             IF lane[r] = l
             THEN Delta(phase[r] \in Holding, phase'[r] \in Holding) ELSE 0
        /\ Cardinality(Waiters(l)') = Cardinality(Waiters(l)) +
             IF lane[r] = l
             THEN Delta(phase[r] \in Waiting, phase'[r] \in Waiting) ELSE 0
    BY <1>1, <1>3, <2>1, CountStep
  <2>3. /\ Delta(phase[r] \in Holding, phase'[r] \in Holding) = -1
        /\ Delta(phase[r] \in Waiting, phase'[r] \in Waiting) = 0
    BY <1>1 DEF Delta, Holding, Waiting
  <2> QED
    BY <1>1, <2>2, <2>3 DEF CountersExact, TypeOK
<1>5. TotalActive' = TotalActive - 1 /\ TotalActive \in Nat
  <2>1. /\ TypeOK /\ lane[r] \in Lanes
        /\ active'[lane[r]] = active[lane[r]] + (-1)
        /\ \A m \in Lanes \ {lane[r]} : active'[m] = active[m]
    BY <1>1 DEF TypeOK
  <2> HIDE DEF IInv
  <2>2. TotalActive' = TotalActive + (-1) /\ TotalActive \in Nat
    BY <2>1, TotalStep
  <2> QED
    BY <2>2
<1>6. CapacityKept'
  BY <1>5, LaneAssumption DEF CapacityKept
<1>7. FloorNeverAsleep'
  BY <1>1 DEF FloorNeverAsleep
<1> QED
  BY <1>3, <1>4, <1>6, <1>7

\* Giving up.
LEMMA GiveUpInv ==
  ASSUME IInv, NEW r \in Requests, GiveUp(r)
  PROVE  IInv'
<1> USE DEF IInv
<1>1. /\ phase[r] \in {"expired", "abandoned"} /\ lane[r] \in Lanes
      /\ \/ phase' = [phase EXCEPT ![r] = "rejected"]
         \/ phase' = [phase EXCEPT ![r] = "outside"]
      /\ waiting' = [waiting EXCEPT ![lane[r]] = @ - 1]
      /\ turns # <<>> /\ turns' = Tail(turns)
      /\ UNCHANGED <<active, lane, sleepers>>
  BY DEF GiveUp, MyTurn, TypeOK
<1>2. waiting[lane[r]] > 0
  BY <1>1, Counted DEF Waiting
<1>3. TypeOK'
  <2>1. waiting' \in [Lanes -> Nat]
    BY <1>1, <1>2 DEF TypeOK
  <2>2. phase' \in [Requests -> Phases]
    BY <1>1 DEF TypeOK, Phases
  <2> QED
    BY <1>1, <2>1, <2>2 DEF TypeOK
<1>4. CountersExact'
  <2> SUFFICES ASSUME NEW l \in Lanes
               PROVE  /\ active'[l] = Cardinality(Holders(l)')
                      /\ waiting'[l] = Cardinality(Waiters(l)')
    BY DEF CountersExact, Holders, Waiters
  <2>1. \A q \in Requests \ {r} : phase'[q] = phase[q]
    BY <1>1 DEF TypeOK
  <2>2. /\ Cardinality(Holders(l)') = Cardinality(Holders(l)) +
             IF lane[r] = l
             THEN Delta(phase[r] \in Holding, phase'[r] \in Holding) ELSE 0
        /\ Cardinality(Waiters(l)') = Cardinality(Waiters(l)) +
             IF lane[r] = l
             THEN Delta(phase[r] \in Waiting, phase'[r] \in Waiting) ELSE 0
    BY <1>1, <1>3, <2>1, CountStep
  <2>3. /\ Delta(phase[r] \in Holding, phase'[r] \in Holding) = 0
        /\ Delta(phase[r] \in Waiting, phase'[r] \in Waiting) = -1
    BY <1>1 DEF Delta, Holding, Waiting, TypeOK
  <2> QED
    BY <1>1, <2>2, <2>3 DEF CountersExact, TypeOK
<1>5. CapacityKept'
  BY <1>1 DEF CapacityKept, TotalActive
<1>6. FloorNeverAsleep'
  BY <1>1 DEF FloorNeverAsleep, TotalActive, TypeOK
<1> QED
  BY <1>3, <1>4, <1>5, <1>6

\* Steps that change neither counter: a request moves within its class, and
\* only leaves the sleepers.
LEMMA QuietInv ==
  ASSUME IInv, NEW r \in Requests, UNCHANGED <<active, waiting>>,
         TypeOK',
         \A q \in Requests \ {r} : phase'[q] = phase[q] /\ lane'[q] = lane[q],
         phase'[r] # "asleep",
         phase'[r] \in Holding <=> phase[r] \in Holding,
         phase'[r] \in Waiting <=> phase[r] \in Waiting,
         \/ lane'[r] = lane[r]
         \/ phase[r] \notin Holding /\ phase[r] \notin Waiting
  PROVE  IInv'
<1> USE DEF IInv
<1>1. \A l \in Lanes : Holders(l)' = Holders(l) /\ Waiters(l)' = Waiters(l)
  BY DEF Holders, Waiters
<1>2. CountersExact'
  BY <1>1 DEF CountersExact
<1>3. CapacityKept' /\ TotalActive' = TotalActive
  BY DEF CapacityKept, TotalActive
<1>4. FloorNeverAsleep'
  BY <1>3 DEF FloorNeverAsleep
<1> QED
  BY <1>2, <1>3, <1>4

\* Arrivals, timeouts, cancellations and the end of the work are quiet.
LEMMA RequestInv ==
  ASSUME IInv, NEW r \in Requests,
         \/ \E l \in Asks[r] : Arrive(r, l)
         \/ Expire(r) \/ CancelWaiting(r) \/ CancelArriving(r) \/ Finish(r)
  PROVE  IInv'
<1> USE DEF IInv
<1>1. \A s \in Seq(Requests) :
        /\ Append(s, r) \in Seq(Requests)
        /\ \A i \in DOMAIN s : RemoveAt(s, i) \in Seq(Requests)
  <2> SUFFICES ASSUME NEW s \in Seq(Requests), NEW i \in DOMAIN s
               PROVE  RemoveAt(s, i) \in Seq(Requests)
    OBVIOUS
  <2>1. i \in 1..Len(s) /\ Len(s) \in Nat
    OBVIOUS
  <2>2. SubSeq(s, 1, i-1) \in Seq(Requests)
    BY <2>1
  <2>3. SubSeq(s, i+1, Len(s)) \in Seq(Requests)
    BY <2>1
  <2> QED
    BY <2>2, <2>3 DEF RemoveAt
<1>2. ASSUME NEW l \in Asks[r], Arrive(r, l) PROVE IInv'
  <2>1. l \in Lanes
    BY LaneAssumption
  <2>2. TypeOK'
    BY <1>1, <1>2, <2>1 DEF Arrive, TypeOK, Phases
  <2> QED
    BY <1>2, <2>2, QuietInv DEF Arrive, TypeOK, Holding, Waiting
<1>3. ASSUME NEW ph \in {"expired", "abandoned"}, StopWaiting(r, ph)
      PROVE  IInv'
  <2>1. phase[r] \in {"asleep", "woken"}
    BY <1>3 DEF StopWaiting
  <2>2. turns' \in Seq(Requests) /\ sleepers' \in Seq(Requests)
    BY <1>1, <1>3 DEF StopWaiting, TypeOK
  <2>3. TypeOK'
    BY <1>3, <2>2 DEF StopWaiting, TypeOK, Phases
  <2> QED
    BY <1>3, <2>1, <2>3, QuietInv DEF StopWaiting, TypeOK, Holding, Waiting
<1>4. CASE CancelArriving(r)
  <2>1. TypeOK'
    BY <1>1, <1>4 DEF CancelArriving, TypeOK, Phases
  <2> QED
    BY <1>4, <2>1, QuietInv DEF CancelArriving, TypeOK, Holding, Waiting
<1>5. CASE Finish(r)
  <2>1. TypeOK'
    BY <1>1, <1>5 DEF Finish, TypeOK, Phases
  <2> QED
    BY <1>5, <2>1, QuietInv DEF Finish, TypeOK, Holding, Waiting
<1> QED
  BY <1>2, <1>3, <1>4, <1>5 DEF Expire, CancelWaiting

\* Every step preserves the invariant.
LEMMA NextInv == IInv /\ [Next]_vars => IInv'
<1> SUFFICES ASSUME IInv, [Next]_vars PROVE IInv'
  OBVIOUS
<1>1. ASSUME NEW r \in Requests, Turn(r) PROVE IInv'
  BY <1>1, AdmitInv, SleepInv, GiveUpInv, LeaveInv DEF Turn
<1>2. ASSUME NEW r \in Requests,
             \/ \E l \in Asks[r] : Arrive(r, l)
             \/ Expire(r) \/ CancelWaiting(r) \/ CancelArriving(r) \/ Finish(r)
      PROVE  IInv'
  BY <1>2, RequestInv
<1>3. CASE UNCHANGED vars
  BY <1>3 DEF vars, IInv, TypeOK, CountersExact, CapacityKept, TotalActive,
              FloorNeverAsleep, Holders, Waiters
<1> QED
  BY <1>1, <1>2, <1>3 DEF Next

LEMMA Invariance == Spec => []IInv
<1> QED
  BY InitInv, NextInv, PTL DEF Spec

-----------------------------------------------------------------------------
\* The scheduler's state is well-formed; in particular neither counter ever
\* becomes negative.
THEOREM TypeCorrect == Spec => []TypeOK
<1>1. IInv => TypeOK
  BY DEF IInv
<1> QED
  BY <1>1, Invariance, PTL

\* Both counters are exact, whatever times out, is cancelled or woken.
THEOREM CountersCorrect == Spec => []CountersExact
<1>1. IInv => CountersExact
  BY DEF IInv
<1> QED
  BY <1>1, Invariance, PTL

\* Never more requests in the embedder than the capacity allows.
THEOREM CapacityCorrect == Spec => []CapacityKept
<1>1. IInv => CapacityKept
  BY DEF IInv
<1> QED
  BY <1>1, Invariance, PTL

\* The reserved floor: no request of an empty lane sleeps beside a free slot.
THEOREM FloorCorrect == Spec => []FloorNeverAsleep
<1>1. IInv => FloorNeverAsleep
  BY DEF IInv
<1> QED
  BY <1>1, Invariance, PTL

=============================================================================
