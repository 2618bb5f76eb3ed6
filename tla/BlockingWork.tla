----------------------------- MODULE BlockingWork -----------------------------
(***************************************************************************)
(* Blocking work: a request is admitted to a class of work                 *)
(* (WorkloadAdmission.acquire), has a job done by a thread of a pool       *)
(* (WorkloadExecutors.run), and gives its slot back.  Both are of          *)
(* common/workload_admission.py; the routes and services say which class   *)
(* and which pool: POST /v1/embed/query is a class of its own whose jobs   *)
(* go to the pool of "embedding".                                          *)
(*                                                                         *)
(* A job that runs cannot be stopped.  When its request times out or is    *)
(* cancelled the slot is given back and the thread works on for nobody.    *)
(* How a slot is waited for is in LaneAdmission and LlmAdmission.          *)
(***************************************************************************)
EXTENDS Integers, SequencesExt, FiniteSetsExt

CONSTANTS
  Visitors,  \* request slots (a slot is reused)
  Classes,   \* keys of WORKLOAD_CAPACITY
  Room,      \* Room[c]: the capacity of class c, and the threads of its pool
  ClassOf,   \* ClassOf[v]: the class the requests of slot v are admitted to
  PoolOf     \* PoolOf[c]: the pool that does the work of class c

ASSUME BlockingAssumption ==
  /\ IsFiniteSet(Visitors) /\ IsFiniteSet(Classes)
  /\ Room \in [Classes -> Nat \ {0}]
  /\ ClassOf \in [Visitors -> Classes]
  /\ PoolOf \in [Classes -> Classes]

VARIABLES
  visit,      \* visit[v]: how far request v has come
  jobs,       \* jobs[p]: the work queue of pool p, as the requests that wait
  orphans     \* orphans[p]: threads of pool p that work for nobody

wvars == <<visit, jobs, orphans>>

Admitted == {"admitted", "queued", "running", "served"}

BlockingTypeOK ==
  /\ visit \in [Visitors -> {"outside"} \cup Admitted]
  /\ jobs \in [Classes -> Seq(Visitors)]
  /\ orphans \in [Classes -> Nat]

BlockingInit ==
  /\ visit = [v \in Visitors |-> "outside"]
  /\ jobs = [p \in Classes |-> <<>>]
  /\ orphans = [p \in Classes |-> 0]

-----------------------------------------------------------------------------
Pool(v) == PoolOf[ClassOf[v]]

\* The requests of a class that hold one of its slots.
SlotHolders(c) == {v \in Visitors : ClassOf[v] = c /\ visit[v] \in Admitted}

Live(p) == {v \in Visitors : Pool(v) = p /\ visit[v] = "running"}

Idle(p) == Room[p] - Cardinality(Live(p)) - orphans[p]

Go(v, to) == visit' = [visit EXCEPT ![v] = to]

\* A slot is free.  (Rejected requests change nothing but a counter.)
Admit(v) ==
  /\ visit[v] = "outside"
  /\ Cardinality(SlotHolders(ClassOf[v])) < Room[ClassOf[v]]
  /\ Go(v, "admitted")
  /\ UNCHANGED <<jobs, orphans>>

\* executors.run.
Submit(v) ==
  /\ visit[v] = "admitted"
  /\ Go(v, "queued")
  /\ jobs' = [jobs EXCEPT ![Pool(v)] = Append(@, v)]
  /\ UNCHANGED orphans

\* An idle thread takes the next job.
TakeJob(p) ==
  /\ jobs[p] # <<>> /\ Idle(p) > 0
  /\ Go(Head(jobs[p]), "running")
  /\ jobs' = [jobs EXCEPT ![p] = Tail(@)]
  /\ UNCHANGED orphans

\* The job returns, or raises.
JobEnds(v) ==
  /\ visit[v] = "running"
  /\ Go(v, "served")
  /\ UNCHANGED <<jobs, orphans>>

OrphanEnds(p) ==
  /\ orphans[p] > 0
  /\ orphans' = [orphans EXCEPT ![p] = @ - 1]
  /\ UNCHANGED <<visit, jobs>>

\* Mutant of CutShort: the future of a job that waits is not cancelled.
CutShortKeepingJob(v) ==
  /\ visit[v] \in {"queued", "running"}
  /\ Go(v, "served")
  /\ orphans' = [orphans EXCEPT ![Pool(v)] =
                   IF visit[v] = "running" THEN @ + 1 ELSE @]
  /\ UNCHANGED jobs

\* The request times out or is cancelled while it awaits its job.  A job that
\* waits is cancelled with it.
CutShort(v) ==
  \/ /\ visit[v] = "queued"
     /\ \E i \in DOMAIN jobs[Pool(v)] :
          /\ jobs[Pool(v)][i] = v
          /\ jobs' = [jobs EXCEPT ![Pool(v)] = RemoveAt(@, i)]
     /\ Go(v, "served")
     /\ UNCHANGED orphans
  \/ /\ visit[v] = "running"
     /\ orphans' = [orphans EXCEPT ![Pool(v)] = @ + 1]
     /\ Go(v, "served")
     /\ UNCHANGED jobs

\* The `finally` of acquire.
LeaveClass(v) ==
  /\ visit[v] \in {"admitted", "served"}
  /\ Go(v, "outside")
  /\ UNCHANGED <<jobs, orphans>>

BlockingNext ==
  \/ \E v \in Visitors : \/ Admit(v) \/ Submit(v) \/ JobEnds(v)
                         \/ CutShort(v) \/ LeaveClass(v)
  \/ \E p \in Classes : TakeJob(p) \/ OrphanEnds(p)

BlockingSpec == BlockingInit /\ [][BlockingNext]_wvars

-----------------------------------------------------------------------------
(***************************************************************************)
(* Properties.                                                             *)
(***************************************************************************)

\* The jobs of pool p for which it has no thread.
Delayed(p) == Len(jobs[p]) - Idle(p)

\* Work of other classes in pool p.
Foreign(p) ==
  {v \in Visitors : Pool(v) = p /\ ClassOf[v] # p
                    /\ visit[v] \in {"queued", "running"}}

\* An admitted request waits for a thread only behind threads that work for
\* nobody, or behind the work of a class that shares the pool: slots and
\* threads are as many, and neither is lost or held twice.
WaitsOnlyForCause ==
  \A p \in Classes : Delayed(p) <= orphans[p] + Cardinality(Foreign(p))

=============================================================================
