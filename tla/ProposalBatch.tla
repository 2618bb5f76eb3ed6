---------------------------- MODULE ProposalBatch ----------------------------
(***************************************************************************)
(* One batch of chapter proposals (ChapterProposalService.propose_batch,   *)
(* llm/services/chapter_proposal.py): a few cases at a time call the LLM,  *)
(* each for a bounded time, behind an asyncio.Semaphore, which hands a     *)
(* released slot to its first waiter.                                      *)
(*                                                                         *)
(* A capped case fails the gather at once; the other cases go on without   *)
(* a batch.                                                                *)
(***************************************************************************)
EXTENDS Integers, FiniteSets

CONSTANTS
  Cases,       \* how many, at most MAX_PROPOSAL_BATCH_SIZE
  Slots,       \* PROPOSAL_CONCURRENCY
  CaseTimeout  \* PROPOSAL_PER_CASE_TIMEOUT_SECONDS, in ticks

ASSUME ProposalAssumption ==
  /\ Cases \in Nat /\ Slots \in Nat \ {0} /\ CaseTimeout \in Nat \ {0}

VARIABLES
  clock,    \* ticks since the batch began
  case,     \* case[i]: how far case i is
  started,  \* started[i]: when its call began
  batch

bvars == <<clock, case, started, batch>>

Numbers == 1 .. Cases
Outcomes == {"proposed", "invalid", "timed_out", "capped", "cancelled"}

\* "Five waves of three bounded calls."
Waves == (Cases + Slots - 1) \div Slots
Deadline == Waves * CaseTimeout

ProposalTypeOK ==
  /\ clock \in 0 .. Deadline + 1
  /\ case \in [Numbers -> {"waiting", "calling"} \cup Outcomes]
  /\ started \in [Numbers -> 0 .. Deadline + 1]
  /\ batch \in {"new", "gathering", "answered", "capped", "cancelled"}

ProposalInit ==
  /\ clock = 0
  /\ case = [i \in Numbers |-> "waiting"]
  /\ started = [i \in Numbers |-> 0]
  /\ batch = "new"

-----------------------------------------------------------------------------
\* The first Slots cases enter the semaphore, and the others line up.
BeginBatch ==
  /\ batch = "new"
  /\ batch' = "gathering"
  /\ case' = [i \in Numbers |-> IF i <= Slots THEN "calling" ELSE "waiting"]
  /\ UNCHANGED <<clock, started>>

First(waiting) == CHOOSE i \in waiting : \A j \in waiting : i <= j

\* Mutant of Return: the slot of a case that times out is lost.
ReturnLosingSlot(i, how) ==
  LET waiting == {j \in Numbers : case[j] = "waiting"}
  IN /\ case[i] = "calling"
     /\ IF waiting = {} \/ how = "timed_out"
        THEN /\ case' = [case EXCEPT ![i] = how]
             /\ UNCHANGED started
        ELSE /\ case' = [case EXCEPT ![i] = how, ![First(waiting)] = "calling"]
             /\ started' = [started EXCEPT ![First(waiting)] = clock]
     /\ UNCHANGED clock

\* Case i leaves the semaphore, and the first waiter enters.
Return(i, how) ==
  LET waiting == {j \in Numbers : case[j] = "waiting"}
  IN /\ case[i] = "calling"
     /\ IF waiting = {}
        THEN /\ case' = [case EXCEPT ![i] = how]
             /\ UNCHANGED started
        ELSE /\ case' = [case EXCEPT ![i] = how, ![First(waiting)] = "calling"]
             /\ started' = [started EXCEPT ![First(waiting)] = clock]
     /\ UNCHANGED clock

\* A valid proposal, or an answer that is none, or another failure.
CaseReturns(i) ==
  /\ \E how \in {"proposed", "invalid"} : Return(i, how)
  /\ UNCHANGED batch

TimeIsUp(i) == case[i] = "calling" /\ clock - started[i] = CaseTimeout

CaseTimesOut(i) ==
  /\ TimeIsUp(i)
  /\ Return(i, "timed_out")
  /\ UNCHANGED batch

\* BudgetCappedError is raised by the gather, the first time.
CaseCapped(i) ==
  /\ Return(i, "capped")
  /\ batch' = IF batch = "gathering" THEN "capped" ELSE batch

\* The results of a batch that has not failed.
BatchGathered ==
  /\ batch = "gathering"
  /\ \A i \in Numbers : case[i] \in Outcomes
  /\ batch' = "answered"
  /\ UNCHANGED <<clock, case, started>>

\* The gather passes a cancellation on to its cases.
CancelBatch ==
  /\ batch = "gathering"
  /\ batch' = "cancelled"
  /\ case' = [i \in Numbers |-> IF case[i] \in Outcomes THEN case[i]
                                ELSE "cancelled"]
  /\ UNCHANGED <<clock, started>>

\* No call outlives its timeout.
BatchTick ==
  /\ batch # "new" /\ clock <= Deadline
  /\ \A i \in Numbers : ~TimeIsUp(i)
  /\ clock' = clock + 1
  /\ UNCHANGED <<case, started, batch>>

ProposalNext ==
  \/ BeginBatch \/ BatchGathered \/ CancelBatch \/ BatchTick
  \/ \E i \in Numbers : CaseReturns(i) \/ CaseTimesOut(i) \/ CaseCapped(i)

ProposalSpec == ProposalInit /\ [][ProposalNext]_bvars

-----------------------------------------------------------------------------
(***************************************************************************)
(* Properties.                                                             *)
(***************************************************************************)

\* "Five waves of three bounded calls fit below CMS's 75-second outer timeout":
\* no call of a batch begins or runs after its waves, in whatever order the
\* calls return, and even when the batch itself has been given up.
WavesInTime ==
  \A i \in Numbers : case[i] \in {"waiting", "calling"} => clock <= Deadline

=============================================================================
