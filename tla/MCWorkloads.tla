----------------------------- MODULE MCWorkloads -----------------------------
(***************************************************************************)
(* Model-checking instance of what limits the work of the service: the     *)
(* lanes of the embedding scheduler, the thread pools, the workers of a    *)
(* classification and the waves of a batch of chapter proposals; and two   *)
(* requests that check what a model returns, chapters and operator         *)
(* reasoning.  Every behaviour follows one part, the others stay as they   *)
(* begin.                                                                  *)
(***************************************************************************)
EXTENDS LaneAdmission, BlockingWork, ClassifierPool, ProposalBatch,
        ChapterPlan, OperatorReason

CONSTANTS r1, r2, r3, r4, v1

VARIABLE limit

\* News traffic against a caller of pods or legacy and one of news or legacy.
Mixed == [r \in Requests |-> IF r = r1 THEN {"pods", "legacy"}
                             ELSE IF r = r4 THEN {"news", "legacy"}
                             ELSE {"news"}]

\* One visitor asks for the embedding of a query, in the embedding pool.
TwoThreads == [c \in Classes |-> IF c = "embedding" THEN 2 ELSE 1]
OneQuery == [v \in Visitors |-> IF v = v1 THEN "embedding_query" ELSE "embedding"]
SharedPool == [c \in Classes |-> "embedding"]

mcvars == <<limit, vars, wvars, pvars, bvars, hvars, ovars>>

\* The packet is only chosen where it matters.
SomePacket ==
  IF limit = "operator" THEN TRUE
  ELSE packet = <<CHOOSE e \in Evidence : TRUE>> /\ secret = "none" /\ offered = {}

MCInit ==
  /\ limit \in {"lanes", "threads", "classify", "proposals", "chapters",
                "operator"}
  /\ Init /\ BlockingInit /\ ClassifierInit /\ ProposalInit /\ PlanInit
  /\ OperatorInit /\ SomePacket

MCNext ==
  \/ /\ limit = "lanes" /\ Next
     /\ UNCHANGED <<limit, wvars, pvars, bvars, hvars, ovars>>
  \/ /\ limit = "threads" /\ BlockingNext
     /\ UNCHANGED <<limit, vars, pvars, bvars, hvars, ovars>>
  \/ /\ limit = "classify" /\ ClassifierNext
     /\ UNCHANGED <<limit, vars, wvars, bvars, hvars, ovars>>
  \/ /\ limit = "proposals" /\ ProposalNext
     /\ UNCHANGED <<limit, vars, wvars, pvars, hvars, ovars>>
  \/ /\ limit = "chapters" /\ PlanNext
     /\ UNCHANGED <<limit, vars, wvars, pvars, bvars, ovars>>
  \/ /\ limit = "operator" /\ OperatorNext
     /\ UNCHANGED <<limit, vars, wvars, pvars, bvars, hvars>>

MCSpec ==
  /\ MCInit /\ [][MCNext]_mcvars
  /\ Fairness
  /\ ClassifierFairness

=============================================================================
