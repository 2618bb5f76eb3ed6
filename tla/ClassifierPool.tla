---------------------------- MODULE ClassifierPool ----------------------------
(***************************************************************************)
(* One request that classifies a list of accounts                          *)
(* (AccountClassificationService.classify, llm/services/classification.py) *)
(* with a few worker tasks on an asyncio.Queue.                            *)
(*                                                                         *)
(* The request waits in queue.join() for the tasks to be done, then, in a  *)
(* `finally`, puts a sentinel for each worker behind what is left of the   *)
(* queue and waits for the workers.  It may be cancelled in either wait;   *)
(* the second wait passes the cancellation on to the workers.              *)
(***************************************************************************)
EXTENDS Integers, SequencesExt, FiniteSets

CONSTANTS
  Accounts,  \* the length of the list
  Workers    \* the worker tasks, at most CONCURRENCY and Accounts

ASSUME ClassifierAssumption ==
  /\ Accounts \in Nat
  /\ IsFiniteSet(Workers) /\ Cardinality(Workers) <= Accounts
  /\ Accounts > 0 => Workers # {}

VARIABLES
  classify,    \* how far the request is
  line,        \* the queue: accounts, and 0 for a sentinel
  unfinished,  \* its _unfinished_tasks
  worker,      \* worker[w]: the account it asks about, or what it does
  results      \* results[i]: what is said of account i

pvars == <<classify, line, unfinished, worker, results>>

Ready == -1       \* about to get, or waiting in get
Stopped == -2
Ended == {"answered", "cancelled"}
Indices == 1 .. Accounts

ClassifierTypeOK ==
  /\ classify \in {"arriving", "joining", "gathering", "giving_up"} \cup Ended
  /\ line \in Seq(0 .. Accounts)
  /\ unfinished \in Nat
  /\ worker \in [Workers -> Indices \cup {Ready, Stopped}]
  /\ results \in [Indices -> {"none", "class", "other", "capped"}]

ClassifierInit ==
  /\ classify = "arriving"
  /\ line = <<>>
  /\ unfinished = 0
  /\ worker = [w \in Workers |-> Ready]
  /\ results = [i \in Indices |-> "none"]

-----------------------------------------------------------------------------
BeginClassify ==
  /\ classify = "arriving"
  /\ classify' = "joining"
  /\ line' = [i \in Indices |-> i]
  /\ unfinished' = Accounts
  /\ UNCHANGED <<worker, results>>

\* queue.get, up to the next await.
Get(w) ==
  /\ worker[w] = Ready /\ line # <<>>
  /\ line' = Tail(line)
  /\ IF Head(line) = 0
     THEN /\ worker' = [worker EXCEPT ![w] = Stopped]
          /\ unfinished' = unfinished - 1
     ELSE /\ worker' = [worker EXCEPT ![w] = Head(line)]
          /\ UNCHANGED unfinished
  /\ UNCHANGED <<classify, results>>

\* Mutant of Classified: the cap is not caught, and ends the worker.
ClassifiedUnlessCapped(w) ==
  /\ worker[w] \in Indices
  /\ unfinished' = unfinished - 1
  /\ \/ /\ worker' = [worker EXCEPT ![w] = Ready]
        /\ results' = [results EXCEPT ![worker[w]] = "class"]
     \/ worker' = [worker EXCEPT ![w] = Stopped] /\ UNCHANGED results
  /\ UNCHANGED <<classify, line>>

\* The LLM answers with a class; another answer or an error is "other", and so
\* is a cap, which is marked.
Classified(w) ==
  /\ worker[w] \in Indices
  /\ unfinished' = unfinished - 1
  /\ worker' = [worker EXCEPT ![w] = Ready]
  /\ \E answer \in {"class", "other", "capped"} :
       results' = [results EXCEPT ![worker[w]] = answer]
  /\ UNCHANGED <<classify, line>>

Sentinels == [i \in 1 .. Cardinality(Workers) |-> 0]

\* The `finally`, up to the gather.
Stop(to) ==
  /\ classify = "joining"
  /\ classify' = to
  /\ line' = line \o Sentinels
  /\ unfinished' = unfinished + Cardinality(Workers)
  /\ UNCHANGED <<worker, results>>

Joined == unfinished = 0 /\ Stop("gathering")

CancelClassify == Stop("giving_up")

\* The cancellation of the gather stops each worker at its await: in get, or
\* in the call, whose task is done then.
CancelAgain ==
  /\ classify \in {"gathering", "giving_up"}
  /\ worker' = [w \in Workers |-> Stopped]
  /\ unfinished' = unfinished - Cardinality({w \in Workers : worker[w] \in Indices})
  /\ classify' = "giving_up"
  /\ UNCHANGED <<line, results>>

\* Mutant of WorkersGathered: the workers are told to stop, and not waited for.
WorkersGatheredAtOnce ==
  /\ classify \in {"gathering", "giving_up"}
  /\ classify' = IF classify = "gathering" THEN "answered" ELSE "cancelled"
  /\ UNCHANGED <<line, unfinished, worker, results>>

WorkersGathered ==
  /\ classify \in {"gathering", "giving_up"}
  /\ \A w \in Workers : worker[w] = Stopped
  /\ classify' = IF classify = "gathering" THEN "answered" ELSE "cancelled"
  /\ UNCHANGED <<line, unfinished, worker, results>>

ClassifierNext ==
  \/ BeginClassify \/ Joined \/ CancelClassify \/ CancelAgain \/ WorkersGathered
  \/ \E w \in Workers : Get(w) \/ Classified(w)

ClassifierSpec == ClassifierInit /\ [][ClassifierNext]_pvars

\* The event loop runs what is ready, and the LLM client bounds its calls.
ClassifierFairness ==
  /\ WF_pvars(Joined) /\ WF_pvars(WorkersGathered)
  /\ \A w \in Workers : WF_pvars(Get(w) \/ Classified(w))

-----------------------------------------------------------------------------
(***************************************************************************)
(* Properties.                                                             *)
(***************************************************************************)

\* "Every input is assigned exactly once before queue.join() returns"; and no
\* worker outlives the request, however it ends.
AnsweredInFull ==
  /\ classify = "answered" => \A i \in Indices : results[i] # "none"
  /\ classify \in Ended => \A w \in Workers : worker[w] = Stopped

\* The request ends, cancelled or not, whichever worker takes which sentinel.
ClassifyEnds == classify = "joining" ~> classify \in Ended

=============================================================================
