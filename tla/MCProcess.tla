------------------------------ MODULE MCProcess ------------------------------
(***************************************************************************)
(* Model-checking instance of a process: the migration fence in front of   *)
(* it, with a history of what misled its routes; its start and its end; an *)
(* embedding with the background task that outlives its request; and the   *)
(* meter that reports what the process spends, until it is closed.  Every  *)
(* behaviour follows one of them, and the others stay as they begin.       *)
(***************************************************************************)
EXTENDS FenceHistory, ServiceLifecycle, EmbedRequest, MCSpendMeter

CONSTANT k1

VARIABLE side

\* Routes never look at what the tracked requests do, so overlapping calls are
\* checked without them, and the requests with one call at a time.
Alone == \A c \in Calls \ {k1} : step'[c] = "none"

mcvars == <<side, hvars, svars, evars, vars>>

MCInit ==
  /\ side \in {"overlap", "fence", "lifecycle", "embedding", "meter"}
  /\ HistoryInit /\ LifecycleInit /\ EmbedInit /\ Init
  /\ body = [c \in Calls |-> CHOOSE o \in Owners : TRUE]
  /\ side # "lifecycle" => role = "reranker"
  /\ side # "embedding" => ~writes_back /\ tags = "none"

MCNext ==
  \/ /\ side = "overlap" /\ FenceNext /\ Notice /\ UNCHANGED work
     /\ UNCHANGED <<side, svars, evars, vars>>
  \/ /\ side = "fence" /\ FenceNext /\ Notice /\ Alone
     /\ UNCHANGED <<side, svars, evars, vars>>
  \/ /\ side = "lifecycle" /\ LifecycleNext
     /\ UNCHANGED <<side, hvars, evars, vars>>
  \/ /\ side = "embedding" /\ EmbedNext
     /\ UNCHANGED <<side, hvars, svars, vars>>
  \/ /\ side = "meter" /\ Next
     /\ UNCHANGED <<side, hvars, svars, evars>>

MCSpec ==
  /\ MCInit /\ [][MCNext]_mcvars
  /\ WF_evars(side = "embedding" /\ Embed)
  /\ WF_evars(side = "embedding" /\ TagsCancelled)
  /\ WF_vars(side = "meter" /\ Start)
  /\ WF_vars(side = "meter" /\ Worker)
  /\ WF_vars(side = "meter" /\ PublishStep)
  /\ WF_vars(side = "meter" /\ Closer)

=============================================================================
