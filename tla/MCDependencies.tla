---------------------------- MODULE MCDependencies ----------------------------
(***************************************************************************)
(* Model-checking instance of what guards the calls to other services: the *)
(* circuit breaker of the CMS client, with a history of its half-open      *)
(* episode; the cache of spend allowances; the slots that calls to LLM     *)
(* providers take; the guest session of the X lookups; the page            *)
(* extraction; and the YouTube reader.  They share no state: every         *)
(* behaviour follows one of them, and the others stay as they begin.       *)
(***************************************************************************)
EXTENDS ProbeHistory, AllowanceCache, LlmAdmission, GuestSession,
        PageExtraction, ChannelReader

CONSTANTS k1, k2

VARIABLE part

\* Shelves, a channel result and videos of two channels, with and without a
\* handle or a title, and a shelf that names no channel.
Ref(kind, id, podcast, episodes, handle_, title) ==
  [kind |-> kind, id |-> id, podcast |-> podcast, episodes |-> episodes,
   handle |-> handle_, title |-> title]
Shelves == {Ref("lockup", k1, TRUE, 0, "", "one"),
            Ref("lockup", k1, TRUE, 7, "@one", ""),
            Ref("lockup", k2, FALSE, 0, "", ""),
            Ref("lockup", NoChannel, FALSE, 0, "", ""),
            Ref("channel", k1, FALSE, 0, "", "one"),
            Ref("video", k2, FALSE, 0, "@two", "two"),
            Ref("video", k1, FALSE, 0, "", "")}

OneTenant == [c \in Callers |-> CHOOSE t \in Tenants : TRUE]

mcvars == <<part, vars, history, avars, lvars, gvars, evars, rvars>>

MCInit ==
  /\ part \in {"circuit", "allowance", "slots", "guest", "page", "youtube"}
  /\ Init /\ NoHistory
  /\ AllowanceInit /\ LlmInit /\ GuestInit /\ PageInit /\ ReaderInit
  /\ part # "page" => ~whole /\ url = CHOOSE u \in Urls : TRUE
  /\ part # "youtube" => asked = "feed"

MCNext ==
  \/ /\ part = "circuit" /\ Next /\ Remember
     /\ UNCHANGED <<part, avars, lvars, gvars, evars, rvars>>
  \/ /\ part = "allowance" /\ AllowanceNext
     /\ UNCHANGED <<part, vars, history, lvars, gvars, evars, rvars>>
  \/ /\ part = "slots" /\ LlmNext
     /\ UNCHANGED <<part, vars, history, avars, gvars, evars, rvars>>
  \/ /\ part = "guest" /\ GuestNext
     /\ UNCHANGED <<part, vars, history, avars, lvars, evars, rvars>>
  \/ /\ part = "page" /\ PageNext
     /\ UNCHANGED <<part, vars, history, avars, lvars, gvars, rvars>>
  \/ /\ part = "youtube" /\ ReaderNext
     /\ UNCHANGED <<part, vars, history, avars, lvars, gvars, evars>>

MCSpec ==
  /\ MCInit /\ [][MCNext]_mcvars /\ Fairness
  /\ \A r \in Prompts : WF_lvars(part = "slots" /\ Proceed(r))

=============================================================================
