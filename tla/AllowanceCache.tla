--------------------------- MODULE AllowanceCache ---------------------------
(***************************************************************************)
(* The AI-spend allowance an LLM request needs before it may call a        *)
(* provider: SpendAllowanceCache (llm/clients/spend_context.py) behind the *)
(* check of LLMClient.complete_with_provenance.                            *)
(*                                                                         *)
(* The CMS owns the cap and may set or lift it at any time.  check() never *)
(* waits for it: an answer is kept for a while, and is replaced by a task  *)
(* of its own per tenant while requests go on without an answer.           *)
(***************************************************************************)
EXTENDS Integers, FiniteSets

CONSTANTS
  Tenants,
  Callers,     \* LLM requests; each asks once
  TenantOf,    \* TenantOf[c]: context.tenant_id
  Ttl,         \* 60 seconds, in ticks
  CallTime,    \* the longest a CMS call takes, in ticks
  LastTick     \* bound on the clock

ASSUME AllowanceAssumption ==
  /\ IsFiniteSet(Callers)
  /\ TenantOf \in [Callers -> Tenants]
  /\ Ttl \in Nat \ {0} /\ CallTime \in Nat /\ LastTick \in Nat

VARIABLES
  now,       \* time.monotonic()
  capped,    \* the tenants the CMS has capped
  entry,     \* _entries: entry[t], with the time the CMS decided it
  task,      \* _tasks: task[t], what the refresh of tenant t is doing
  since,     \* since[t]: when that refresh, and decided[t] when the CMS
  decided,   \*   answered it
  caller,    \* caller[c]: how far request c has come
  verdict,   \* verdict[c]: what its authorisation rests on
  guards,    \* guards[t]: what guard_unavailable has counted
  closed     \* close() has begun

avars == <<now, capped, entry, task, since, decided, caller, verdict, guards,
           closed>>
cms == <<now, capped>>
refresh == <<task, since, decided>>
callers == <<caller, verdict, guards>>

Times == 0 .. LastTick
None == [stored |-> -1, at |-> -1, allowed |-> TRUE, known |-> FALSE]
Entries == [stored : Times, at : Times, allowed : BOOLEAN, known : BOOLEAN]

\* blind: without an answer of the CMS; cms: by a cached answer of the given
\* age; owner: exempt, admitted by the workflow's owner, or by an override.
Verdicts == [basis : {"none", "blind", "owner"}]
            \cup [basis : {"cms"}, age : Times]

AllowanceTypeOK ==
  /\ now \in Times
  /\ capped \subseteq Tenants
  /\ entry \in [Tenants -> Entries \cup {None}]
  /\ task \in [Tenants -> {"idle", "sent", "allowed", "capped"}]
  /\ since \in [Tenants -> Times] /\ decided \in [Tenants -> Times]
  /\ caller \in [Callers -> {"new", "asking", "allowed", "denied"}]
  /\ verdict \in [Callers -> Verdicts]
  /\ guards \in [Tenants -> 0 .. Cardinality(Callers)]
  /\ closed \in BOOLEAN

AllowanceInit ==
  /\ now = 0 /\ capped = {} /\ closed = FALSE
  /\ entry = [t \in Tenants |-> None]
  /\ task = [t \in Tenants |-> "idle"]
  /\ since = [t \in Tenants |-> 0] /\ decided = [t \in Tenants |-> 0]
  /\ caller = [c \in Callers |-> "new"]
  /\ verdict = [c \in Callers |-> [basis |-> "none"]]
  /\ guards = [t \in Tenants |-> 0]

-----------------------------------------------------------------------------
(***************************************************************************)
(* The CMS and _refresh.                                                   *)
(***************************************************************************)

\* A refresh that is under way is answered, or times out, within CallTime.
TimePasses ==
  /\ now < LastTick
  /\ \A t \in Tenants : task[t] # "idle" => now - since[t] < CallTime
  /\ now' = now + 1
  /\ UNCHANGED <<capped, entry, refresh, callers, closed>>

SetCap(t) ==
  /\ capped' = IF t \in capped THEN capped \ {t} ELSE capped \cup {t}
  /\ UNCHANGED <<now, entry, refresh, callers, closed>>

CmsDecides(t) ==
  /\ task[t] = "sent"
  /\ task' = [task EXCEPT ![t] = IF t \in capped THEN "capped" ELSE "allowed"]
  /\ decided' = [decided EXCEPT ![t] = now]
  /\ UNCHANGED <<cms, entry, since, callers, closed>>

Store(t, at, allowed, known) ==
  /\ entry' = [entry EXCEPT ![t] = [stored |-> now, at |-> at,
                                    allowed |-> allowed, known |-> known]]
  /\ task' = [task EXCEPT ![t] = "idle"]
  /\ UNCHANGED <<cms, since, decided, callers, closed>>

Refreshed(t) ==
  /\ task[t] \in {"allowed", "capped"}
  /\ Store(t, decided[t], task[t] = "allowed", TRUE)

\* The failure is an answer like others, and is kept as long.
RefreshFails(t) ==
  /\ task[t] # "idle"
  /\ Store(t, now, TRUE, FALSE)

-----------------------------------------------------------------------------
(***************************************************************************)
(* check and authorize.                                                    *)
(***************************************************************************)

StaleEntry(t) == entry[t] = None \/ now - entry[t].stored >= Ttl

\* A task is started unless one is under way.
StartRefresh(t) ==
  IF StaleEntry(t) /\ task[t] = "idle"
  THEN /\ task' = [task EXCEPT ![t] = "sent"]
       /\ since' = [since EXCEPT ![t] = now]
       /\ UNCHANGED decided
  ELSE UNCHANGED refresh

\* Mutant of Answer: the old answer serves until it is replaced.
AnswerWhileStale(t) == entry[t]

\* What check() returns.
Answer(t) == IF StaleEntry(t) THEN None ELSE entry[t]

End(c, how, rests_on) ==
  /\ caller' = [caller EXCEPT ![c] = how]
  /\ verdict' = [verdict EXCEPT ![c] = rests_on]

Ask(c) ==
  /\ caller' = [caller EXCEPT ![c] = "asking"]
  /\ UNCHANGED <<verdict, guards>>

Count(t) == guards' = [guards EXCEPT ![t] = @ + 1]

\* serving_exempt for the summaries of the news, and an admission decided by
\* the owner of the workflow, which may itself say that it allows because the
\* governor was unavailable.  An admission that is refused by another value than
\* False comes as far as authorize, where an override asks the CMS.
ByOwner(c) ==
  /\ caller[c] = "new"
  /\ \/ \E how \in {"allowed", "denied"} : End(c, how, [basis |-> "owner"])
        /\ UNCHANGED guards
     \/ End(c, "allowed", [basis |-> "blind"]) /\ Count(TenantOf[c])
     \/ Ask(c)
  /\ UNCHANGED <<cms, entry, refresh, closed>>

\* By the cached answer.  Capped, a request with an override asks the CMS.
CheckAllowance(c) ==
  /\ caller[c] = "new"
  /\ LET t == TenantOf[c]
         answer == Answer(t)
     IN /\ StartRefresh(t)
        /\ \/ /\ ~answer.known
              /\ End(c, "allowed", [basis |-> "blind"])
              /\ Count(t)
           \/ /\ answer.known
              /\ End(c, IF answer.allowed THEN "allowed" ELSE "denied",
                     [basis |-> "cms", age |-> now - answer.at])
              /\ UNCHANGED guards
           \/ answer.known /\ ~answer.allowed /\ Ask(c)
  /\ UNCHANGED <<cms, entry, closed>>

OverrideAnswered(c) ==
  /\ caller[c] = "asking"
  /\ \E how \in {"allowed", "denied"} : End(c, how, [basis |-> "owner"])
  /\ UNCHANGED <<cms, entry, refresh, guards, closed>>

OverrideFails(c) ==
  /\ caller[c] = "asking"
  /\ End(c, "allowed", [basis |-> "blind"])
  /\ Count(TenantOf[c])
  /\ UNCHANGED <<cms, entry, refresh, closed>>

\* The refresh tasks are cancelled.  check() does not look at this: an LLM call
\* that a request has left behind goes on, and may start another refresh.
Close ==
  /\ ~closed
  /\ closed' = TRUE
  /\ task' = [t \in Tenants |-> "idle"]
  /\ UNCHANGED <<cms, entry, since, decided, callers>>

AllowanceNext ==
  \/ TimePasses
  \/ \E t \in Tenants : SetCap(t) \/ CmsDecides(t) \/ Refreshed(t)
                        \/ RefreshFails(t)
  \/ \E c \in Callers : ByOwner(c) \/ CheckAllowance(c) \/ OverrideAnswered(c)
                        \/ OverrideFails(c)
  \/ Close

AllowanceSpec == AllowanceInit /\ [][AllowanceNext]_avars

-----------------------------------------------------------------------------
(***************************************************************************)
(* Properties.                                                             *)
(***************************************************************************)

\* A tenant is refused, or admitted without being counted as unguarded, only by
\* an answer the CMS gave within the last minute and the time of a call, however
\* often it changes the cap and however late its answers arrive; and a request
\* that went on without an answer is counted once.
AnswersRecent ==
  /\ \A c \in Callers : verdict[c].basis = "cms" => verdict[c].age < Ttl + CallTime
  /\ \A t \in Tenants :
       guards[t] = Cardinality({c \in Callers :
                                  TenantOf[c] = t /\ verdict[c].basis = "blind"})

=============================================================================
