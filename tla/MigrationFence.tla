--------------------------- MODULE MigrationFence ---------------------------
(***************************************************************************)
(* The fence that quiesces the service during a database migration         *)
(* (common/migration_control.py): the owner in memory, its durable copy in *)
(* Redis, the coordinator's three routes and the middleware that counts    *)
(* and refuses requests.  Each route is split at its awaits, where another *)
(* handler may run; owner.lock is only ever held between two awaits, so    *)
(* what it guards is one action and it is never waited for.                *)
(*                                                                         *)
(* An owner is a program with its epoch: the code compares them together.  *)
(***************************************************************************)
EXTENDS Integers, FiniteSets

CONSTANTS
  Calls,      \* handlers of the coordinator's routes that run at a time
  Owners,     \* (program_id, epoch) pairs
  NoOwner,    \* program_id is None, or the key is absent
  Requests,   \* the other requests: those the middleware tracks
  MaxCrashes  \* bound on `crashes`

ASSUME FenceAssumption ==
  /\ IsFiniteSet(Requests)
  /\ NoOwner \notin Owners
  /\ MaxCrashes \in Nat

VARIABLES
  program_id,         \* the owner in memory
  persistence_ready,
  active,             \* tracked requests inside the service
  durable,            \* the owner under MigrationOwner.key in Redis
  running,            \* the process runs
  connected,          \* app.state.migration_redis is not None
  kind,               \* kind[c]: the route of call c
  body,               \* body[c]: the owner in its request
  step,               \* step[c]: where its handler is
  raw,                \* raw[c]: what redis.get returned to it
  inside,             \* tracked requests call_next is running
  lingering,          \* background writes that requests have left behind
  held,               \* owners told that the fence is theirs, until they resume
  crashes

owner == <<program_id, persistence_ready, active>>
calls == <<kind, body, step, raw>>
process == <<running, connected, crashes>>
work == <<inside, lingering>>
fvars == <<owner, durable, calls, process, work, held>>

MaybeOwner == Owners \cup {NoOwner}
Kinds == {"status", "quiesce", "resume"}
Steps == {"none", "reading", "read", "setting", "set", "deleting", "deleted"}

FenceTypeOK ==
  /\ program_id \in MaybeOwner
  /\ persistence_ready \in BOOLEAN
  /\ active \in Nat
  /\ durable \in MaybeOwner
  /\ running \in BOOLEAN
  /\ connected \in BOOLEAN
  /\ kind \in [Calls -> Kinds]
  /\ body \in [Calls -> Owners]
  /\ step \in [Calls -> Steps]
  /\ raw \in [Calls -> MaybeOwner]
  /\ inside \subseteq Requests
  /\ lingering \subseteq Requests
  /\ held \subseteq Owners
  /\ crashes \in 0 .. MaxCrashes

FenceInit ==
  /\ program_id = NoOwner
  /\ persistence_ready = FALSE
  /\ active = 0
  /\ durable = NoOwner
  /\ running = FALSE
  /\ connected = FALSE
  /\ kind = [c \in Calls |-> "status"]
  /\ body \in [Calls -> Owners]
  /\ step = [c \in Calls |-> "none"]
  /\ raw = [c \in Calls |-> NoOwner]
  /\ inside = {}
  /\ lingering = {}
  /\ held = {}
  /\ crashes = 0

-----------------------------------------------------------------------------
(***************************************************************************)
(* The process.                                                            *)
(***************************************************************************)

\* restore, with what redis.get returned: an absent key changes nothing.
Restored(value) == IF value = NoOwner THEN program_id ELSE value

\* Mutant of Boot: the owner is not restored.
BootForgetting ==
  /\ ~running
  /\ running' = TRUE
  /\ connected' = TRUE
  /\ persistence_ready' = TRUE
  /\ UNCHANGED <<program_id, active, durable, calls, crashes, work, held>>

\* Startup restores the owner ...
Boot ==
  /\ ~running
  /\ running' = TRUE
  /\ connected' = TRUE
  /\ program_id' = Restored(durable)
  /\ persistence_ready' = TRUE
  /\ UNCHANGED <<active, durable, calls, crashes, work, held>>

\* ... or goes on without Redis, for the life of the process.
BootWithoutRedis ==
  /\ ~running
  /\ running' = TRUE
  /\ connected' = FALSE
  /\ UNCHANGED <<owner, durable, calls, crashes, work, held>>

Crash ==
  /\ running
  /\ crashes < MaxCrashes
  /\ crashes' = crashes + 1
  /\ running' = FALSE
  /\ program_id' = NoOwner
  /\ persistence_ready' = FALSE
  /\ active' = 0
  /\ step' = [c \in Calls |-> "none"]
  /\ inside' = {}
  /\ lingering' = {}
  /\ UNCHANGED <<durable, connected, kind, body, raw, held>>

-----------------------------------------------------------------------------
(***************************************************************************)
(* The coordinator's routes.                                               *)
(***************************************************************************)

\* An owner's coordinator makes one change at a time; anyone may ask for the
\* status.
Free(o) == \A c \in Calls : step[c] # "none" /\ body[c] = o => kind[c] = "status"

Begin(c, k, o) ==
  /\ running /\ connected
  /\ step[c] = "none"
  /\ k # "status" => Free(o)
  /\ kind' = [kind EXCEPT ![c] = k]
  /\ body' = [body EXCEPT ![c] = o]
  /\ step' = [step EXCEPT ![c] = "reading"]
  /\ held' = IF k = "resume" THEN held \ {o} ELSE held
  /\ UNCHANGED <<owner, durable, raw, process, work>>

\* Without Redis the two changes are refused and the status is unknown.
StatusWithoutRedis ==
  /\ running /\ ~connected
  /\ persistence_ready' = FALSE
  /\ UNCHANGED <<program_id, active, durable, calls, process, work, held>>

\* Redis answers the get; the handler has not seen the answer yet.
RedisGet(c) ==
  /\ step[c] = "reading"
  /\ raw' = [raw EXCEPT ![c] = durable]
  /\ step' = [step EXCEPT ![c] = "read"]
  /\ UNCHANGED <<owner, durable, kind, body, process, work, held>>

\* What the handler may do once restore has left `now` in memory.
Fits(c, now) == \/ kind[c] = "quiesce" /\ now \in {NoOwner, body[c]}
                \/ kind[c] = "resume" /\ now = body[c]

Change == [quiesce |-> "setting", resume |-> "deleting"]

\* Mutant of Apply: quiesce does not look at the present owner.
ApplyAnyOwner(c) ==
  LET now == Restored(raw[c])
      fits == Fits(c, now) \/ kind[c] = "quiesce"
  IN /\ step[c] = "read"
     /\ persistence_ready' = TRUE
     /\ program_id' = IF fits THEN body[c] ELSE now
     /\ step' = [step EXCEPT ![c] = IF fits THEN Change[kind[c]] ELSE "none"]
     /\ UNCHANGED <<active, durable, kind, body, raw, process, work, held>>

\* Mutant of Apply: resume leaves the check to owner.resume.
ApplyUncheckedResume(c) ==
  LET now == Restored(raw[c])
      fits == Fits(c, now) \/ kind[c] = "resume"
  IN /\ step[c] = "read"
     /\ persistence_ready' = TRUE
     /\ program_id' = IF fits /\ kind[c] = "quiesce" THEN body[c] ELSE now
     /\ step' = [step EXCEPT ![c] = IF fits THEN Change[kind[c]] ELSE "none"]
     /\ UNCHANGED <<active, durable, kind, body, raw, process, work, held>>

\* restore, then what the route does before its next await: the status is
\* answered, quiesce claims the fence in memory, resume checks the owner, and
\* a request that does not fit is answered 409.
Apply(c) ==
  LET now == Restored(raw[c])
      fits == Fits(c, now)
  IN /\ step[c] = "read"
     /\ persistence_ready' = TRUE
     /\ program_id' = IF fits THEN body[c] ELSE now
     /\ step' = [step EXCEPT ![c] = IF fits THEN Change[kind[c]] ELSE "none"]
     /\ UNCHANGED <<active, durable, kind, body, raw, process, work, held>>

RedisSet(c) ==
  /\ step[c] = "setting"
  /\ durable' = body[c]
  /\ step' = [step EXCEPT ![c] = "set"]
  /\ UNCHANGED <<owner, kind, body, raw, process, work, held>>

\* The answer is the evidence of this moment: the coordinator is told that it
\* owns the fence if the memory still says so.
QuiesceAnswered(c) ==
  /\ step[c] = "set"
  /\ held' = IF program_id = body[c] THEN held \cup {body[c]} ELSE held
  /\ step' = [step EXCEPT ![c] = "none"]
  /\ UNCHANGED <<owner, durable, kind, body, raw, process, work>>

RedisDelete(c) ==
  /\ step[c] = "deleting"
  /\ durable' = NoOwner
  /\ step' = [step EXCEPT ![c] = "deleted"]
  /\ UNCHANGED <<owner, kind, body, raw, process, work, held>>

\* owner.resume checks again, after the key is gone.
ResumeEnds(c) ==
  /\ step[c] = "deleted"
  /\ program_id' = IF program_id = body[c] THEN NoOwner ELSE program_id
  /\ step' = [step EXCEPT ![c] = "none"]
  /\ UNCHANGED <<persistence_ready, active, durable, kind, body, raw, process,
                 work, held>>

\* A Redis command fails, carried out or not: the handler ends there, and
\* what it has changed stays changed.
RedisFails(c) ==
  /\ step[c] # "none"
  /\ step' = [step EXCEPT ![c] = "none"]
  /\ UNCHANGED <<owner, durable, kind, body, raw, process, work, held>>

-----------------------------------------------------------------------------
(***************************************************************************)
(* The middleware.                                                         *)
(***************************************************************************)

\* A tracked request is refused (423, no change of state) or counted in.
Enter(r) ==
  /\ running
  /\ r \notin inside
  /\ program_id = NoOwner
  /\ active' = active + 1
  /\ inside' = inside \cup {r}
  /\ UNCHANGED <<program_id, persistence_ready, durable, calls, process,
                 lingering, held>>

\* Mutant of Leave: a request that fails is not counted out.
LeaveOnSuccess(r) ==
  /\ r \in inside
  /\ active' \in {active, active - 1}
  /\ inside' = inside \ {r}
  /\ lingering' \in {lingering, lingering \cup {r}}
  /\ UNCHANGED <<program_id, persistence_ready, durable, calls, process, held>>

\* The request ends; it may leave a background task that writes to the CMS
\* (EmbeddingService._persist_optional_tags).
Leave(r) ==
  /\ r \in inside
  /\ active' = active - 1
  /\ inside' = inside \ {r}
  /\ lingering' \in {lingering, lingering \cup {r}}
  /\ UNCHANGED <<program_id, persistence_ready, durable, calls, process, held>>

BackgroundEnds(r) ==
  /\ r \in lingering
  /\ lingering' = lingering \ {r}
  /\ UNCHANGED <<owner, durable, calls, process, inside, held>>

-----------------------------------------------------------------------------
Handler(c) == \/ RedisGet(c)
              \/ Apply(c)
              \/ RedisSet(c)
              \/ QuiesceAnswered(c)
              \/ RedisDelete(c)
              \/ ResumeEnds(c)
              \/ RedisFails(c)

FenceNext ==
  \/ Boot \/ BootWithoutRedis \/ Crash \/ StatusWithoutRedis
  \/ \E c \in Calls :
       \/ \E k \in Kinds, o \in Owners : Begin(c, k, o)
       \/ Handler(c)
  \/ \E r \in Requests : Enter(r) \/ Leave(r) \/ BackgroundEnds(r)

FenceSpec == FenceInit /\ [][FenceNext]_fvars

-----------------------------------------------------------------------------
(***************************************************************************)
(* Properties.                                                             *)
(***************************************************************************)

\* At most one owner is ever told that it holds the fence ("migration owner
\* precondition changed" is what every other one is told), whatever fails or
\* restarts in between.
OneHolder == \A o, p \in held : o = p

\* An owner that was told so finds itself in Redis until it resumes: no other
\* owner's call, failure or restart removes the durable mark.
HeldIsDurable == \A o \in held : durable = o

\* While an owner holds the fence no new request gets through it, after a
\* restart too (unless the process had to start without Redis, where its
\* evidence says "unknown").
HeldIsFenced == held # {} /\ running /\ connected => program_id # NoOwner

\* The durable mark and the memory are written in an order that never leaves
\* the fence open while Redis says it is closed.
DurableIsFenced ==
  durable # NoOwner /\ running /\ connected => program_id # NoOwner

\* Both: no new request gets through the fence, whichever of the holder, Redis
\* and the memory knows of it.
FenceCloses == HeldIsFenced /\ DurableIsFenced

\* The count the evidence rests on is exact, through restarts.
ActiveExact == active = Cardinality(inside)

\* evidence()["state"] = "quiesced".
Quiesced == persistence_ready /\ program_id # NoOwner /\ active = 0

\* What the refusal says, "enrichment effects are quiesced": once the evidence
\* says "quiesced", nothing the service has started still writes.
NoEffectsWhenQuiesced == Quiesced => inside = {} /\ lingering = {}

=============================================================================
