--------------------------- MODULE ServiceLifecycle ---------------------------
(***************************************************************************)
(* The life of a process: lifespan (main.py), the loading of the models    *)
(* (retrieval/models) and GET /ready (common/routes/health.py), for the    *)
(* role that serves the API and the one that only serves the reranker.     *)
(*                                                                         *)
(* What is started is closed in an order that depends on what uses what:   *)
(* tasks that call the CMS need its client.  Each step ends at an await,   *)
(* where the tasks go on.                                                  *)
(***************************************************************************)
EXTENDS FiniteSets

VARIABLES
  role,      \* ENRICHMENT_ROLE
  ranks,     \* where the reranker is: "local", "remote", or "off"
  stage,     \* how far lifespan is
  store,     \* the Redis connection of the fence
  cache,     \* the LLM and slide caches use it
  client,    \* the CMS client
  tasks,     \* the tasks that call the CMS
  embedder,  \* the embedding model
  reranker,  \* the cross-encoder
  probe,     \* a request to /ready, with what the CMS says to it
  leftover   \* history: a tag task ran on when the LLM client was closed

svars == <<role, ranks, stage, store, cache, client, tasks, embedder,
           reranker, probe, leftover>>
config == <<role, ranks>>
models == <<embedder, reranker>>
caches == <<store, cache>>
asked == <<probe, leftover>>

\* A load that fails may leave the model in place, before its probe has bound
\* the dimension and the revision; a model that loads may be of another
\* dimension, or of no known revision.
Embedders == {"none", "unprobed", "unfit", "fit"}
Rerankers == {"none", "unprobed", "probed", "configured"}

Stages == {"boot", "redis", "building", "embedder", "reranker", "serving",
           "meter", "llm", "client", "rest", "stopped", "refused"}

LifecycleTypeOK ==
  /\ role \in {"api", "reranker"} /\ ranks \in {"local", "remote", "off"}
  /\ stage \in Stages
  /\ store \in {"none", "open", "closed"} /\ cache \in BOOLEAN
  /\ client \in {"none", "open", "closed"}
  /\ tasks \subseteq {"snapshot", "meter", "allowance", "tags"}
  /\ embedder \in Embedders /\ reranker \in Rerankers
  /\ probe \in {"none", "asking", "reached", "unreached", "ok", "not_ready"}
  /\ leftover \in BOOLEAN

LifecycleInit ==
  /\ role \in {"api", "reranker"}
  /\ ranks \in IF role = "api" THEN {"local", "remote", "off"} ELSE {"local"}
  /\ stage = "boot" /\ store = "none" /\ cache = FALSE /\ client = "none"
  /\ tasks = {} /\ embedder = "none" /\ reranker = "none" /\ probe = "none"
  /\ leftover = FALSE

-----------------------------------------------------------------------------
(***************************************************************************)
(* Startup.                                                                *)
(***************************************************************************)

\* validate_startup.
Configured ==
  /\ stage = "boot"
  /\ stage' \in {"redis", "refused"}
  /\ UNCHANGED <<config, caches, client, tasks, models, asked>>

\* The owner of the fence is restored; or the connection is closed and
\* forgotten.
RedisConnected ==
  /\ stage = "redis"
  /\ store' \in {"open", "none"}
  /\ stage' = IF role = "api" THEN "building" ELSE "reranker"
  /\ UNCHANGED <<config, cache, client, tasks, models, asked>>

\* The client of the CMS, the caches if they are enabled, and the meter.
Build(to) ==
  /\ client' = "open"
  /\ tasks' = tasks \cup {"meter"}
  /\ cache' \in {FALSE, role = "api" /\ store # "none"}
  /\ stage' = to

BuildApi ==
  /\ stage = "building"
  /\ Build("embedder")
  /\ UNCHANGED <<config, store, models, asked>>

\* A failure is logged, and the start goes on.  A remote reranker is taken for
\* loaded.
LoadEmbedder ==
  /\ stage = "embedder"
  /\ embedder' \in Embedders
  /\ stage' = IF ranks = "local" THEN "reranker" ELSE "serving"
  /\ reranker' = IF ranks = "remote" THEN "configured" ELSE reranker
  /\ tasks' = IF ranks = "local" THEN tasks ELSE tasks \cup {"snapshot"}
  /\ UNCHANGED <<config, caches, client, asked>>

\* Last for the API, which then publishes snapshots of its lanes; first for
\* the reranker's process.
LoadReranker ==
  /\ stage = "reranker"
  /\ reranker' \in Rerankers \ {"configured"}
  /\ IF role = "api"
     THEN /\ stage' = "serving" /\ tasks' = tasks \cup {"snapshot"}
          /\ UNCHANGED <<client, cache>>
     ELSE Build("serving")
  /\ UNCHANGED <<config, store, embedder, asked>>

-----------------------------------------------------------------------------
(***************************************************************************)
(* Serving.                                                                *)
(***************************************************************************)

\* Requests start refreshes of an allowance, and leave tasks that persist
\* tags.
StartTask ==
  /\ stage = "serving" /\ role = "api"
  /\ \E t \in {"allowance", "tags"} : tasks' = tasks \cup {t}
  /\ UNCHANGED <<config, stage, caches, client, models, asked>>

\* A task that persists tags calls the LLM, and its admission starts a refresh
\* when the allowance is old: after the last response too, whatever is closed
\* by then.
LingeringRefresh ==
  /\ "tags" \in tasks
  /\ tasks' = tasks \cup {"allowance"}
  /\ UNCHANGED <<config, stage, caches, client, models, asked>>

TaskEnds ==
  /\ \E t \in {"allowance", "tags"} \cap tasks : tasks' = tasks \ {t}
  /\ UNCHANGED <<config, stage, caches, client, models, asked>>

\* ModelManager.all_ready.
AllReady ==
  IF role = "reranker" THEN reranker # "none" ELSE embedder = "fit"

AskReady ==
  /\ stage = "serving" /\ probe \notin {"asking", "reached", "unreached"}
  /\ probe' = "asking"
  /\ UNCHANGED <<config, stage, caches, client, tasks, models, leftover>>

\* CMSClient.health_check.
CmsAnswers ==
  /\ probe = "asking"
  /\ probe' \in {"reached", "unreached"}
  /\ UNCHANGED <<config, stage, caches, client, tasks, models, leftover>>

\* Only the reranker's process is ready without the CMS.
AnswerReady ==
  /\ probe \in {"reached", "unreached"}
  /\ probe' = IF AllReady /\ (probe = "reached" \/ role = "reranker")
              THEN "ok" ELSE "not_ready"
  /\ UNCHANGED <<config, stage, caches, client, tasks, models, leftover>>

-----------------------------------------------------------------------------
(***************************************************************************)
(* Shutdown, after the last response.                                      *)
(***************************************************************************)

Closing(from, to) ==
  /\ stage = from
  /\ stage' = to
  /\ leftover' = (leftover \/ (from = "llm" /\ "tags" \in tasks))
  /\ UNCHANGED <<config, cache, models, probe>>

CloseSnapshots ==
  /\ probe \notin {"asking", "reached", "unreached"}
  /\ Closing("serving", "meter")
  /\ tasks' = tasks \ {"snapshot"}
  /\ UNCHANGED <<store, client>>

\* The meter publishes its last health through the client.
CloseMeter ==
  /\ Closing("meter", IF role = "api" THEN "llm" ELSE "client")
  /\ tasks' = tasks \ {"meter"}
  /\ UNCHANGED <<store, client>>

\* Mutant of CloseLlm: the refreshes of allowances are not cancelled.
CloseLlmOnly ==
  /\ Closing("llm", "client")
  /\ UNCHANGED <<store, client, tasks>>

\* The refreshes of allowances are cancelled; the tasks that persist tags are
\* nobody's to close.
CloseLlm ==
  /\ Closing("llm", "client")
  /\ tasks' = tasks \ {"allowance"}
  /\ UNCHANGED <<store, client>>

CloseClient ==
  /\ Closing("client", "rest")
  /\ client' = "closed"
  /\ UNCHANGED <<store, tasks>>

\* The models, the pools and, last, Redis.
CloseRest ==
  /\ Closing("rest", "stopped")
  /\ store' = IF store = "open" THEN "closed" ELSE store
  /\ UNCHANGED <<client, tasks>>

LifecycleNext ==
  \/ Configured \/ RedisConnected \/ BuildApi \/ LoadEmbedder \/ LoadReranker
  \/ StartTask \/ LingeringRefresh \/ TaskEnds
  \/ AskReady \/ CmsAnswers \/ AnswerReady
  \/ CloseSnapshots \/ CloseMeter \/ CloseLlm \/ CloseClient \/ CloseRest

LifecycleSpec == LifecycleInit /\ [][LifecycleNext]_svars

-----------------------------------------------------------------------------
(***************************************************************************)
(* Properties.                                                             *)
(***************************************************************************)

\* Whatever fails at startup and in whichever role, the client of the CMS is
\* open while the snapshots, the meter or a readiness probe may call it, and the
\* connection of the caches while requests are served.  A refresh of an allowance
\* finds the client closed only if a task that persists tags was left running
\* when the LLM client was closed; every other refresh is cancelled before the
\* client goes.
ResourcesOutliveUsers ==
  /\ {"snapshot", "meter"} \cap tasks # {} \/ probe = "asking" => client = "open"
  /\ "allowance" \in tasks /\ ~leftover => client = "open"
  /\ cache /\ stage = "serving" => store = "open"

=============================================================================
