# Enrichment-Service: TLA+ models, checks and proofs

Enrichment-Service is one FastAPI process on one asyncio event loop. It embeds,
reranks, summarises, tags and extracts for a CMS, calls LLM providers and writes
results back. Inference and formatting are straightforward to test. What is hard
to test is what happens *between* its awaits and between its failures: slots
handed over while somebody times out, a breaker that hears late answers, a meter
that is closed while it delivers, threads that share a session, a cached slide
whose view has moved on, a page that is read as something else than it is. These
modules model that.

Everything under `src/src/` below is abbreviated to the path inside it.

## The system

| Component | State | Operations | Interacts with |
|---|---|---|---|
| Circuit breaker (`common/clients/circuit_breaker.py`) | state, failure and success counts, generation, probes in flight | `execute`: admit, call, settle | three instances in the CMS client |
| CMS client (`common/clients/cms.py`) | the breakers | one request per endpoint | all services, the spend meter |
| Embedding lanes (`common/workload_admission.py` 35-72) | active and waiting per lane, a condition | `enter`, `leave` | embed route, artifact recovery |
| Workload semaphores, executors (same file, 75-190) | semaphores, counters, thread pools | `acquire`, `run` | routes, LLM client |
| Spend meter (`llm/clients/spend_meter.py`) | queue, batch in flight, counters per tenant, worker | `enqueue`, `publish_health`, `_run`, `close` | LLM client, compute meter, CMS |
| Migration fence (`common/migration_control.py`) | owner in memory, owner in Redis, active requests | quiesce, resume, status, middleware | every mutating request |
| LLM client and cache (`llm/clients/llm.py`, `llm_cache.py`) | per request: provider, attempt, deadline; shared cache entry | `complete_with_provenance` | semaphores, meter, allowance, providers |
| Allowance cache (`llm/clients/spend_context.py`) | verdict per tenant and class, refresh tasks | `check`, `authorize`, `close` | LLM client, CMS |
| Embedding service (`retrieval/services/embedding.py`) | tag task, concurrent writes, background task | `embed`, `embed_query` | lanes, executors, tagging, CMS |
| Related search, ranking (`retrieval/services/related.py`, `ranking.py`) | none: one request | resolve, dense search, rerank, rank | reranker, CMS |
| News slide (`retrieval/services/feed_news.py`, `clients/slide_cache.py`) | cached slides per view and formats | look up, assemble, store | related search, CMS |
| Classification, proposals, chapters (`llm/services`) | queue and workers; slots and cases; a plan | one batch or plan per request | LLM client |
| Operator reasoning (`operator/`) | none: one request | label, redact, ask, validate | LLM client |
| Extraction (`extraction/services`) | X guest token and id cache shared by threads | one source per request | external sites |
| Lifecycle, middleware (`main.py`, `common/middleware`) | readiness, tasks, clients | start, become ready, shut down | all |

`PROJECT.json` lists every component with what is and is not modelled, and the
hazards of the code with the properties that look for them.

## The modules

| Module | Models | Abstractions |
|---|---|---|
| `CircuitBreaker` | `execute` and its settling, overlapping calls, cancellation, failures that do not count | time is the elapsed part of the reset timeout; a call keeps the generation it read |
| `BreakerPromise` | what a breaker promises: closed, an outage of bounded length, at most k probes | abstract; `CircuitBreaker` refines it |
| `ProbeHistory` | the breaker with a history of its half-open episode as callers see it: who began in it and who succeeded | history variables only: every step of the breaker is allowed |
| `AllowanceCache` | `check`, its refresh task per tenant and class, `authorize` with its three bases, the override, `close`, a cap the CMS sets and lifts | time is ticks; amounts are capped or not |
| `LaneAdmission` | `EmbeddingLaneAdmission` and `acquire`, one action per step between two awaits; the condition's notification wakes, the waiter re-checks later | 50 ms is "may expire at any time" |
| `BlockingWork` | classes of work in front of shared thread pools: a job outlives a request that timed out or was cancelled | a pool is a line of jobs, the first of which run |
| `LlmAdmission` | `llm_sync` taken by the summarize route and by each attempt | asyncio's semaphore hands a slot to its first waiter |
| `LlmRequest` | lookup, authorisation, chain, attempts, budget, metering and cache of concurrent requests for one key | time is ticks taken from the budget; texts are blank, invalid or valid |
| `SpendMeter` | producers, worker with partial acknowledgements and retries, health, `close` | queue and batch are sets of events; sequence numbers and the two counters that never touch an event are left out |
| `ClassifierPool` | one classification: `asyncio.Queue`, workers, sentinels, caps, failures, cancellation in both waits | an account is classified, failed or capped |
| `ProposalBatch` | one batch of chapter proposals: slots, the timeouts of a case and of the request, caps, cancellation | time is ticks of a clock |
| `ChapterPlan` | the provider chain over refusable output, the repair retry, and how items become chapters | an item is where it says it starts; titles and scores are left out |
| `OperatorReason` | labels, redaction, the answer mapped back and validated against what was offered | a text is present or not, a fact is what it cites |
| `EmbedRequest` | `embed` with `_write_back`, the tag task and `_persist_optional_tags` | encoding is one step; the CMS is the set of items it has stored |
| `RelatedSearch` | resolution of the query, dense hits, rerank with its fallbacks, the answer of `/v1/related` and the three ranking rules of a slide | scores are a few numbers; freshness lowers a score or keeps it |
| `NewsSlide` | concurrent slides around the cache while the serving view is switched | a view is the tuple of generation ids; a slide is its view and the order of its formats |
| `PageExtraction` | hop-by-hop fetch with its checks, the size limit, feed or article | a page is its type, size and number of items |
| `ChannelReader` | feed, channel, related and search operations of the YouTube reader over failing calls and partial payloads | a payload is its sequence of references |
| `GuestSession` | profile and recommendation lookups of concurrent threads over one token and one id cache | a thread may be suspended between any two accesses |
| `MigrationFence` | control calls split at each Redis call, crashes and restarts, the middleware, tag tasks that outlive a request | one process; epoch and program are one owner value |
| `FenceHistory` | the fence with a history: has `restore` put back an owner that Redis no longer names? | history variable only: every step of the fence is allowed |
| `ServiceLifecycle` | start-up, model loading, `/ready`, shutdown, for both roles; the tag tasks that run on through it | a resource is absent, open or closed |

| `Ordering` | what `sorted` and a filtering loop return, by position | helper of the three modules that rank, plan and harvest |

`*Proofs` modules hold the theorems; `LineProofs` holds the lemmas several of
them share. An operator whose comment says "Mutant of"
is a plausible bug; no specification uses it. `TypeOK` states the types of every
module, with the module's prefix (`GuestTypeOK`) in those that are checked
together.

How actions correspond to code: a step runs from one await to the next, since
nothing else runs on the loop in between; in threads, from one access to shared
state to the next. Where a coroutine re-reads state after an await (a woken
waiter, a stale Redis answer) the action does so too. External parties (CMS,
Redis, providers, sites) are choices: answer, fail, answer with less than was
asked, or fail after having taken effect.

### How parts are put together

A passing run checks several components at once. Its MC module EXTENDS them,
and their definitions have prefixes for that reason (`GuestInit`, `PageNext`,
`SlideSpec`); a variable that no step changes (`part`, `limit`, `side`,
`handler`) chooses the one a behaviour follows, and the others stay as they
begin. That is sound because the parts of one run share no
state: the behaviours are exactly those of each part alone, and each property is
about one of them. Interactions that matter are inside one module instead: a
route and the provider chain on one semaphore (`LlmAdmission`), two classes on
one pool (`BlockingWork`), the tag task and the fence (`MigrationFence`), the
search and the ranking (`RelatedSearch`), the meter and the client it is closed
before (`ServiceLifecycle`).

## The runs

| Run | Part | What it shows | Bounds |
|---|---|---|---|
| `dependencies` | breaker | no outage is extended, closed by fresh probes only, refinement of the promise, recovery | 3 callers, threshold 2, timeout 2, 2 probes, 4 generations: late answers of earlier generations; fair |
| | allowance | an answer is acted on for a bounded time after the CMS changed its mind | 1 tenant, 3 callers, TTL 2, a call of 1, 4 ticks: an answer expires behind a refresh |
| | guest | a refused request is tried again with a token that is not the refused one | 2 threads, 3 handles, 2 tokens: a thread renews while another still uses the old one |
| | page | every hop was checked, https is never left, and what is answered is the last hop's page | 4 URLs (one insecure, one private), 5 hops |
| | YouTube | channels found are each found once, with what any reference said of them, and none is lost | 2 channels, up to 4 references of 7 sorts, 3 links |
| | slots | slots exact; requests end though all slots are held at the route | 3 requests, 2 of them summaries, 2 slots, 2 providers of 2 attempts; fair |
| `workloads` | lanes | counters exact, the floor awake and served through timeouts and cancellations | 4 requests on 2 slots, two of which may choose another lane than news; fair |
| | threads | a job waits only while its pool is full of jobs, abandoned ones included | 4 requests of 2 classes on 2 threads |
| | classify | an answer has a result for every account; the request ends | 4 accounts, 2 workers: workers with more than one item each; fair |
| | proposals | a batch is over in as many case timeouts as it has waves | 5 cases, 3 slots, timeout 2 |
| | chapters | chapters cover every window exactly once and cut where the provider did; a plan is given up only for unsound output | 3 windows, up to 3 items of any start, 2 providers, a repair round |
| | operator | a citation copied from the packet comes back as the evidence it named; no claim without evidence, no action that was not offered | 2 pieces of evidence in any order, 2 offers |
| `process` | fence, overlapping | one holder, durable, fenced, until `restore` has misled a call | 2 control calls at a time, 2 owners, 2 crashes |
| | fence, requests | the same, and an exact active count | 1 control call at a time, 2 owners, 2 requests, 2 crashes |
| | lifecycle | the CMS client and the caches' connection outlive their users; only a left-over tag task can start a refresh that outlives the client | both roles; every start-up failure |
| | embed | receipt, tags after vectors, nothing left behind a failure; the lease does not wait for tags | 4 items, 2 writes at a time; fair |
| | meter | every event accounted once, an accepted one stored, the last health complete, every event settled | 3 events of 2 tenants, queue 2, batch 2, 2 attempts: full queue, split batch, partial acknowledgement; fair |
| `requests` | completion | metering, answers and budget of concurrent requests for one key | 2 requests, 2 providers of 2 attempts, 2 ticks, an admission wait of 1, sleeps of 0 and beyond the budget; stale, expiring and lost entries |
| | search | a rerank only reorders, an item is left out for a cause, formats take turns | 5 contents, three of one source, input 3, 2 per source; hits with repetitions and holes |
| | slides | a slide, cached or not, comes from one view | 2 readers, 2 switches |
| `lanes_rejection` | | *violation*, see below | 4 requests of any lane |
| `meter_close_311` | | *violation* | the meter above |
| `fence_overlap`, `fence_effects` | | *violations* | 3 calls of 2 owners without crashes; 1 request |
| `forgotten` | | *violation* | the search above |
| `llm_overload` | | *violation* | 3 summaries on the real capacity of 4 |
| `slide_order` | | *violation* | 2 readers with different orders |
| `mistagged_upload` | | *violation* | the reader above |

The fence is checked with overlapping control calls and no other requests, and
with one call at a time among requests: the three routes never look at what
requests do except for the count they report, so nothing is lost but the product
of two unrelated interleavings. The theorems have no such bound.

The bounds are small because what matters is the number of parties that can be
between two awaits at once: two generations of calls, two lanes and a newcomer,
a batch plus a queue, a control call against a crash, a reader on each side of a
switch. Each is large enough that every action fires and that each of the mutants
listed in `PROJECT.json` breaks its property.

The fair runs check safety and liveness of one state space: fairness adds no
behaviour, so their invariants hold of the unfair specification too.

`CHECK_DEADLOCK FALSE` stands in every configuration whose behaviours may end: a
request that is answered, a finite set of events, a process that has shut down.
That includes all four passing runs. That nobody waits for ever is checked where
it could happen, by the liveness properties of the breaker, lanes, slots, meter,
classifier and embedding request. Deadlock is checked in the runs of the lanes,
fence and slots alone, up to their violation.

### Fairness

* Breaker: calls end (the HTTP client has a timeout), time passes, callers keep
  calling and the dependency answers in the end.
* Lanes: the event loop runs what is ready and `wait_for` fires; a holder leaves,
  since the route bounds its work to 60 s. Arrivals are not fair.
* Classification: the event loop runs its workers, and LLM calls end by their
  deadline, with a result, a failure or a cap. Cancellation is not fair.
* Meter: the worker and `close` take their steps, and their timeouts fire. The
  CMS is not assumed to answer.
* Provider slots: the waits are bounded by `ADMISSION_WAIT_SEC` and the calls by
  the deadline. Arrivals are not fair.
* Embedding: the encoder, CMS calls and cancelled tasks end. The LLM call behind
  the tags is not assumed to.

### Disagreements the runs show

1. `lanes_rejection`: only `leave` notifies. A waiter that expires, is cancelled
   or enters changes `_can_enter` for the others without waking them, so one can
   be rejected "at capacity" while a slot it may take is free. The floor itself
   is safe (`FloorNeverAsleep`, proved).
2. `meter_close_311`: `close` cancels its worker once and awaits it without a
   deadline. In Python 3.11 `wait_for(queue.get())` can return an event in place
   of the cancellation, and the worker runs on. `GetInTask` selects this
   behaviour; with FALSE (Python 3.12's `wait_for`) the model's `CloseEnds`
   holds.
3. `fence_overlap`: `restore` overwrites memory with a Redis answer that may be
   older than another call's decision. A status call reads the mark of p, p
   resumes, q quiesces and is answered as the holder, and then the status call
   puts p back. A second quiesce of p, which had read an absent key, passes the
   check for another owner, and the evidence it is answered with names p.
   `FenceHistory` shows that this is the only way: until such an answer has been
   applied, the fence keeps what it promises with any number of overlapping
   calls.
4. `fence_effects`: background tag tasks write while the evidence says quiesced.
5. `llm_overload`: an admission wait that expires inside a request is answered
   502 instead of 429.
6. `slide_order`: slides are cached under their *sorted* formats, while ranking
   interleaves formats "in caller order". A caller can get the order another
   caller asked for.
7. `mistagged_upload`: a channel is classified by the categories that could be
   read, so when one of two calls fails a single mis-tagged upload decides,
   which the code's comment says must not happen.

8. `forgotten`: the docstring of `_rerank_candidates` says that items
   `batch_text` did not return drop out of the reranked list; its last lines append
   them behind the scored ones. `RerankOnlyReorders` states what the code does.

Met while modelling, without a document that promises otherwise:

* `operator/services/reasoning.py` redacts a packet as text; where a credential
  stands in an enumerated field, the packet no longer validates and the request
  fails (`OperatorReason.Ask`, outcome "broken").
* A page answered with an error status is extracted like any other article.
* Two threads that look up one X handle may meet a cleared id cache between the
  test and the read, and report an existing profile as missing
  (`GuestSession`).
* At shutdown background tag tasks are neither awaited nor cancelled. One that
  comes to its LLM call after `LLMClient.close` may start a refresh of the
  allowance (`SpendAllowanceCache.check` does not know that it is closed), which
  nobody cancels and which may find the CMS client closed; its exception is
  taken for an unavailable governor (`ServiceLifecycle.LingeringRefresh`).
* Chapters are repaired only if the *last* provider's failure was refused output
  (`ChapterPlan`).

## What is proved

All theorems hold for every value of the constants that meets the named
assumptions (positive bounds, finite sets of requests), which TLC evaluates in
each run. Every invariant and every action property of the passing runs is
proved, and so is the refinement.

Three techniques carry what the prover has no induction rule for.

* Least counterexample: of the numbers at which a claim about a prefix or a
  recursive function fails, one is the least (`LeastExists`), and the step from
  the number before it contradicts that.
* Recursive functions: a function that unfolds as its definition asks is shown to
  exist (`UnfoldsExists`); what `CHOOSE` picks then unfolds too.
* Sorting by rank: `Ordered` puts at position n the element with n - 1 elements
  before it. `OrderedLine` proves, for any strict total order of a finite set,
  that this lists each element once and in order; `PickedLine` that picking
  positions keeps their order.

* `CircuitBreakerProofs`: typing; permits exact (`ProbePermits`); open is sealed;
  refusals justified; outages bounded; refinement of `BreakerPromise`; a circuit
  closes on fresh probes only (`ClosesOnFreshProbes`). The
  inductive invariant adds that a call's generation is never ahead of the
  breaker's, and that the probes of the current generation are exactly the calls
  under way with it while half open. That relation makes late answers harmless:
  `_on_success` and `_on_failure` touch a counter only for calls it counts. For
  the history it adds that the breaker's success count never exceeds the
  successes callers of this episode had, and that every probe it counts began in
  the episode (`EpisodeRemembered`).
* `LaneAdmissionProofs`: typing; counters exact; capacity kept; no sleeping
  floor. The counters are cardinalities of the sets of requests by phase, so
  each action adds or removes one request. `FloorNeverAsleep` needs besides that
  a slot is only freed by `leave`, which wakes everybody.
* `SpendMeterProofs`: typing; the ledger (emitted = accepted + dropped +
  buffered); accepted is stored; a closed health is complete. The invariant adds
  that queue and batch are disjoint, that what is in the batch was not yet
  counted, and that after the final drain both are empty.
* `RequestProofs`, on what requests are answered with.
  * An LLM request: metering exact; items counted once; the budget
    shared; answers usable; the cache clean. The metering balance is inductive as
    it stands, because an attempt ends in one action and that action meters it. The
    item count needs that `item_recorded` is set by the first receipt and that a
    request still looking up has none; the budget that an attempt's timeout is what
    was left when it began; the cache that a text about to be stored is usable and
    comes from the head of the chain.
  * A slide is of one view: a reader that has looked at the anchor stays
    pinned to that view until it answers, and a cached slide is filed under the
    view it was made from (`Pinned`).
  * A search: the invariant says that each list holds a content once (`Lists`), that
    candidates have no rerank score, and what stage has ordered what
    (`SearchInv`). Reranking keeps every candidate (`MergeLine`), since the scored
    ones are some of the candidates (`ScoredLine`) and the others are exactly those
    whose id has no score.
  * The ranking rules: an item of rank r within its format stands in round
    r div slots, and each rank below that of an item shown is taken by an item shown
    (`QuotasLine`, `RankTaken`). A slide that is not full therefore shows every item
    the source cap keeps (`SlideLeavesOut`), and, with one slot per format, a format
    two ahead of another would put a round before an earlier one
    (`SlideTakesTurns`). `FormatsTakeTurns` says nothing of formats wanted twice.
* `ProcessProofs`, on a process around its requests.
  * The fence: the active count is exact, whatever the coordinators do. With any
    number of overlapping control calls there is one holder, held is durable, and
    the fence closes, for as long as `restore` has not put back an owner that Redis
    no longer names (`misled`, a history variable of `FenceHistory`). The
    invariant says that the memory of a connected process agrees with Redis
    (`Agree`), and that from its check to its end a changing call's owner is the
    one in memory (`Known`), so that no other call passes its check meanwhile
    (`ChangesExclude`); a Redis answer that is not out of date changes nothing
    (`RestoreChangesNothing`). One that is breaks `Known`, which is what
    `fence_overlap` shows, so the condition cannot be dropped. The coordinator of
    one owner is taken to make one change at a time (`Free`, `Separate`).
  * An embedding: the receipt is true, tags come after vectors, a failure
    leaves nothing behind. A write that ended decides the receipt
    (`ReceiptFollowsWrites`), and the background task exists only after an "ok"
    (`TagsFollowReceipt`).
  * The lifecycle: resources outlive their users. The order of shutdown is in
    `TasksOfStage` and `ClientOfStage`: which tasks may still run, and what is
    open, at each stage. After the LLM client a refresh runs only if a tag task
    was left over (`leftover`).
* `WorkloadProofs`, on what limits and checks the work of a request. It uses the
  lemmas of `LineProofs` about lines of waiters: what joining at the end, taking
  the first and leaving from the middle do to the members and the length of a
  line without repetitions, and that its length is the number of its members.
  * Provider slots: exact (`SlotsStayExact`), though a summary holds two, and none
    idle while a caller waits (`NoSlotIdles`). The invariant relates the line to
    the requests by phase (`LineOfWaiting`, `EnteringSummaries`); without
    `NoIdleSlot` it is not inductive, since a release hands the slot to the
    first waiter in place of freeing it.
  * Thread pools: requests wait for cause (`WaitsHaveCause`). The invariant says
    that the line of a pool is its queued requests (`JobsOfQueued`) and that a class
    has no more holders than slots (`SlotsWithinRoom`); the rest is counting
    the requests at the head of the line.
  * Classification: everybody is answered (`AllAnswered`). The invariant counts
    unfinished tasks as what is queued and what workers hold (`TasksCounted`), so
    that `join` returns only when no account is open (`NoAccountLost`).
  * Proposals: waves end in time (`WavesEndInTime`). Slots that are free mean
    that nobody waits (`SlotsBusy`), cases begin in order (`InOrder`), and a case
    begins in the wave of its number at the latest (`StartedInWave`): the
    arithmetic of `ceil(cases / slots)` is part of the proof.
  * Operator reasoning: answers stay grounded (`AnswersStayGrounded`), also where
    a packet lists a piece of evidence twice; the label of an id leads back to it
    because the fact shown is one the packet has (`FactInPacket`).
  * Chapters cover once (`ChaptersCoverOnce`). Cleaning yields the first item of
    each start, in the order of starts (`CleanedLine`), and `Complete` says that
    each chapter ends at the window before the next one begins: a window is in the
    last chapter that begins no later than it, and in no other (`SpansCover`).
    The other direction, that sound output is accepted, is `SoundAccepted`. The
    invariant only keeps the output that decided and its verdict (`PlanInv`).
* `DependencyProofs`, on the answers of other services.
  * X: a retry is made with another token than the refused one, for any number of
    threads. A token that a thread was given and has not stored is known to
    nobody else (`Unshared`), so storing it makes the shared token differ from
    every token refused before (`Renewed`).
  * A page: each hop was checked, https is kept and the last hop is answered
    (`TrailSound`, `LastHop`).
  * An allowance: verdicts are recent. Entries, refreshes under way and verdicts
    each bound the age of what they hold (`EntriesTimed`, `RefreshesTimed`,
    `VerdictsTimed`), since an entry is stored as new when its answer arrives,
    which may be a call's time after the CMS gave it.
  * The YouTube harvest is exact (`HarvestIsExact`), for payloads of any length:
    after n references in reading order each channel named so far stands once,
    with what those references said of it (`Gathered`, `AddStep`), and the reading
    order leaves no reference out (`ReadOrder`).

Checked with TLC only:

* All liveness (`Recovery`, `FloorServed`, `ClassifyEnds`, `EventsSettled`,
  `EveryRequestEnds`, `LeaseGivenUp`): fairness and ENABLED are beyond the prover.
* What the folds of `ChannelReader` other than `Harvest` compute: no property of
  a passing run is about them.

## Not modelled, and why

* A cancellation inside `leave` while it waits for the condition's lock: the
  model's `leave` is one step.
* What a meter counts after its final health: an event enqueued then is counted
  lost, but no later health tells.
* Several processes on one Redis: the fence model has one.
* The Telegram and Apple readers, artifact recovery, translations, digests and
  labels: each is one call and one pass over its answer, without state.
* Authentication, the body limit and the URL guard's own address rules: pure
  checks of one value. The guard's verdict is a set in `PageExtraction`.
* `ADMISSION_WAIT_SEC` is not taken from an attempt's timeout, so a request can
  be that long (50 ms) behind its deadline; `WithinBudget` states this bound.
* A blank text that an older release cached: a lookup without a validation would
  answer it, and nothing says that such a text exists.
* Time that the event loop itself takes, scheduling delays, and a provider that
  ignores cancellation.
* Inference, request validation, hashing, the embedding space id, admin routes,
  metrics and logs.

## Plan

Done: all modules above, with a proof of every invariant and action property
that a run checks.

Next, in this order:

1. Lemmas that the liveness properties rest on and that are safety: from every
   state of a meter that closes, and of a classification, some measure that no
   step increases.
2. `MigrationReplicas`: two processes on one durable owner.
3. A cancellation inside `leave`, with the condition's lock as state.
