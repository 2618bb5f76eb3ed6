----------------------------- MODULE LlmRequest -----------------------------
(***************************************************************************)
(* LLMClient.complete_with_provenance and _attempt_provider                *)
(* (llm/clients/llm.py) with the response cache (llm/clients/llm_cache.py):*)
(* concurrent requests for one cache key look it up, are authorised, and   *)
(* try the providers of the chain in order, with retries, one time budget  *)
(* and one metered receipt for each call.                                  *)
(*                                                                         *)
(* Each await is a phase, so requests interleave there.  Time is a count   *)
(* of ticks taken from a request's budget while it waits.  The slots       *)
(* behind the admission wait are in LlmAdmission, the meter in SpendMeter; *)
(* usage, cost and the wording of errors are left out.                     *)
(***************************************************************************)
EXTENDS Integers

CONSTANTS
  Requests,        \* concurrent requests for the same cache key
  Providers,       \* length of the provider chain; 1 is its head
  MaxAttempts,     \* MAX_ATTEMPTS
  Deadline,        \* REQUEST_DEADLINE_SEC, in ticks
  MinBudget,       \* MIN_ATTEMPT_BUDGET_SEC
  AdmissionWait,   \* ADMISSION_WAIT_SEC
  Backoffs         \* the sleeps before a retry, computed or from Retry-After

ASSUME RequestAssumption ==
  /\ Providers \in Nat \ {0}
  /\ MaxAttempts \in Nat \ {0}
  /\ Deadline \in Nat
  /\ MinBudget \in Nat \ {0}
  /\ AdmissionWait \in Nat
  /\ Backoffs \subseteq Nat

VARIABLES
  validated,     \* the operation passes a validate_output
  known,         \* known_item: the operation is counted per item
  eligible,      \* cache_eligible
  entry,         \* the cache entry under the key
  phase,         \* phase[r]: how far request r has come
  left,          \* left[r]: its _remaining_budget
  idx,           \* idx[r]: the provider it tries
  attempt,       \* attempt[r]: the attempt at that provider
  timeout,       \* timeout[r]: the timeout of the attempt (remaining)
  completion,    \* completion[r]: its text and the provider it reports
  started,       \* started[r]: provider calls begun
  receipts,      \* receipts[r]: paid receipts emitted
  unobservable,  \* unobservable[r]: attempts metered as unobservable
  items,         \* items[r]: sum of operation_items over its receipts
  recorded       \* recorded[r]: item_recorded

request == <<validated, known, eligible>>
meters == <<started, receipts, unobservable, items, recorded>>
progress == <<left, idx, attempt, timeout>>
vars == <<request, entry, phase, progress, completion, meters>>

Phases == {"lookup", "authorize", "between", "admission", "calling",
           "backoff", "storing", "answered", "failed", "capped", "cancelled"}

\* What a provider can return: only spaces, text that the validation of the
\* operation refuses, or text it accepts.
Texts == {"blank", "invalid", "valid"}

\* What a provider produced; no text; and a text cached by a release that did
\* not validate, which the validation of the operation refuses.  That release is
\* taken to have cached no blank text, which a lookup without a validation would
\* answer.
Output == [text : Texts, from : 1 .. Providers]
NoEntry == [text |-> "none", from |-> 1]
OldEntry == [text |-> "unchecked", from |-> 1]

\* Not blank, and accepted by the validation if the operation has one.
Usable(text) == text = "valid" \/ (~validated /\ text # "blank")

TypeOK ==
  /\ validated \in BOOLEAN /\ known \in BOOLEAN /\ eligible \in BOOLEAN
  /\ entry \in Output \cup {NoEntry, OldEntry}
  /\ phase \in [Requests -> Phases]
  /\ left \in [Requests -> Int]
  /\ idx \in [Requests -> 1 .. Providers]
  /\ attempt \in [Requests -> 1 .. MaxAttempts]
  /\ timeout \in [Requests -> Nat]
  /\ completion \in [Requests -> Output \cup {NoEntry, OldEntry}]
  /\ started \in [Requests -> Nat]
  /\ receipts \in [Requests -> Nat]
  /\ unobservable \in [Requests -> Nat]
  /\ items \in [Requests -> Nat]
  /\ recorded \in [Requests -> BOOLEAN]

Init ==
  /\ validated \in BOOLEAN /\ known \in BOOLEAN /\ eligible \in BOOLEAN
  /\ entry \in {NoEntry, OldEntry}
  /\ phase = [r \in Requests |-> IF eligible THEN "lookup" ELSE "authorize"]
  /\ left = [r \in Requests |-> Deadline]
  /\ idx = [r \in Requests |-> 1]
  /\ attempt = [r \in Requests |-> 1]
  /\ timeout = [r \in Requests |-> 0]
  /\ completion = [r \in Requests |-> NoEntry]
  /\ started = [r \in Requests |-> 0]
  /\ receipts = [r \in Requests |-> 0]
  /\ unobservable = [r \in Requests |-> 0]
  /\ items = [r \in Requests |-> 0]
  /\ recorded = [r \in Requests |-> FALSE]

-----------------------------------------------------------------------------
(***************************************************************************)
(* The cache and the allowance.                                            *)
(***************************************************************************)

Goto(r, p) == phase' = [phase EXCEPT ![r] = p]

\* Mutant of Hits: the entry is not validated again.
HitsUnvalidated(e) == e # NoEntry

\* An entry the validation of the operation refuses is treated as a miss; without
\* a validation any entry is a hit.
Hits(e) == e # NoEntry /\ (validated => Usable(e.text))

\* A hit emits a receipt for the avoided call and answers; it pays nothing.
LookupHits(r) ==
  /\ phase[r] = "lookup"
  /\ Hits(entry)
  /\ Goto(r, "answered")
  /\ completion' = [completion EXCEPT ![r] = [text |-> entry.text, from |-> 1]]
  /\ items' = [items EXCEPT ![r] = @ + (IF known THEN 1 ELSE 0)]
  /\ UNCHANGED <<request, entry, progress, started, receipts, unobservable,
                 recorded>>

\* No entry, one the operation refuses, or a Redis that fails.
LookupMisses(r) ==
  /\ phase[r] = "lookup"
  /\ Goto(r, "authorize")
  /\ UNCHANGED <<request, entry, progress, completion, meters>>

\* The TTL of the entry passes.
EntryExpires ==
  /\ entry # NoEntry
  /\ entry' = NoEntry
  /\ UNCHANGED <<request, phase, progress, completion, meters>>

\* The budget is counted from here.
Authorized(r) ==
  /\ phase[r] = "authorize"
  /\ Goto(r, "between")
  /\ UNCHANGED <<request, entry, progress, completion, meters>>

\* BudgetCappedError.
Denied(r) ==
  /\ phase[r] = "authorize"
  /\ Goto(r, "capped")
  /\ UNCHANGED <<request, entry, progress, completion, meters>>

-----------------------------------------------------------------------------
(***************************************************************************)
(* The provider attempts.                                                  *)
(***************************************************************************)

\* The provider is given up: the next one is tried, and after the last one
\* its LLMError is raised.
GiveUp(r) ==
  IF idx[r] < Providers
  THEN /\ idx' = [idx EXCEPT ![r] = @ + 1]
       /\ attempt' = [attempt EXCEPT ![r] = 1]
       /\ Goto(r, "between")
  ELSE Goto(r, "failed") /\ UNCHANGED <<idx, attempt>>

\* Too little is left for another attempt: _deadline_error.
OutOfBudget(r) ==
  /\ phase[r] = "between"
  /\ left[r] < MinBudget
  /\ Goto(r, "failed")
  /\ UNCHANGED <<request, entry, progress, completion, meters>>

\* The timeout of the attempt is read before it waits for a slot.
BeginAttempt(r) ==
  /\ phase[r] \in {"between", "backoff"}
  /\ left[r] >= MinBudget
  /\ timeout' = [timeout EXCEPT ![r] = left[r]]
  /\ Goto(r, "admission")
  /\ UNCHANGED <<request, entry, left, idx, attempt, completion, meters>>

Admitted(r, d) ==
  /\ phase[r] = "admission"
  /\ left' = [left EXCEPT ![r] = @ - d]
  /\ started' = [started EXCEPT ![r] = @ + 1]
  /\ Goto(r, "calling")
  /\ UNCHANGED <<request, entry, idx, attempt, timeout, completion, receipts,
                 unobservable, items, recorded>>

\* WorkloadOverloadedError: no call was begun, so nothing is metered; it is
\* classified as not retryable.
AdmissionExpires(r) ==
  /\ phase[r] = "admission"
  /\ left' = [left EXCEPT ![r] = @ - AdmissionWait]
  /\ GiveUp(r)
  /\ UNCHANGED <<request, entry, timeout, completion, meters>>

\* Every paid response is metered, the usable and the others; the item of the
\* request is counted on the first.
Receipt(r) ==
  /\ receipts' = [receipts EXCEPT ![r] = @ + 1]
  /\ items' = [items EXCEPT ![r] = @ + (IF known /\ ~recorded[r] THEN 1 ELSE 0)]
  /\ recorded' = [recorded EXCEPT ![r] = TRUE]

\* Only the output of the head of the chain is cached.
Stores(r) == eligible /\ idx[r] = 1

\* The call returns a usable text after d ticks.
CallAnswers(r, d, text) ==
  /\ phase[r] = "calling"
  /\ Usable(text)
  /\ left' = [left EXCEPT ![r] = @ - d]
  /\ Receipt(r)
  /\ completion' = [completion EXCEPT ![r] = [text |-> text, from |-> idx[r]]]
  /\ Goto(r, IF Stores(r) THEN "storing" ELSE "answered")
  /\ UNCHANGED <<request, entry, idx, attempt, timeout, started, unobservable>>

\* It returns a text that is blank or refused: the next provider is tried.
CallUnusable(r, d, text) ==
  /\ phase[r] = "calling"
  /\ ~Usable(text)
  /\ left' = [left EXCEPT ![r] = @ - d]
  /\ Receipt(r)
  /\ GiveUp(r)
  /\ UNCHANGED <<request, entry, timeout, completion, started, unobservable>>

\* The attempt is metered as unobservable.
Unobserved(r) ==
  /\ unobservable' = [unobservable EXCEPT ![r] = @ + 1]
  /\ UNCHANGED <<request, entry, timeout, completion, started, receipts,
                 items, recorded>>

\* A failure that is not retryable, or of the last attempt, or asyncio.timeout,
\* after which too little is left for a retry.
CallFails(r, d) ==
  /\ phase[r] = "calling"
  /\ left' = [left EXCEPT ![r] = @ - d]
  /\ Unobserved(r)
  /\ GiveUp(r)

\* Another attempt at the same provider is left.
Retries(r) == attempt[r] < MaxAttempts

\* Mutant of Fits: the sleep is not held against the budget.
FitsAlways(r, budget) == TRUE

\* Enough is left for another attempt.
Fits(r, budget) == budget >= MinBudget

\* A retryable failure that sleeps b ticks before the next attempt, when that
\* leaves enough for it; otherwise the provider is given up.
Retry(r, d, b) ==
  /\ phase[r] = "calling"
  /\ Retries(r)
  /\ Unobserved(r)
  /\ IF Fits(r, left[r] - d - b)
     THEN /\ left' = [left EXCEPT ![r] = @ - d - b]
          /\ attempt' = [attempt EXCEPT ![r] = @ + 1]
          /\ Goto(r, "backoff")
          /\ UNCHANGED idx
     ELSE left' = [left EXCEPT ![r] = @ - d] /\ GiveUp(r)

\* The entry is written, or Redis fails; either way the request is answered.
StoreEnds(r) ==
  /\ phase[r] = "storing"
  /\ entry' \in {completion[r], entry}
  /\ Goto(r, "answered")
  /\ UNCHANGED <<request, progress, completion, meters>>

\* Mutant of Cancel: a cancelled call is not metered.
CancelUnmetered(r) ==
  /\ phase[r] \in {"lookup", "authorize", "admission", "calling", "backoff"}
  /\ UNCHANGED <<entry, unobservable>>
  /\ Goto(r, "cancelled")
  /\ UNCHANGED <<request, progress, completion, started, receipts, items,
                 recorded>>

\* The task of the request is cancelled at an await.  A write under way may
\* reach Redis or not.
Cancel(r) ==
  /\ \/ /\ phase[r] \in {"lookup", "authorize", "admission", "backoff"}
        /\ UNCHANGED <<entry, unobservable>>
     \/ /\ phase[r] = "calling"
        /\ unobservable' = [unobservable EXCEPT ![r] = @ + 1]
        /\ UNCHANGED entry
     \/ /\ phase[r] = "storing"
        /\ entry' \in {completion[r], entry}
        /\ UNCHANGED unobservable
  /\ Goto(r, "cancelled")
  /\ UNCHANGED <<request, progress, completion, started, receipts, items,
                 recorded>>

Step(r) ==
  \/ LookupHits(r)
  \/ LookupMisses(r)
  \/ Authorized(r)
  \/ Denied(r)
  \/ OutOfBudget(r)
  \/ BeginAttempt(r)
  \/ \E d \in 0 .. AdmissionWait : Admitted(r, d)
  \/ AdmissionExpires(r)
  \/ \E d \in 0 .. timeout[r], text \in Texts :
       CallAnswers(r, d, text) \/ CallUnusable(r, d, text)
  \/ \E d \in 0 .. timeout[r] : CallFails(r, d)
  \/ \E d \in 0 .. timeout[r], b \in Backoffs : Retry(r, d, b)
  \/ StoreEnds(r)
  \/ Cancel(r)

Next == EntryExpires \/ \E r \in Requests : Step(r)

Spec == Init /\ [][Next]_vars

-----------------------------------------------------------------------------
(***************************************************************************)
(* Properties.                                                             *)
(***************************************************************************)

\* Every provider call that was begun is metered once, as a paid receipt or as
\* an unobservable attempt, except the one under way; whatever is retried,
\* refused, timed out or cancelled, none is lost or counted twice.
EveryCallMetered ==
  \A r \in Requests :
    started[r] = receipts[r] + unobservable[r]
                 + (IF phase[r] = "calling" THEN 1 ELSE 0)

\* A request of a counted operation counts one item over all its receipts, also
\* when several providers were paid for it, and none when it got no text.
ItemCountedOnce ==
  \A r \in Requests :
    items[r] = IF known /\ (receipts[r] > 0 \/ phase[r] = "answered")
               THEN 1 ELSE 0

\* An answer is usable for its operation, also when it comes from an entry
\* that another request or an older release wrote (the latter not blank).
AnswersUsable ==
  \A r \in Requests : phase[r] = "answered" => Usable(completion[r].text)

\* An entry is usable for the operation and was produced by the head of the
\* chain, the provider that a hit names, unless an older release wrote it.
CacheClean ==
  entry \notin {NoEntry, OldEntry} => entry.from = 1 /\ Usable(entry.text)

\* Attempts, sleeps and fallbacks share one budget: a request is never more
\* than one admission wait behind its deadline, and no sleep outlasts it.
WithinBudget ==
  \A r \in Requests :
    /\ left[r] >= 0 - AdmissionWait
    /\ phase[r] = "backoff" => left[r] >= MinBudget

=============================================================================
