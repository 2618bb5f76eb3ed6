--------------------------- MODULE RequestProofs ----------------------------
(***************************************************************************)
(* Proofs about what requests are answered with: LlmRequest, for any number*)
(* of requests, providers and attempts, and any budget; NewsSlide, for any *)
(* number of concurrent requests, orders and views; RelatedSearch, for any *)
(* contents, hits, formats, scores and caps.  Metering is exact, the budget*)
(* is shared, nothing unusable is answered or cached, a slide is of one    *)
(* view, and ranking loses nothing without cause.                          *)
(***************************************************************************)
EXTENDS LlmRequest, NewsSlide, RelatedSearch, LineProofs

-----------------------------------------------------------------------------
(***************************************************************************)
(* Types.                                                                  *)
(***************************************************************************)

\* The initial states are well typed.
LEMMA TypeInit == Init => TypeOK
  BY RequestAssumption DEF Init, TypeOK, Phases

\* Giving a provider up keeps the types of what it assigns.
LEMMA GiveUpTyped ==
  ASSUME TypeOK, NEW r \in Requests, GiveUp(r)
  PROVE  /\ phase' \in [Requests -> Phases]
         /\ idx' \in [Requests -> 1 .. Providers]
         /\ attempt' \in [Requests -> 1 .. MaxAttempts]
  BY RequestAssumption DEF TypeOK, GiveUp, Goto, Phases

\* Every step keeps the state well typed.
LEMMA TypeStep == TypeOK /\ [Next]_vars => TypeOK'
<1> SUFFICES ASSUME TypeOK, [Next]_vars PROVE TypeOK'
  OBVIOUS
<1> USE RequestAssumption
<1>1. CASE UNCHANGED vars
  BY <1>1 DEF TypeOK, vars, request, progress, meters
<1>2. CASE EntryExpires
  BY <1>2 DEF TypeOK, EntryExpires, request, progress, meters
<1>3. ASSUME NEW r \in Requests, Step(r) PROVE TypeOK'
  <2> USE DEF request, progress, meters
  <2>1. CASE LookupHits(r)
    <3>1. completion' \in [Requests -> Output \cup {NoEntry, OldEntry}]
      <4>1. [text |-> entry.text, from |-> 1] \in Output \cup {NoEntry, OldEntry}
        BY <2>1 DEF LookupHits, Hits, TypeOK, Output, NoEntry, OldEntry, Texts
      <4> QED BY <4>1, <2>1 DEF LookupHits, TypeOK
    <3>2. phase' \in [Requests -> Phases] /\ items' \in [Requests -> Nat]
      BY <2>1 DEF LookupHits, TypeOK, Goto, Phases
    <3> QED BY <3>1, <3>2, <2>1 DEF LookupHits, TypeOK
  <2>2. CASE LookupMisses(r) \/ Authorized(r) \/ Denied(r) \/ OutOfBudget(r)
    BY <2>2 DEF LookupMisses, Authorized, Denied, OutOfBudget, TypeOK, Goto,
                Phases
  <2>3. CASE BeginAttempt(r)
    BY <2>3 DEF BeginAttempt, TypeOK, Goto, Phases
  <2>4. ASSUME NEW d \in 0 .. AdmissionWait, Admitted(r, d) PROVE TypeOK'
    BY <2>4 DEF Admitted, TypeOK, Goto, Phases
  <2>5. CASE AdmissionExpires(r)
    <3>1. left' \in [Requests -> Int]
      BY <2>5 DEF AdmissionExpires, TypeOK
    <3> QED BY <3>1, <2>5, GiveUpTyped DEF AdmissionExpires, TypeOK
  <2>6. ASSUME NEW d \in 0 .. timeout[r], NEW text \in Texts,
               CallAnswers(r, d, text)
        PROVE  TypeOK'
    <3>1. completion' \in [Requests -> Output \cup {NoEntry, OldEntry}]
      <4>1. [text |-> text, from |-> idx[r]] \in Output
        BY DEF TypeOK, Output
      <4> QED BY <4>1, <2>6 DEF CallAnswers, TypeOK
    <3>2. /\ left' \in [Requests -> Int]
          /\ receipts' \in [Requests -> Nat]
          /\ items' \in [Requests -> Nat]
      BY <2>6 DEF CallAnswers, Receipt, TypeOK
    <3>3. recorded' \in [Requests -> BOOLEAN] /\ phase' \in [Requests -> Phases]
      BY <2>6 DEF CallAnswers, Receipt, TypeOK, Goto, Phases
    <3> QED BY <3>1, <3>2, <3>3, <2>6 DEF CallAnswers, TypeOK
  <2>7. ASSUME NEW d \in 0 .. timeout[r], NEW text \in Texts,
               CallUnusable(r, d, text)
        PROVE  TypeOK'
    <3>1. /\ left' \in [Requests -> Int]
          /\ receipts' \in [Requests -> Nat]
          /\ items' \in [Requests -> Nat]
      BY <2>7 DEF CallUnusable, Receipt, TypeOK
    <3>2. recorded' \in [Requests -> BOOLEAN]
      BY <2>7 DEF CallUnusable, Receipt, TypeOK
    <3> QED BY <3>1, <3>2, <2>7, GiveUpTyped DEF CallUnusable, TypeOK
  <2>8. ASSUME NEW d \in 0 .. timeout[r], CallFails(r, d) PROVE TypeOK'
    <3>1. left' \in [Requests -> Int] /\ unobservable' \in [Requests -> Nat]
      BY <2>8 DEF CallFails, Unobserved, TypeOK
    <3> QED BY <3>1, <2>8, GiveUpTyped DEF CallFails, Unobserved, TypeOK
  <2>9. ASSUME NEW d \in 0 .. timeout[r], NEW b \in Backoffs, Retry(r, d, b)
        PROVE  TypeOK'
    <3>1. left' \in [Requests -> Int] /\ unobservable' \in [Requests -> Nat]
      BY <2>9 DEF Retry, Unobserved, TypeOK
    <3>2. CASE Fits(r, left[r] - d - b)
      <4>1. attempt' \in [Requests -> 1 .. MaxAttempts]
        BY <2>9, <3>2 DEF Retry, Retries, TypeOK
      <4> QED BY <4>1, <3>1, <3>2, <2>9
              DEF Retry, Unobserved, Goto, TypeOK, Phases
    <3>3. CASE ~Fits(r, left[r] - d - b)
      <4>1. GiveUp(r)
        BY <2>9, <3>3 DEF Retry
      <4> QED BY <4>1, <3>1, <2>9, GiveUpTyped DEF Retry, Unobserved, TypeOK
    <3> QED BY <3>2, <3>3
  <2>10. ASSUME phase[r] = "storing", entry' \in {completion[r], entry}
         PROVE  entry' \in Output \cup {NoEntry, OldEntry}
    BY <2>10 DEF TypeOK
  <2>11. CASE StoreEnds(r)
    BY <2>10, <2>11 DEF StoreEnds, TypeOK, Goto, Phases
  <2>12. CASE Cancel(r)
    <3>1. unobservable' \in [Requests -> Nat] /\ phase' \in [Requests -> Phases]
      BY <2>12 DEF Cancel, TypeOK, Goto, Phases
    <3>2. entry' \in Output \cup {NoEntry, OldEntry}
      BY <2>10, <2>12 DEF Cancel, TypeOK
    <3> QED BY <3>1, <3>2, <2>12 DEF Cancel, TypeOK
  <2> QED BY <1>3, <2>1, <2>2, <2>3, <2>4, <2>5, <2>6, <2>7, <2>8, <2>9, <2>11,
             <2>12 DEF Step
<1> QED BY <1>1, <1>2, <1>3 DEF Next

\* Every reachable state is well typed.
THEOREM TypeCorrect == Spec => []TypeOK
  BY TypeInit, TypeStep, PTL DEF Spec

-----------------------------------------------------------------------------
(***************************************************************************)
(* Metering.                                                               *)
(***************************************************************************)

\* Started calls, receipts and unobservable attempts balance, in one request.
Metered(q) ==
  started[q] = receipts[q] + unobservable[q]
               + (IF phase[q] = "calling" THEN 1 ELSE 0)

\* Every step keeps the calls of every request metered.
LEMMA MeteredStep == TypeOK /\ EveryCallMetered /\ [Next]_vars => EveryCallMetered'
<1> SUFFICES ASSUME TypeOK, EveryCallMetered, [Next]_vars,
                    NEW q \in Requests
             PROVE  Metered(q)'
  BY DEF EveryCallMetered, Metered
<1>0. Metered(q)
  BY DEF EveryCallMetered, Metered
<1>1. CASE UNCHANGED vars
  BY <1>0, <1>1 DEF Metered, vars, meters
<1>2. CASE EntryExpires
  BY <1>0, <1>2 DEF Metered, EntryExpires, meters
<1>3. ASSUME NEW r \in Requests, Step(r) PROVE Metered(q)'
  <2> USE <1>0 DEF Metered, TypeOK, Goto, meters, progress
  <2>1. CASE LookupHits(r)
    BY <2>1 DEF LookupHits
  <2>2. CASE LookupMisses(r) \/ Authorized(r) \/ Denied(r) \/ OutOfBudget(r)
    BY <2>2 DEF LookupMisses, Authorized, Denied, OutOfBudget
  <2>3. CASE BeginAttempt(r)
    BY <2>3 DEF BeginAttempt
  <2>4. ASSUME NEW d \in 0 .. AdmissionWait, Admitted(r, d) PROVE Metered(q)'
    BY <2>4 DEF Admitted
  <2>5. CASE AdmissionExpires(r)
    BY <2>5 DEF AdmissionExpires, GiveUp
  <2>6. ASSUME NEW d \in 0 .. timeout[r], NEW text \in Texts,
               CallAnswers(r, d, text) \/ CallUnusable(r, d, text)
        PROVE  Metered(q)'
    BY <2>6 DEF CallAnswers, CallUnusable, Receipt, GiveUp
  <2>7. ASSUME NEW d \in 0 .. timeout[r], CallFails(r, d) PROVE Metered(q)'
    BY <2>7 DEF CallFails, Unobserved, GiveUp
  <2>8. ASSUME NEW d \in 0 .. timeout[r], NEW b \in Backoffs, Retry(r, d, b)
        PROVE  Metered(q)'
    BY <2>8 DEF Retry, Unobserved, GiveUp
  <2>9. CASE StoreEnds(r)
    BY <2>9 DEF StoreEnds
  <2>10. CASE Cancel(r)
    BY <2>10 DEF Cancel
  <2> QED BY <1>3, <2>1, <2>2, <2>3, <2>4, <2>5, <2>6, <2>7, <2>8, <2>9, <2>10
          DEF Step
<1> QED BY <1>1, <1>2, <1>3 DEF Next

\* Every provider call that was begun is metered exactly once: the balance is
\* inductive, since an attempt ends in one action, which meters it.
THEOREM MeteringExact == Spec => []EveryCallMetered
<1>1. ASSUME Init, NEW r \in Requests
      PROVE  Metered(r)
  <2>1. phase[r] # "calling"
    BY <1>1 DEF Init
  <2>2. started[r] = 0 /\ receipts[r] = 0 /\ unobservable[r] = 0
    BY <1>1 DEF Init
  <2> QED BY <2>1, <2>2 DEF Metered
<1>2. Init => EveryCallMetered
  BY <1>1 DEF EveryCallMetered, Metered
<1> QED BY <1>2, TypeCorrect, MeteredStep, PTL DEF Spec

-----------------------------------------------------------------------------
(***************************************************************************)
(* Items.                                                                  *)
(***************************************************************************)

\* What makes ItemCountedOnce inductive: item_recorded is set by the first
\* receipt, a request that looks up has none, and one that stores has one.
ItemAt(q) ==
  /\ recorded[q] <=> receipts[q] > 0
  /\ phase[q] = "lookup" => receipts[q] = 0
  /\ phase[q] = "storing" => receipts[q] > 0
  /\ items[q] = IF known /\ (receipts[q] > 0 \/ phase[q] = "answered")
                THEN 1 ELSE 0
ItemInv == \A q \in Requests : ItemAt(q)

\* Every step keeps the items of every request counted once.
LEMMA ItemStep == TypeOK /\ ItemInv /\ [Next]_vars => ItemInv'
<1> SUFFICES ASSUME TypeOK, ItemInv, [Next]_vars,
                    NEW q \in Requests
             PROVE  ItemAt(q)'
  BY DEF ItemInv
<1>0. ItemAt(q)
  BY DEF ItemInv
<1>1. CASE UNCHANGED vars
  BY <1>0, <1>1 DEF ItemAt, vars, meters, request
<1>2. CASE EntryExpires
  BY <1>0, <1>2 DEF ItemAt, EntryExpires, meters, request
<1>3. ASSUME NEW r \in Requests, Step(r) PROVE ItemAt(q)'
  <2> USE <1>0 DEF ItemAt, TypeOK, Goto, meters, progress, request
  <2>1. CASE LookupHits(r)
    BY <2>1 DEF LookupHits
  <2>2. CASE LookupMisses(r) \/ Authorized(r) \/ Denied(r) \/ OutOfBudget(r)
    BY <2>2 DEF LookupMisses, Authorized, Denied, OutOfBudget
  <2>3. CASE BeginAttempt(r)
    BY <2>3 DEF BeginAttempt
  <2>4. ASSUME NEW d \in 0 .. AdmissionWait, Admitted(r, d) PROVE ItemAt(q)'
    BY <2>4 DEF Admitted
  <2>5. CASE AdmissionExpires(r)
    BY <2>5 DEF AdmissionExpires, GiveUp
  <2>6. ASSUME NEW d \in 0 .. timeout[r], NEW text \in Texts,
               CallAnswers(r, d, text) \/ CallUnusable(r, d, text)
        PROVE  ItemAt(q)'
    BY <2>6 DEF CallAnswers, CallUnusable, Receipt, GiveUp
  <2>7. ASSUME NEW d \in 0 .. timeout[r], CallFails(r, d) PROVE ItemAt(q)'
    BY <2>7 DEF CallFails, Unobserved, GiveUp
  <2>8. ASSUME NEW d \in 0 .. timeout[r], NEW b \in Backoffs, Retry(r, d, b)
        PROVE  ItemAt(q)'
    BY <2>8 DEF Retry, Unobserved, GiveUp
  <2>9. CASE StoreEnds(r)
    BY <2>9 DEF StoreEnds
  <2>10. CASE Cancel(r)
    BY <2>10 DEF Cancel
  <2> QED BY <1>3, <2>1, <2>2, <2>3, <2>4, <2>5, <2>6, <2>7, <2>8, <2>9, <2>10
          DEF Step
<1> QED BY <1>1, <1>2, <1>3 DEF Next

\* A counted request counts one item over all the receipts it is charged.
THEOREM ItemsExact == Spec => []ItemCountedOnce
<1>1. Init => ItemInv
  BY DEF Init, ItemInv, ItemAt
<1>2. ItemInv => ItemCountedOnce
  BY DEF ItemInv, ItemAt, ItemCountedOnce
<1> QED BY <1>1, <1>2, TypeCorrect, ItemStep, PTL DEF Spec

-----------------------------------------------------------------------------
(***************************************************************************)
(* The budget.                                                             *)
(***************************************************************************)

\* What makes WithinBudget inductive: the timeout of an attempt is what is left
\* when it begins, at least MinBudget, so a call can overrun by no more than
\* its admission wait.
BudgetAt(q) ==
  /\ left[q] >= 0 - AdmissionWait
  /\ phase[q] = "backoff" => left[q] >= MinBudget
  /\ phase[q] = "admission" => left[q] = timeout[q] /\ left[q] >= MinBudget
  /\ phase[q] = "calling" => left[q] >= timeout[q] - AdmissionWait
BudgetInv == \A q \in Requests : BudgetAt(q)

\* Every step keeps every request within its budget.
LEMMA BudgetStep == TypeOK /\ BudgetInv /\ [Next]_vars => BudgetInv'
<1> SUFFICES ASSUME TypeOK, BudgetInv, [Next]_vars,
                    NEW q \in Requests
             PROVE  BudgetAt(q)'
  BY DEF BudgetInv
<1>0. BudgetAt(q)
  BY DEF BudgetInv
<1>1. CASE UNCHANGED vars
  BY <1>0, <1>1 DEF BudgetAt, vars, progress
<1>2. CASE EntryExpires
  BY <1>0, <1>2 DEF BudgetAt, EntryExpires, progress
<1>3. ASSUME NEW r \in Requests, Step(r) PROVE BudgetAt(q)'
  <2> USE <1>0, RequestAssumption DEF BudgetAt, TypeOK, Goto, progress
  <2>1. CASE LookupHits(r)
    BY <2>1 DEF LookupHits
  <2>2. CASE LookupMisses(r) \/ Authorized(r) \/ Denied(r) \/ OutOfBudget(r)
    BY <2>2 DEF LookupMisses, Authorized, Denied, OutOfBudget
  <2>3. CASE BeginAttempt(r)
    BY <2>3 DEF BeginAttempt
  <2>4. ASSUME NEW d \in 0 .. AdmissionWait, Admitted(r, d) PROVE BudgetAt(q)'
    BY <2>4 DEF Admitted
  <2>5. CASE AdmissionExpires(r)
    BY <2>5 DEF AdmissionExpires, GiveUp
  <2>6. ASSUME NEW d \in 0 .. timeout[r], NEW text \in Texts,
               CallAnswers(r, d, text) \/ CallUnusable(r, d, text)
        PROVE  BudgetAt(q)'
    BY <2>6 DEF CallAnswers, CallUnusable, GiveUp
  <2>7. ASSUME NEW d \in 0 .. timeout[r], CallFails(r, d) PROVE BudgetAt(q)'
    BY <2>7 DEF CallFails, Unobserved, GiveUp
  <2>8. ASSUME NEW d \in 0 .. timeout[r], NEW b \in Backoffs, Retry(r, d, b)
        PROVE  BudgetAt(q)'
    BY <2>8 DEF Retry, Fits, Unobserved, GiveUp
  <2>9. CASE StoreEnds(r)
    BY <2>9 DEF StoreEnds
  <2>10. CASE Cancel(r)
    BY <2>10 DEF Cancel
  <2> QED BY <1>3, <2>1, <2>2, <2>3, <2>4, <2>5, <2>6, <2>7, <2>8, <2>9, <2>10
          DEF Step
<1> QED BY <1>1, <1>2, <1>3 DEF Next

\* Attempts, sleeps and fallbacks share one budget.
THEOREM BudgetShared == Spec => []WithinBudget
<1>1. Init => BudgetInv
  BY RequestAssumption DEF Init, BudgetInv, BudgetAt
<1>2. BudgetInv => WithinBudget
  BY DEF BudgetInv, BudgetAt, WithinBudget
<1> QED BY <1>1, <1>2, TypeCorrect, BudgetStep, PTL DEF Spec

-----------------------------------------------------------------------------
(***************************************************************************)
(* Answers and the cache.                                                  *)
(***************************************************************************)

\* What makes AnswersUsable and CacheClean inductive together: a text that is
\* about to be stored is usable and comes from the head of the chain.
TextAt(q) ==
  /\ phase[q] \in {"storing", "answered"} => Usable(completion[q].text)
  /\ phase[q] = "storing" => completion[q].from = 1
TextInv == CacheClean /\ \A q \in Requests : TextAt(q)

\* Every step keeps the cache clean and every answer usable.
LEMMA TextStep == TypeOK /\ TextInv /\ [Next]_vars => TextInv'
<1> SUFFICES ASSUME TypeOK, TextInv, [Next]_vars PROVE TextInv'
  OBVIOUS
<1> USE DEF TextAt, CacheClean, Usable, request, progress
<1>1. CASE UNCHANGED vars
  BY <1>1 DEF TextInv, vars
<1>2. CASE EntryExpires
  BY <1>2 DEF TextInv, EntryExpires
<1>3. ASSUME NEW r \in Requests, Step(r) PROVE TextInv'
  <2>1. CacheClean'
    <3>1. CASE UNCHANGED <<entry, validated>>
      BY <3>1 DEF TextInv
    <3>2. CASE /\ phase[r] = "storing"
               /\ entry' \in {completion[r], entry}
               /\ UNCHANGED validated
      BY <3>2 DEF TextInv
    <3> QED BY <1>3, <3>1, <3>2
            DEF Step, LookupHits, LookupMisses, Authorized, Denied, OutOfBudget,
                BeginAttempt, Admitted, AdmissionExpires, CallAnswers,
                CallUnusable, CallFails, Unobserved, Retry, StoreEnds, Cancel
  <2>2. ASSUME NEW q \in Requests PROVE TextAt(q)'
    <3>0. TextAt(q)
      BY DEF TextInv
    <3> USE <3>0 DEF TypeOK, Goto
    <3>1. CASE LookupHits(r)
      <4>1. Usable(entry.text)
        BY <3>1 DEF LookupHits, Hits, TextInv, OldEntry
      <4> QED BY <3>1, <4>1 DEF LookupHits
    <3>2. CASE LookupMisses(r) \/ Authorized(r) \/ Denied(r) \/ OutOfBudget(r)
      BY <3>2 DEF LookupMisses, Authorized, Denied, OutOfBudget
    <3>3. CASE BeginAttempt(r)
      BY <3>3 DEF BeginAttempt
    <3>4. ASSUME NEW d \in 0 .. AdmissionWait, Admitted(r, d) PROVE TextAt(q)'
      BY <3>4 DEF Admitted
    <3>5. CASE AdmissionExpires(r)
      BY <3>5 DEF AdmissionExpires, GiveUp
    <3>6. ASSUME NEW d \in 0 .. timeout[r], NEW text \in Texts,
                 CallAnswers(r, d, text)
          PROVE  TextAt(q)'
      BY <3>6 DEF CallAnswers, Stores
    <3>7. ASSUME NEW d \in 0 .. timeout[r], NEW text \in Texts,
                 CallUnusable(r, d, text)
          PROVE  TextAt(q)'
      BY <3>7 DEF CallUnusable, GiveUp
    <3>8. ASSUME NEW d \in 0 .. timeout[r], CallFails(r, d) PROVE TextAt(q)'
      BY <3>8 DEF CallFails, Unobserved, GiveUp
    <3>9. ASSUME NEW d \in 0 .. timeout[r], NEW b \in Backoffs, Retry(r, d, b)
          PROVE  TextAt(q)'
      BY <3>9 DEF Retry, Unobserved, GiveUp
    <3>10. CASE StoreEnds(r)
      BY <3>10 DEF StoreEnds
    <3>11. CASE Cancel(r)
      BY <3>11 DEF Cancel
    <3> QED BY <1>3, <3>1, <3>2, <3>3, <3>4, <3>5, <3>6, <3>7, <3>8, <3>9,
               <3>10, <3>11
            DEF Step
  <2> QED BY <2>1, <2>2 DEF TextInv
<1> QED BY <1>1, <1>2, <1>3 DEF Next

\* The invariant holds in every reachable state.
LEMMA TextHolds == Spec => []TextInv
<1>1. Init => TextInv
  BY DEF Init, TextInv, TextAt, CacheClean
<1> QED BY <1>1, TypeCorrect, TextStep, PTL DEF Spec

\* No answer is unusable, whoever wrote the entry it came from.
THEOREM AnswersAreUsable == Spec => []AnswersUsable
<1>1. TextInv => AnswersUsable
  BY DEF TextInv, TextAt, AnswersUsable
<1> QED BY <1>1, TextHolds, PTL

\* No text of a fallback, and none that was refused, is ever in the cache.
THEOREM CacheIsClean == Spec => []CacheClean
<1>1. TextInv => CacheClean
  BY DEF TextInv
<1> QED BY <1>1, TextHolds, PTL

-----------------------------------------------------------------------------
(***************************************************************************)
(* NewsSlide, for any number of concurrent requests, orders of formats and *)
(* switches of the view.                                                   *)
(***************************************************************************)

\* What a request carries from one CMS call to the next is of its view: the
\* vector it searches by, the slide it has made, and every cache entry.
Pinned ==
  /\ \A v \in Views : slides[v] # NoSlide => slides[v].view = v
  /\ \A r \in Readers : reader[r] = "searching" => anchor[r] = view[r]
  /\ \A r \in Readers : reader[r] \in {"storing", "answered"} =>
       slide[r] \in Slides /\ slide[r].view = view[r]

Readings == {"start", "lookup", "resolving", "searching", "storing",
           "answered", "not_found", "error"}

\* The inductive invariant: types, and views that match.
SlideInv == SlideTypeOK /\ Pinned

\* At the start nothing is cached and no request has begun.
LEMMA SlideInvInit == SlideInit => SlideInv
  BY ViewAssumption DEF SlideInit, SlideInv, SlideTypeOK, Pinned, Views

\* A request that ends up in another phase than those Pinned speaks of, and
\* changes nothing else, keeps the invariant.
LEMMA ReaderMoves ==
  ASSUME SlideInv, NEW r \in Readers, NEW to \in Readings,
         to \notin {"searching", "storing", "answered"},
         Go(r, to), UNCHANGED <<head, slides, order, view, anchor, slide>>
  PROVE  SlideInv'
  BY DEF SlideInv, SlideTypeOK, Pinned, Go, Readings

\* Every step keeps the invariant.
LEMMA SlideInvStep == SlideInv /\ [SlideNext]_nvars => SlideInv'
<1> SUFFICES ASSUME SlideInv, [SlideNext]_nvars PROVE SlideInv'
  OBVIOUS
<1>1. CASE UNCHANGED nvars
  BY <1>1 DEF SlideInv, SlideTypeOK, Pinned, nvars
<1>2. CASE SwitchView
  BY <1>2, ViewAssumption DEF SlideInv, SlideTypeOK, Pinned, SwitchView, Views
<1>3. CASE SlideExpires
  BY <1>3 DEF SlideInv, SlideTypeOK, Pinned, SlideExpires
<1>4. ASSUME NEW r \in Readers, Serve(r) PROVE SlideInv'
  <2>1. CASE ReadAnchor(r)
    BY <2>1 DEF SlideInv, SlideTypeOK, Pinned, ReadAnchor, Go
  <2>2. CASE Hit(r)
    BY <2>2 DEF SlideInv, SlideTypeOK, Pinned, Hit, Go
  <2>3. CASE Miss(r)
    BY <2>3, ReaderMoves DEF Miss, Readings
  <2>4. ASSUME NEW v \in Views, Resolve(r, v) PROVE SlideInv'
    BY <2>4 DEF SlideInv, SlideTypeOK, Pinned, Resolve, SameView, Go
  <2>5. CASE ViewMoved(r)
    BY <2>5, ReaderMoves DEF ViewMoved, Readings
  <2>6. CASE Assemble(r)
    BY <2>6 DEF SlideInv, SlideTypeOK, Pinned, Assemble, Go, Slides
  <2>7. CASE Store(r)
    BY <2>7 DEF SlideInv, SlideTypeOK, Pinned, Store, Go
  <2>8. CASE Fail(r)
    BY <2>8, ReaderMoves DEF Fail, Readings
  <2>9. CASE Renew(r)
    BY <2>9 DEF SlideInv, SlideTypeOK, Pinned, Renew, Go
  <2> QED BY <1>4, <2>1, <2>2, <2>3, <2>4, <2>5, <2>6, <2>7, <2>8, <2>9
          DEF Serve
<1> QED BY <1>1, <1>2, <1>3, <1>4 DEF SlideNext

\* Every reachable state is well typed, for any number of requests and views.
THEOREM SlideTypeCorrect == SlideSpec => []SlideTypeOK
<1>1. SlideInit => SlideInv
  BY SlideInvInit
<1>2. SlideInv /\ [SlideNext]_nvars => SlideInv'
  BY SlideInvStep
<1>3. SlideInv => SlideTypeOK
  BY DEF SlideInv
<1> QED BY <1>1, <1>2, <1>3, PTL DEF SlideSpec

\* However often the CMS switches its view between the calls of a request, the
\* slide it answers is of the view its anchor was in at the start.
THEOREM SlidesOfOneView == SlideSpec => []SlideOfOneView
<1>1. SlideInit => SlideInv
  BY SlideInvInit
<1>2. SlideInv /\ [SlideNext]_nvars => SlideInv'
  BY SlideInvStep
<1>3. SlideInv => SlideOfOneView
  BY DEF SlideInv, Pinned, SlideOfOneView
<1> QED BY <1>1, <1>2, <1>3, PTL DEF SlideSpec

-----------------------------------------------------------------------------
(***************************************************************************)
(* RelatedSearch, for any contents, hits, formats, scores and caps.        *)
(***************************************************************************)

Sources == {Source[c] : c \in Contents} \cup {NoSource}
Results == [id : Contents, score : Int, scored : BOOLEAN, source : Sources]

Distinct(list) == \A i, j \in DOMAIN list : list[i].id = list[j].id => i = j
Lists == {list \in Seq(Results) : Distinct(list)}
BestFirst(list) == \A i, j \in DOMAIN list : i < j => Better(list[i], list[j])

\* The first items of a list.
LEMMA TakeLine ==
  ASSUME NEW S, NEW list \in Seq(S), NEW n \in Nat
  PROVE  /\ Take(list, n) \in Seq(S)
         /\ Len(Take(list, n)) = IF Len(list) < n THEN Len(list) ELSE n
         /\ \A i \in DOMAIN Take(list, n) : i \in DOMAIN list /\ Take(list, n)[i] = list[i]
<1>. DEFINE m == IF Len(list) < n THEN Len(list) ELSE n
<1>1. /\ 1 \in 1 .. Len(list) + 1 /\ m \in 1 - 1 .. Len(list) /\ m \in Nat
      /\ \A i \in 1 .. m : i \in 1 .. Len(list) /\ list[i] \in S
  BY LenProperties, ElementOfSeq
<1>2. /\ Take(list, n) \in Seq(S) /\ Len(Take(list, n)) = m
      /\ \A i \in 1 .. m : Take(list, n)[i] = list[i]
  <2>1. Take(list, n) = SubSeq(list, 1, m)
    BY DEF Take
  <2>. HIDE DEF m
  <2>2. /\ SubSeq(list, 1, m) \in Seq(S) /\ Len(SubSeq(list, 1, m)) = m
        /\ \A i \in 1 .. m : SubSeq(list, 1, m)[i] = list[i]
    <3>1. Len(SubSeq(list, 1, m)) = IF 1 <= m THEN m - 1 + 1 ELSE 0
      BY <1>1, SubSeqProperties
    <3>2. SubSeq(list, 1, m) \in Seq(S)
      BY <1>1, SubSeqProperties
    <3>3. \A i \in 1 .. m - 1 + 1 : SubSeq(list, 1, m)[i] = list[1 + i - 1]
      BY <1>1, SubSeqProperties
    <3>. QED  BY <1>1, <3>1, <3>2, <3>3
  <2>. QED  BY <2>1, <2>2
<1>. QED  BY <1>1, <1>2

LEMMA TakeList ==
  ASSUME NEW list \in Lists, NEW n \in Nat
  PROVE  Take(list, n) \in Lists
BY TakeLine DEF Lists, Distinct

\* The hits that have an id, each id once.
LEMMA DenseLine ==
  ASSUME NEW hits \in HitLists
  PROVE  /\ DenseResults(hits) \in Lists
         /\ \A i \in DOMAIN DenseResults(hits) : ~DenseResults(hits)[i].scored
<1>. DEFINE P == {i \in DOMAIN hits :
                    hits[i] # 0 /\ \A j \in 1 .. i - 1 : hits[j] # hits[i]}
            ids == Picked(hits, P)
            size == Cardinality(P)
            found == [n \in DOMAIN ids |->
                        [id |-> ids[n], score |-> DenseScore, scored |-> FALSE,
                         source |-> IF hit_source THEN Source[ids[n]] ELSE NoSource]]
<1>1. hits \in Seq(Contents \cup {0}) /\ 0 \notin Contents /\ DenseScore \in Int
  BY SearchAssumption
<1>2. DOMAIN hits = 1 .. Len(hits) /\ Len(hits) \in Nat /\ P \in SUBSET (1 .. Len(hits))
  BY <1>1
<1>3. \A i \in P : hits[i] \in Contents
  BY <1>1
<1>4. \A i, j \in P : hits[i] = hits[j] => i = j
  <2>1. ASSUME NEW i \in P, NEW j \in P, hits[i] = hits[j]  PROVE  ~(i < j)
    <3>1. i < j => i \in 1 .. j - 1
      BY <1>2
    <3>. QED  BY <2>1, <3>1
  <2>2. \A i, j \in P : hits[i] = hits[j] => ~(i < j) /\ ~(j < i)
    BY <2>1
  <2>3. \A i \in P : i \in Int
    BY <1>2
  <2>. HIDE DEF P
  <2>. QED  BY <2>2, <2>3
<1>5. DenseResults(hits) = found
  BY DEF DenseResults
<1>. HIDE DEF P, found, ids
<1>17. PositionsIn(Contents \cup {0}, hits, P)
  BY <1>1, <1>2 DEF PositionsIn
<1>18. /\ Cardinality(P) \in Nat
       /\ Picked(hits, P) \in Seq(Contents \cup {0})
       /\ DOMAIN Picked(hits, P) = 1 .. Cardinality(P)
       /\ \E places \in [1 .. Cardinality(P) -> P] :
            /\ \A m \in 1 .. Cardinality(P) : Picked(hits, P)[m] = hits[places[m]]
            /\ \A i \in P : \E m \in 1 .. Cardinality(P) : places[m] = i
            /\ \A l, m \in 1 .. Cardinality(P) : l < m <=> places[l] < places[m]
  BY ONLY <1>17, PickedLine
<1>6. PICK places \in [1 .. size -> P] :
        /\ \A m \in 1 .. size : ids[m] = hits[places[m]]
        /\ \A i \in P : \E m \in 1 .. size : places[m] = i
        /\ \A l, m \in 1 .. size : l < m <=> places[l] < places[m]
  BY ONLY <1>18 DEF ids
<1>7. size \in Nat /\ DOMAIN ids = 1 .. size
  BY ONLY <1>18 DEF ids
<1>. HIDE DEF size
<1>8. \A n \in 1 .. size : ids[n] = hits[places[n]] /\ ids[n] \in Contents
  BY <1>3, <1>6
<1>9. \A m, n \in 1 .. size : ids[m] = ids[n] => m = n
  <2>1. ASSUME NEW m \in 1 .. size, NEW n \in 1 .. size, ids[m] = ids[n]  PROVE  m = n
    <3>1. places[m] = places[n]
      BY <1>4, <1>6, <1>8, <2>1
    <3>2. places[m] \in P /\ P \subseteq Int
      BY <1>2, <1>6
    <3>3. ~(m < n) /\ ~(n < m)
      BY <1>6, <3>1, <3>2
    <3>. QED  BY <3>3
  <2>. QED  BY <2>1
<1>10. \A n \in 1 .. size : (IF hit_source THEN Source[ids[n]] ELSE NoSource) \in Sources
  BY <1>8 DEF Sources
<1>11. found \in [1 .. size -> Results]
  BY <1>1, <1>7, <1>8, <1>10 DEF Results, found
<1>12. \A n \in 1 .. size : found[n].id = ids[n] /\ ~found[n].scored
  BY <1>7 DEF found
<1>13. DOMAIN found = 1 .. size
  BY <1>7 DEF found
<1>14. Distinct(found)
  BY <1>9, <1>12, <1>13 DEF Distinct
<1>16. found \in Seq(Results)
  BY <1>7, <1>11
<1>. QED  BY <1>5, <1>12, <1>13, <1>14, <1>16 DEF Lists

\* Sorted by score, a list holds the same items, the best one first.
LEMMA ByScoreLine ==
  ASSUME NEW list \in Lists
  PROVE  /\ ByScore(list) \in Lists
         /\ ToSet(ByScore(list)) = ToSet(list)
         /\ BestFirst(ByScore(list))
<1>. DEFINE S == ToSet(list)
            before == [c \in S |-> {b \in S : Better(b, c)}]
            best == ByScore(list)
            size == Cardinality(S)
<1>1. list \in Seq(Results) /\ Distinct(list)
  BY DEF Lists
<1>2. S = {list[i] : i \in DOMAIN list} /\ DOMAIN list = 1 .. Len(list) /\ Len(list) \in Nat
  BY <1>1 DEF ToSet
<1>3. \A c \in S : c \in Results /\ c.id \in Int /\ c.score \in Int
  <2>1. \A c \in S : c \in Results
    BY <1>1, <1>2
  <2>2. \A c \in Results : c.id \in Contents /\ c.score \in Int
    BY DEF Results
  <2>3. \A c \in Contents : c \in Int
    BY SearchAssumption
  <2>. QED  BY <2>1, <2>2, <2>3
<1>4. \A b, c \in S : b.id = c.id => b = c
  BY <1>1, <1>2 DEF Distinct
<1>5. IsFiniteSet(S)
  <2>1. IsFiniteSet(DOMAIN list)
    BY <1>2, FS_Interval
  <2>2. list \in Surjection(DOMAIN list, S)
    BY <1>1, <1>2 DEF Surjection
  <2>. QED  BY <2>1, <2>2, FS_Surjection
<1>6. best = Ordered(before)
  BY DEF ByScore
<1>7. before \in [S -> SUBSET S] /\ \A b, c \in S : b \in before[c] <=> Better(b, c)
  OBVIOUS
<1>. HIDE DEF S, before
<1>8. OrderOn(S, before)
  <2>1. \A c \in S : c \notin before[c]
    BY <1>3, <1>7 DEF Better
  <2>2. ASSUME NEW a \in S, NEW b \in S, NEW c \in S, Better(a, b), Better(b, c)
        PROVE  Better(a, c)
    BY <1>3, <2>2 DEF Better
  <2>3. \A b, c \in S : b \in before[c] => before[b] \subseteq before[c]
    BY <1>7, <2>2
  <2>4. \A b, c \in S : b # c => b \in before[c] \/ c \in before[b]
    <3>1. ASSUME NEW b \in S, NEW c \in S, b # c  PROVE  Better(b, c) \/ Better(c, b)
      BY <1>3, <1>4, <3>1 DEF Better
    <3>. QED  BY <1>7, <3>1
  <2>. QED  BY <1>5, <1>7, <2>1, <2>3, <2>4 DEF OrderOn
<1>. HIDE DEF best
<1>9. /\ size \in Nat
      /\ best \in [1 .. size -> S]
      /\ \A c \in S : \E n \in 1 .. size : best[n] = c
      /\ \A m, n \in 1 .. size : m < n <=> best[m] \in before[best[n]]
  BY <1>6, <1>8, OrderedLine
<1>. HIDE DEF size
<1>10. best \in Seq(Results) /\ DOMAIN best = 1 .. size
  <2>1. best \in [1 .. size -> Results]
    BY <1>3, <1>9
  <2>. QED  BY <1>9, <2>1
<1>11. BestFirst(best)
  BY <1>7, <1>9, <1>10 DEF BestFirst
<1>12. Distinct(best)
  <2>1. ASSUME NEW m \in 1 .. size, NEW n \in 1 .. size, best[m].id = best[n].id
        PROVE  m = n
    <3>1. best[m] \in S /\ best[m] = best[n]
      BY <1>4, <1>9, <2>1
    <3>2. best[m] \notin before[best[m]]
      BY <1>8, <3>1 DEF OrderOn
    <3>3. ~(m < n) /\ ~(n < m)
      BY <1>9, <3>1, <3>2
    <3>. QED  BY <3>3
  <2>. QED  BY <1>10, <2>1 DEF Distinct
<1>13. ToSet(best) = S
  BY <1>9, <1>10 DEF ToSet
<1>. QED  BY <1>10, <1>11, <1>12, <1>13 DEF Lists, best, S

\* Some of the items of a list, in their order.
LEMMA PickedList ==
  ASSUME NEW list \in Lists, NEW P \in SUBSET DOMAIN list
  PROVE  /\ Picked(list, P) \in Lists
         /\ \E places \in [DOMAIN Picked(list, P) -> P] :
              /\ \A m \in DOMAIN Picked(list, P) : Picked(list, P)[m] = list[places[m]]
              /\ \A i \in P : \E m \in DOMAIN Picked(list, P) : places[m] = i
              /\ \A l, m \in DOMAIN Picked(list, P) : l < m <=> places[l] < places[m]
<1>. DEFINE picked == Picked(list, P)
            size == Cardinality(P)
<1>1. list \in Seq(Results) /\ Distinct(list)
  BY DEF Lists
<1>2. PositionsIn(Results, list, P)
  BY <1>1 DEF PositionsIn
<1>3. /\ size \in Nat /\ picked \in Seq(Results) /\ DOMAIN picked = 1 .. size
      /\ \E places \in [1 .. size -> P] :
           /\ \A m \in 1 .. size : picked[m] = list[places[m]]
           /\ \A i \in P : \E m \in 1 .. size : places[m] = i
           /\ \A l, m \in 1 .. size : l < m <=> places[l] < places[m]
  BY <1>2, PickedLine
<1>. HIDE DEF picked, size
<1>4. PICK places \in [1 .. size -> P] :
        /\ \A m \in 1 .. size : picked[m] = list[places[m]]
        /\ \A i \in P : \E m \in 1 .. size : places[m] = i
        /\ \A l, m \in 1 .. size : l < m <=> places[l] < places[m]
  BY <1>3
<1>5. ASSUME NEW m \in 1 .. size, NEW n \in 1 .. size, picked[m].id = picked[n].id
      PROVE  m = n
  <2>1. places[m] \in DOMAIN list /\ places[n] \in DOMAIN list
    BY <1>4
  <2>2. places[m] = places[n]
    BY <1>1, <1>4, <1>5, <2>1 DEF Distinct
  <2>3. places[m] \in Int
    BY <1>1, <2>1
  <2>4. ~(m < n) /\ ~(n < m)
    BY <1>4, <2>2, <2>3
  <2>. QED  BY <2>4
<1>6. picked \in Lists
  BY <1>3, <1>5 DEF Distinct, Lists
<1>. QED  BY <1>3, <1>4, <1>6 DEF picked

\* Lists of the same contents are as long as each other.
LEMMA SameLength ==
  ASSUME NEW a \in Lists, NEW b \in Lists, Ids(a) = Ids(b)
  PROVE  Len(a) = Len(b)
<1>1. ASSUME NEW list \in Lists  PROVE  Cardinality(Ids(list)) = Len(list)
  <2>. DEFINE ids == [i \in 1 .. Len(list) |-> list[i].id]
  <2>1. list \in Seq(Results) /\ DOMAIN list = 1 .. Len(list) /\ Len(list) \in Nat
    BY <1>1 DEF Lists
  <2>2. \A i \in 1 .. Len(list) : list[i].id \in Contents
    <3>1. \A i \in 1 .. Len(list) : list[i] \in Results
      BY <2>1
    <3>. QED  BY <3>1 DEF Results
  <2>3. ids \in Seq(Contents) /\ Len(ids) = Len(list)
    BY <2>1, <2>2
  <2>4. Injective(ids)
    BY <1>1, <2>1 DEF Injective, Lists, Distinct
  <2>5. Members(ids) = Ids(list)
    BY <2>1 DEF Members, Ids
  <2>. QED  BY <2>3, <2>4, <2>5, LengthOfInjective
<1>. QED  BY <1>1

\* A list that reorders the candidates, those with a score first.
Reorders(list) ==
  /\ Ids(list) = Ids(candidates) /\ Len(list) = Len(candidates)
  /\ \A i, j \in DOMAIN list : i < j =>
       /\ list[j].scored => list[i].scored /\ Better(list[i], list[j])
       /\ ~list[i].scored => Precedes(candidates, list[i].id, list[j].id)

\* The scored candidates: some of them, each with a score.
LEMMA ScoredLine ==
  ASSUME NEW scores \in Seq(Scores), candidates \in Lists
  PROVE  /\ Scored(scores) \in Lists
         /\ Ids(Scored(scores)) \subseteq Ids(candidates)
         /\ \A i \in DOMAIN Scored(scores) : Scored(scores)[i].scored
<1>. DEFINE P == {i \in DOMAIN candidates : candidates[i].id \in texts}
            pairs == Picked(candidates, P)
            count == IF Len(scores) < Len(pairs) THEN Len(scores) ELSE Len(pairs)
            found == [i \in 1 .. count |->
                        [pairs[i] EXCEPT !.score = scores[i], !.scored = TRUE,
                                         !.source = Source[pairs[i].id]]]
<1>1. Scored(scores) = found
  BY DEF Scored
<1>2. P \in SUBSET DOMAIN candidates
  OBVIOUS
<1>. HIDE DEF P
<1>3. /\ pairs \in Lists
      /\ \E places \in [DOMAIN pairs -> P] : \A m \in DOMAIN pairs : pairs[m] = candidates[places[m]]
  BY <1>2, PickedList
<1>. HIDE DEF pairs
<1>4. /\ pairs \in Seq(Results) /\ Distinct(pairs) /\ Len(pairs) \in Nat
      /\ DOMAIN pairs = 1 .. Len(pairs)
      /\ candidates \in Seq(Results)
  BY <1>3 DEF Lists
<1>5. Len(scores) \in Nat /\ \A i \in 1 .. Len(scores) : scores[i] \in Int
  <2>1. \A x \in Scores : x \in Int
    BY SearchAssumption
  <2>2. \A i \in 1 .. Len(scores) : scores[i] \in Scores
    OBVIOUS
  <2>. QED  BY <2>1, <2>2
<1>6. /\ count \in Nat
      /\ \A i \in 1 .. count : i \in 1 .. Len(pairs) /\ i \in 1 .. Len(scores)
  BY <1>4, <1>5
<1>. HIDE DEF count
<1>7. ASSUME NEW i \in 1 .. count
      PROVE  found[i] \in Results /\ found[i].id = pairs[i].id /\ found[i].scored
  <2>1. pairs[i] \in Results /\ scores[i] \in Int
    BY <1>4, <1>5, <1>6
  <2>2. Source[pairs[i].id] \in Sources
    BY <2>1 DEF Results, Sources
  <2>3. found[i] = [pairs[i] EXCEPT !.score = scores[i], !.scored = TRUE,
                                    !.source = Source[pairs[i].id]]
    OBVIOUS
  <2>. HIDE DEF found
  <2>. QED  BY <2>1, <2>2, <2>3 DEF Results
<1>8. DOMAIN found = 1 .. count
  OBVIOUS
<1>9. found \in Seq(Results)
  <2>1. found \in [1 .. count -> Results]
    BY <1>7
  <2>. HIDE DEF found
  <2>. QED  BY <1>6, <2>1
<1>. HIDE DEF found
<1>10. Distinct(found)
  BY <1>4, <1>6, <1>7, <1>8 DEF Distinct
<1>11. Ids(found) \subseteq Ids(candidates)
  <2>1. ASSUME NEW i \in 1 .. count  PROVE  found[i].id \in Ids(candidates)
    <3>1. PICK j \in P : pairs[i] = candidates[j]
      BY <1>3, <1>4, <1>6
    <3>2. found[i].id = candidates[j].id /\ j \in DOMAIN candidates
      BY <1>2, <1>7, <3>1
    <3>. QED  BY <3>2 DEF Ids
  <2>. QED  BY <1>8, <2>1 DEF Ids
<1>. QED  BY <1>1, <1>7, <1>8, <1>9, <1>10, <1>11 DEF Lists

\* Merging the scored candidates with the others only reorders.
LEMMA MergeLine ==
  ASSUME NEW scores \in Seq(Scores), candidates \in Lists,
         \A i \in DOMAIN candidates : ~candidates[i].scored
  PROVE  Merge(Scored(scores)) \in Lists /\ Reorders(Merge(Scored(scores)))
<1>. DEFINE S == Scored(scores)
            best == ByScore(S)
            Q == {i \in DOMAIN candidates : candidates[i].id \notin Ids(S)}
            rest == Picked(candidates, Q)
            all == Merge(S)
<1>1. /\ S \in Lists /\ Ids(S) \subseteq Ids(candidates)
      /\ \A i \in DOMAIN S : S[i].scored
  BY ScoredLine
<1>. HIDE DEF S
<1>2. best \in Lists /\ ToSet(best) = ToSet(S) /\ BestFirst(best)
  BY <1>1, ByScoreLine
<1>3. all = best \o rest
  BY DEF Merge
<1>. HIDE DEF best, all
<1>4. PICK places \in [DOMAIN rest -> Q] :
        /\ \A m \in DOMAIN rest : rest[m] = candidates[places[m]]
        /\ \A i \in Q : \E m \in DOMAIN rest : places[m] = i
        /\ \A l, m \in DOMAIN rest : l < m <=> places[l] < places[m]
  BY PickedList
<1>5. rest \in Lists
  BY PickedList
<1>. HIDE DEF rest
<1>6. Ids(best) = Ids(S) /\ \A i \in DOMAIN best : best[i].scored
  <2>1. \A i \in DOMAIN best : \E j \in DOMAIN S : best[i] = S[j]
    BY <1>2 DEF ToSet
  <2>2. \A j \in DOMAIN S : \E i \in DOMAIN best : best[i] = S[j]
    BY <1>2 DEF ToSet
  <2>. QED  BY <1>1, <2>1, <2>2 DEF Ids
<1>7. Ids(rest) = Ids(candidates) \ Ids(S)
  <2>1. Ids(candidates) \ Ids(S) = {candidates[i].id : i \in Q}
    BY DEF Ids
  <2>. QED  BY <1>4, <2>1 DEF Ids
<1>8. \A m \in DOMAIN rest : ~rest[m].scored
  BY <1>4
<1>9. /\ best \in Seq(Results) /\ rest \in Seq(Results)
      /\ Len(best) \in Nat /\ Len(rest) \in Nat
      /\ DOMAIN best = 1 .. Len(best) /\ DOMAIN rest = 1 .. Len(rest)
  BY <1>2, <1>5 DEF Lists
<1>10. /\ all \in Seq(Results) /\ DOMAIN all = 1 .. Len(best) + Len(rest)
       /\ \A i \in DOMAIN all :
            all[i] = IF i <= Len(best) THEN best[i] ELSE rest[i - Len(best)]
  BY <1>3, <1>9
<1>11. ASSUME NEW i \in DOMAIN all
       PROVE  \/ i \in DOMAIN best /\ all[i] = best[i]
              \/ i - Len(best) \in DOMAIN rest /\ all[i] = rest[i - Len(best)] /\ ~(i \in DOMAIN best)
  BY <1>9, <1>10
<1>12. Ids(all) = Ids(candidates)
  <2>1. \A i \in DOMAIN best : i \in DOMAIN all /\ all[i] = best[i]
    BY <1>9, <1>10
  <2>2. \A m \in DOMAIN rest : m + Len(best) \in DOMAIN all /\ all[m + Len(best)] = rest[m]
    BY <1>9, <1>10
  <2>3. Ids(all) = Ids(best) \cup Ids(rest)
    BY <1>11, <2>1, <2>2 DEF Ids
  <2>. QED  BY <1>1, <1>6, <1>7, <2>3
<1>13. ASSUME NEW i \in DOMAIN all, NEW j \in DOMAIN all, all[i].id = all[j].id  PROVE  i = j
  <2>1. \A m \in DOMAIN best : best[m].id \in Ids(S)
    BY <1>6 DEF Ids
  <2>2. \A m \in DOMAIN rest : rest[m].id \notin Ids(S)
    BY <1>7 DEF Ids
  <2>3. CASE i \in DOMAIN best /\ j \in DOMAIN best
    BY <1>2, <1>11, <1>13, <2>3 DEF Lists, Distinct
  <2>4. CASE i \notin DOMAIN best /\ j \notin DOMAIN best
    <3>1. i - Len(best) = j - Len(best)
      BY <1>5, <1>11, <1>13, <2>4 DEF Lists, Distinct
    <3>. QED  BY <1>9, <1>10, <3>1
  <2>. QED  BY <1>11, <1>13, <2>1, <2>2, <2>3, <2>4
<1>14. all \in Lists
  BY <1>10, <1>13 DEF Lists, Distinct
<1>15. Len(all) = Len(candidates)
  BY <1>12, <1>14, SameLength
<1>16. ASSUME NEW i \in DOMAIN all, NEW j \in DOMAIN all, i < j
       PROVE  /\ all[j].scored => all[i].scored /\ Better(all[i], all[j])
              /\ ~all[i].scored => Precedes(candidates, all[i].id, all[j].id)
  <2>1. CASE j \in DOMAIN best
    <3>1. i \in DOMAIN best
      BY <1>9, <1>10, <1>16, <2>1
    <3>2. all[i] = best[i] /\ all[j] = best[j]
      BY <1>9, <1>11, <2>1, <3>1
    <3>. QED  BY <1>2, <1>6, <1>16, <2>1, <3>1, <3>2 DEF BestFirst
  <2>2. CASE j \notin DOMAIN best
    <3>1. ~all[j].scored
      BY <1>8, <1>11, <2>2
    <3>2. CASE i \in DOMAIN best
      BY <1>6, <1>11, <3>1, <3>2
    <3>3. CASE i \notin DOMAIN best
      <4>. DEFINE m == i - Len(best)
                  n == j - Len(best)
      <4>1. m \in DOMAIN rest /\ n \in DOMAIN rest /\ all[i] = rest[m] /\ all[j] = rest[n]
        BY <1>11, <2>2, <3>3
      <4>2. m < n
        BY <1>9, <1>10, <1>16
      <4>. HIDE DEF m, n
      <4>3. /\ places[m] \in DOMAIN candidates /\ places[n] \in DOMAIN candidates
            /\ places[m] < places[n]
            /\ all[i] = candidates[places[m]] /\ all[j] = candidates[places[n]]
        BY <1>4, <4>1, <4>2
      <4>. QED  BY <3>1, <4>3 DEF Precedes
    <3>. QED  BY <3>2, <3>3
  <2>. QED  BY <2>1, <2>2
<1>17. Reorders(all)
  BY <1>12, <1>15, <1>16 DEF Reorders
<1>. QED  BY <1>14, <1>17 DEF all, S

-----------------------------------------------------------------------------
(***************************************************************************)
(* The rules of a slide.                                                   *)
(***************************************************************************)

\* Every rank below the size of a set of numbers is taken by one of them.
LEMMA RankTaken ==
  ASSUME NEW P \in SUBSET Int, IsFiniteSet(P)
  PROVE  /\ Cardinality(P) \in Nat
         /\ \A r \in 0 .. Cardinality(P) - 1 :
              \E x \in P : Cardinality({y \in P : y < x}) = r
         /\ \A x \in P : Cardinality({y \in P : y < x}) \in 0 .. Cardinality(P) - 1
         /\ \A x, y \in P : x < y <=> Cardinality({z \in P : z < x})
                                        < Cardinality({z \in P : z < y})
<1>. DEFINE line == Ordered([i \in P |-> {j \in P : j < i}])
            size == Cardinality(P)
            Rank(x) == Cardinality({y \in P : y < x})
<1>1. /\ size \in Nat
      /\ line \in [1 .. size -> P]
      /\ \A x \in P : \E n \in 1 .. size : line[n] = x
      /\ \A m, n \in 1 .. size : m < n <=> line[m] < line[n]
      /\ \A n \in 1 .. size : Rank(line[n]) = n - 1
  BY NumbersLine
<1>. HIDE DEF line, size, Rank
<1>2. ASSUME NEW r \in 0 .. size - 1  PROVE  \E x \in P : Rank(x) = r
  <2>1. r + 1 \in 1 .. size /\ r + 1 - 1 = r
    BY <1>1
  <2>2. line[r + 1] \in P /\ Rank(line[r + 1]) = r + 1 - 1
    BY <1>1, <2>1
  <2>. QED  BY <2>1, <2>2
<1>3. \A x \in P : Rank(x) \in 0 .. size - 1
  BY <1>1
<1>4. ASSUME NEW x \in P, NEW y \in P  PROVE  x < y <=> Rank(x) < Rank(y)
  <2>1. PICK m \in 1 .. size : line[m] = x
    BY <1>1
  <2>2. PICK n \in 1 .. size : line[n] = y
    BY <1>1
  <2>3. Rank(x) = m - 1 /\ Rank(y) = n - 1
    BY <1>1, <2>1, <2>2
  <2>4. x < y <=> m < n
    BY <1>1, <2>1, <2>2
  <2>. QED  BY <2>3, <2>4
<1>. QED  BY <1>1, <1>2, <1>3, <1>4 DEF size, Rank

\* A number is told by its quotient and its remainder.
LEMMA DivMod ==
  ASSUME NEW c \in Nat \ {0}, NEW a \in Nat, NEW b \in Nat,
         a \div c = b \div c, a % c = b % c
  PROVE  a = b
<1>1. \A n \in Int : n = c * (n \div c) + (n % c)
  OBVIOUS
<1>2. a = c * (a \div c) + (a % c)
  BY <1>1
<1>3. b = c * (b \div c) + (b % c)
  BY <1>1
<1>. QED  BY <1>2, <1>3

LEMMA ModRange ==
  ASSUME NEW c \in Nat \ {0}, NEW a \in Nat
  PROVE  a % c \in 0 .. c - 1 /\ a \div c \in Nat
OBVIOUS

FormatSlots(results, formats, i) == {t \in DOMAIN formats : formats[t] = Format[results[i].id]}
FormatRank(results, i) ==
  Cardinality({j \in 1 .. i - 1 : Format[results[j].id] = Format[results[i].id]})
FormatRound(results, formats, i) ==
  FormatRank(results, i) \div Cardinality(FormatSlots(results, formats, i))
OfFormat(results, f) == {i \in DOMAIN results : Format[results[i].id] = f}
Asked(results, formats) == {i \in DOMAIN results : FormatSlots(results, formats, i) # {}}

\* The rank of an item counts the items of its format before it.
LEMMA FormatRanks ==
  ASSUME NEW results \in Lists, NEW f
  PROVE  /\ OfFormat(results, f) \in SUBSET Int /\ IsFiniteSet(OfFormat(results, f))
         /\ \A i \in OfFormat(results, f) :
              FormatRank(results, i) \in 0 .. Cardinality(OfFormat(results, f)) - 1
         /\ \A i, j \in OfFormat(results, f) :
              i < j <=> FormatRank(results, i) < FormatRank(results, j)
         /\ \A r \in 0 .. Cardinality(OfFormat(results, f)) - 1 :
              \E i \in OfFormat(results, f) : FormatRank(results, i) = r
<1>. DEFINE D == OfFormat(results, f)
            Below(i) == Cardinality({j \in D : j < i})
<1>1. DOMAIN results = 1 .. Len(results) /\ Len(results) \in Nat
  BY DEF Lists
<1>2. D \in SUBSET (1 .. Len(results)) /\ IsFiniteSet(D)
  <2>1. D \in SUBSET (1 .. Len(results))
    BY <1>1 DEF OfFormat
  <2>2. IsFiniteSet(1 .. Len(results))
    BY <1>1, FS_Interval
  <2>. QED  BY <2>1, <2>2, FS_Subset
<1>3. ASSUME NEW i \in D
      PROVE  FormatRank(results, i) = Below(i)
  <2>1. {j \in 1 .. i - 1 : Format[results[j].id] = Format[results[i].id]} = {j \in D : j < i}
    BY <1>1, <1>2, <1>3 DEF OfFormat
  <2>. QED  BY <2>1 DEF FormatRank
<1>4. /\ \A r \in 0 .. Cardinality(D) - 1 : \E i \in D : Below(i) = r
      /\ \A i \in D : Below(i) \in 0 .. Cardinality(D) - 1
      /\ \A i, j \in D : i < j <=> Below(i) < Below(j)
  <2>1. D \in SUBSET Int /\ IsFiniteSet(D)
    BY <1>2
  <2>. HIDE DEF D
  <2>2. \A r \in 0 .. Cardinality(D) - 1 : \E i \in D : Below(i) = r
    BY <2>1, RankTaken
  <2>3. \A i \in D : Below(i) \in 0 .. Cardinality(D) - 1
    BY <2>1, RankTaken
  <2>4. \A i, j \in D : i < j <=> Below(i) < Below(j)
    BY <2>1, RankTaken
  <2>. QED  BY <2>2, <2>3, <2>4
<1>. HIDE DEF Below
<1>. QED  BY <1>2, <1>3, <1>4

\* The formats take turns by rounds, and every item of a wanted format has its
\* turn.
LEMMA QuotasLine ==
  ASSUME NEW results \in Lists, NEW formats \in FormatOrders
  PROVE  /\ Quotas(results, formats) \in Lists
         /\ \E places \in [DOMAIN Quotas(results, formats) -> Asked(results, formats)] :
              /\ \A m \in DOMAIN Quotas(results, formats) :
                   Quotas(results, formats)[m] = results[places[m]]
              /\ \A i \in Asked(results, formats) :
                   \E m \in DOMAIN Quotas(results, formats) : places[m] = i
              /\ \A l, m \in DOMAIN Quotas(results, formats) : l < m =>
                   FormatRound(results, formats, places[l]) <= FormatRound(results, formats, places[m])
              /\ \A l, m \in DOMAIN Quotas(results, formats) :
                   FormatRound(results, formats, places[l]) < FormatRound(results, formats, places[m])
                     => l < m
<1>. DEFINE Slots(i) == FormatSlots(results, formats, i)
            Rank(i) == FormatRank(results, i)
            Round(i) == FormatRound(results, formats, i)
            Turn(i) == CHOOSE t \in Slots(i) :
                         Cardinality({u \in Slots(i) : u < t}) =
                           Rank(i) % Cardinality(Slots(i))
            Precede(i, j) == \/ Round(i) < Round(j)
                             \/ Round(i) = Round(j) /\ Turn(i) < Turn(j)
            S == Asked(results, formats)
            before == [i \in S |-> {j \in S : Precede(j, i)}]
            places == Ordered(before)
            made == Quotas(results, formats)
            size == Cardinality(S)
<1>1. made = [n \in DOMAIN places |-> results[places[n]]]
  BY DEF Quotas, FormatSlots, FormatRank, FormatRound, Asked
<1>2. results \in Seq(Results) /\ DOMAIN results = 1 .. Len(results) /\ Len(results) \in Nat
  BY DEF Lists
<1>3. S \in SUBSET (1 .. Len(results)) /\ IsFiniteSet(S)
  <2>1. S \in SUBSET (1 .. Len(results))
    BY <1>2 DEF Asked
  <2>2. IsFiniteSet(1 .. Len(results))
    BY <1>2, FS_Interval
  <2>. QED  BY <2>1, <2>2, FS_Subset
<1>4. ASSUME NEW i \in S
      PROVE  /\ Slots(i) \in SUBSET Int /\ IsFiniteSet(Slots(i)) /\ Slots(i) # {}
             /\ Cardinality(Slots(i)) \in Nat \ {0}
  <2>1. formats \in Seq(ToSet(formats))
    BY SearchAssumption
  <2>2. Slots(i) \in SUBSET (1 .. Len(formats)) /\ Len(formats) \in Nat /\ Slots(i) # {}
    BY <1>4, <2>1 DEF FormatSlots, Asked
  <2>. HIDE DEF Slots
  <2>3. IsFiniteSet(Slots(i)) /\ Slots(i) \in SUBSET Int
    <3>1. IsFiniteSet(1 .. Len(formats))
      BY <2>2, FS_Interval
    <3>. QED  BY <2>2, <3>1, FS_Subset
  <2>. QED  BY <2>2, <2>3, FS_CardinalityType, FS_EmptySet
<1>5. ASSUME NEW i \in S
      PROVE  /\ i \in OfFormat(results, Format[results[i].id])
             /\ Rank(i) \in Nat /\ Round(i) \in Nat
             /\ Rank(i) % Cardinality(Slots(i)) \in 0 .. Cardinality(Slots(i)) - 1
  <2>1. i \in OfFormat(results, Format[results[i].id])
    BY <1>2, <1>3, <1>5 DEF OfFormat
  <2>2. Rank(i) \in Nat
    BY <2>1, FormatRanks
  <2>3. Round(i) = Rank(i) \div Cardinality(Slots(i))
    BY DEF FormatRound
  <2>. HIDE DEF Rank, Slots, Round
  <2>. QED  BY <1>4, <2>1, <2>2, <2>3, ModRange
<1>6. ASSUME NEW i \in S
      PROVE  /\ Turn(i) \in Slots(i) /\ Turn(i) \in Int
             /\ Cardinality({u \in Slots(i) : u < Turn(i)}) = Rank(i) % Cardinality(Slots(i))
  <2>. HIDE DEF Rank, Slots
  <2>1. \E t \in Slots(i) : Cardinality({u \in Slots(i) : u < t}) = Rank(i) % Cardinality(Slots(i))
    <3>1. \A r \in 0 .. Cardinality(Slots(i)) - 1 :
            \E t \in Slots(i) : Cardinality({u \in Slots(i) : u < t}) = r
      BY <1>4, RankTaken
    <3>. QED  BY <1>5, <3>1
  <2>2. /\ Turn(i) \in Slots(i)
        /\ Cardinality({u \in Slots(i) : u < Turn(i)}) = Rank(i) % Cardinality(Slots(i))
    BY <2>1
  <2>. QED  BY <1>4, <2>2
<1>7. before \in [S -> SUBSET S] /\ \A i, j \in S : j \in before[i] <=> Precede(j, i)
  OBVIOUS
<1>8. ASSUME NEW i \in S, NEW j \in S, Round(i) = Round(j), Turn(i) = Turn(j)  PROVE  i = j
  <2>. DEFINE f == Format[results[i].id]
  <2>1. Format[results[j].id] = f
    <3>1. formats[Turn(i)] = Format[results[i].id]
      BY <1>6 DEF FormatSlots
    <3>2. formats[Turn(j)] = Format[results[j].id]
      BY <1>6 DEF FormatSlots
    <3>. QED  BY <1>8, <3>1, <3>2
  <2>2. Slots(i) = Slots(j)
    BY <2>1 DEF FormatSlots
  <2>3. i \in OfFormat(results, f) /\ j \in OfFormat(results, f)
    BY <1>5, <2>1
  <2>4. Round(i) = Rank(i) \div Cardinality(Slots(i)) /\ Round(j) = Rank(j) \div Cardinality(Slots(i))
    BY <2>2 DEF FormatRound
  <2>5. Rank(i) % Cardinality(Slots(i)) = Rank(j) % Cardinality(Slots(i))
    <3>. HIDE DEF Rank, Slots, Turn
    <3>. QED  BY <1>6, <1>8, <2>2
  <2>6. Rank(i) = Rank(j)
    <3>. HIDE DEF Rank, Slots, Round
    <3>. QED  BY <1>4, <1>5, <1>8, <2>4, <2>5, DivMod
  <2>7. ~(i < j) /\ ~(j < i)
    <3>1. (i < j <=> Rank(i) < Rank(j)) /\ (j < i <=> Rank(j) < Rank(i)) /\ Rank(i) \in Int
      BY <1>5, <2>3, FormatRanks
    <3>. HIDE DEF Rank
    <3>. QED  BY <2>6, <3>1
  <2>. QED  BY <1>3, <2>7
<1>17. \A i \in S : Round(i) \in Int /\ Turn(i) \in Int
  <2>. HIDE DEF S, Slots, Rank, Round, Turn
  <2>1. \A i \in S : Round(i) \in Nat
    BY <1>5
  <2>2. \A i \in S : Turn(i) \in Int
    BY <1>6
  <2>. QED  BY <2>1, <2>2
<1>. HIDE DEF S, Slots, Rank, Round, Turn
<1>9. OrderOn(S, before)
  <2>1. \A i \in S : ~Precede(i, i)
    BY <1>17
  <2>2. ASSUME NEW h \in S, NEW i \in S, NEW j \in S, Precede(h, i), Precede(i, j)
        PROVE  Precede(h, j)
    BY <1>17, <2>2
  <2>3. ASSUME NEW i \in S, NEW j \in S, i # j  PROVE  Precede(i, j) \/ Precede(j, i)
    BY <1>8, <1>17, <2>3
  <2>. HIDE DEF Precede, before
  <2>4. \A i \in S : i \notin before[i]
    BY <1>7, <2>1
  <2>5. \A i, j \in S : j \in before[i] => before[j] \subseteq before[i]
    BY <1>7, <2>2
  <2>6. \A i, j \in S : i # j => i \in before[j] \/ j \in before[i]
    BY <1>7, <2>3
  <2>. QED  BY <1>3, <1>7, <2>4, <2>5, <2>6 DEF OrderOn
<1>. HIDE DEF before, made
<1>10. /\ size \in Nat
       /\ places \in [1 .. size -> S]
       /\ \A i \in S : \E n \in 1 .. size : places[n] = i
       /\ \A m, n \in 1 .. size : m < n <=> places[m] \in before[places[n]]
  BY <1>9, OrderedLine
<1>. HIDE DEF places, size
<1>11. /\ DOMAIN made = 1 .. size
       /\ \A m \in 1 .. size : places[m] \in DOMAIN results /\ made[m] = results[places[m]]
  BY <1>1, <1>2, <1>3, <1>10
<1>12. made \in Seq(Results)
  <2>1. \A m \in 1 .. size : made[m] \in Results
    BY <1>2, <1>11
  <2>2. made = [n \in 1 .. size |-> made[n]]
    BY <1>1, <1>11
  <2>3. made \in [1 .. size -> Results]
    BY <2>1, <2>2
  <2>. QED  BY <1>10, <2>3
<1>13. \A l, m \in 1 .. size : l < m <=> Precede(places[l], places[m])
  BY <1>7, <1>10
<1>14. ASSUME NEW l \in 1 .. size, NEW m \in 1 .. size
       PROVE  /\ l < m => Round(places[l]) <= Round(places[m])
              /\ Round(places[l]) < Round(places[m]) => l < m
  BY <1>10, <1>13, <1>17
<1>15. ASSUME NEW l \in 1 .. size, NEW m \in 1 .. size, made[l].id = made[m].id
       PROVE  l = m
  <2>1. places[l] = places[m]
    BY <1>11, <1>15 DEF Lists, Distinct
  <2>2. places[l] \in S /\ ~Precede(places[l], places[l])
    BY <1>10, <1>17
  <2>3. ~(l < m) /\ ~(m < l)
    <3>. HIDE DEF Precede
    <3>. QED  BY <1>13, <2>1, <2>2
  <2>. QED  BY <2>3
<1>16. made \in Lists
  BY <1>11, <1>12, <1>15 DEF Lists, Distinct
<1>. QED  BY <1>10, <1>11, <1>14, <1>16 DEF made, S, Round

\* What a slide is made of.
LEMMA DiverseList ==
  ASSUME NEW results \in Lists
  PROVE  Diverse(results) \in Lists
<1>. DEFINE P == {i \in DOMAIN results :
                   \/ results[i].source = NoSource
                   \/ Cardinality({j \in 1 .. i - 1 : results[j].source = results[i].source})
                        < MaxPerSource}
<1>1. Diverse(results) = Picked(results, P) /\ P \in SUBSET DOMAIN results
  BY DEF Diverse
<1>. HIDE DEF P
<1>. QED  BY <1>1, PickedList

LEMMA SlideList ==
  ASSUME NEW results \in Lists, wanted \in FormatOrders, k \in Nat
  PROVE  Slide(results) \in Lists
BY DiverseList, QuotasLine, TakeList DEF Slide

\* What a slide leaves out, it leaves out for cause.
LEMMA SlideLeavesOut ==
  ASSUME rescored \in Lists, BestFirst(rescored), wanted \in FormatOrders, k \in Nat,
         shown = Slide(rescored),
         NEW c \in ToSet(rescored), Format[c.id] \in ToSet(wanted), c.id \notin Ids(shown)
  PROVE  \/ Len(shown) = k
         \/ /\ c.source # NoSource
            /\ Cardinality({b \in ToSet(rescored) : b.source = c.source /\ Better(b, c)})
                 >= MaxPerSource
<1>. DEFINE Sooner(i) == {j \in 1 .. i - 1 : rescored[j].source = rescored[i].source}
            P == {i \in DOMAIN rescored : \/ rescored[i].source = NoSource
                                          \/ Cardinality(Sooner(i)) < MaxPerSource}
            kept == Diverse(rescored)
            made == Quotas(kept, wanted)
            better == {b \in ToSet(rescored) : b.source = c.source /\ Better(b, c)}
<1>1. /\ rescored \in Seq(Results) /\ DOMAIN rescored = 1 .. Len(rescored)
      /\ Len(rescored) \in Nat
      /\ ToSet(rescored) = {rescored[i] : i \in DOMAIN rescored}
  BY DEF Lists, ToSet
<1>2. PICK n \in DOMAIN rescored : c = rescored[n]
  BY <1>1
<1>3. kept = Picked(rescored, P) /\ P \in SUBSET DOMAIN rescored
  BY DEF Diverse
<1>4. CASE n \in P
  <2>. HIDE DEF P, kept
  <2>1. kept \in Lists
    BY <1>3, PickedList
  <2>2. \E m \in DOMAIN kept : kept[m] = c
    BY <1>2, <1>3, <1>4, PickedList
  <2>3. PICK m \in DOMAIN kept : kept[m] = c
    BY <2>2
  <2>4. m \in Asked(kept, wanted)
    <3>1. \E t \in DOMAIN wanted : wanted[t] = Format[c.id]
      BY DEF ToSet
    <3>. QED  BY <2>3, <3>1 DEF Asked, FormatSlots
  <2>5. made \in Lists /\ \E i \in DOMAIN made : made[i] = c
    BY <2>1, <2>3, <2>4, QuotasLine
  <2>6. shown = Take(made, k)
    BY DEF Slide, kept
  <2>. HIDE DEF made
  <2>7. made \in Seq(Results) /\ Len(made) \in Nat /\ DOMAIN made = 1 .. Len(made)
    BY <2>5 DEF Lists
  <2>8. PICK i \in 1 .. Len(made) : made[i] = c
    BY <2>5, <2>7
  <2>9. /\ shown \in Seq(Results)
        /\ Len(shown) = IF Len(made) < k THEN Len(made) ELSE k
        /\ \A j \in DOMAIN shown : shown[j] = made[j]
    BY <2>6, <2>7, TakeLine
  <2>10. i \notin DOMAIN shown
    BY <2>8, <2>9 DEF Ids
  <2>11. DOMAIN shown = 1 .. Len(shown)
    BY <2>9
  <2>12. Len(shown) # Len(made)
    BY <2>8, <2>10, <2>11
  <2>. QED  BY <2>9, <2>12
<1>5. CASE n \notin P
  <2>1. rescored[n].source # NoSource /\ ~(Cardinality(Sooner(n)) < MaxPerSource)
    BY <1>2, <1>5
  <2>2. Sooner(n) \in SUBSET DOMAIN rescored /\ IsFiniteSet(Sooner(n))
    <3>1. Sooner(n) \in SUBSET DOMAIN rescored
      BY <1>1, <1>2
    <3>2. IsFiniteSet(1 .. Len(rescored))
      BY <1>1, FS_Interval
    <3>. QED  BY <1>1, <3>1, <3>2, FS_Subset
  <2>3. IsFiniteSet(better)
    <3>1. IsFiniteSet(DOMAIN rescored)
      BY <1>1, FS_Interval
    <3>2. rescored \in Surjection(DOMAIN rescored, ToSet(rescored))
      BY <1>1 DEF Surjection
    <3>3. IsFiniteSet(ToSet(rescored))
      BY <3>1, <3>2, FS_Surjection
    <3>. QED  BY <3>3, FS_Subset
  <2>. DEFINE f == [j \in Sooner(n) |-> rescored[j]]
  <2>4. \A j \in Sooner(n) : j \in DOMAIN rescored /\ rescored[j] \in better
    <3>1. \A j \in Sooner(n) : j \in DOMAIN rescored /\ j < n
      BY <1>1, <1>2
    <3>. QED  BY <1>1, <1>2, <3>1 DEF BestFirst
  <2>5. \A i, j \in DOMAIN rescored : rescored[i] = rescored[j] => i = j
    BY DEF Lists, Distinct
  <2>. HIDE DEF Sooner, better
  <2>6. f \in Injection(Sooner(n), better)
    BY <2>4, <2>5 DEF Injection, IsInjective
  <2>7. Cardinality(Sooner(n)) <= Cardinality(better)
    BY <2>2, <2>3, <2>6, FS_Injection
  <2>8. Cardinality(Sooner(n)) \in Nat /\ Cardinality(better) \in Nat /\ MaxPerSource \in Nat
    BY <2>2, <2>3, FS_CardinalityType, SearchAssumption
  <2>9. Cardinality(better) >= MaxPerSource
    BY <2>1, <2>7, <2>8
  <2>. QED  BY <1>2, <2>1, <2>9 DEF better
<1>. QED  BY <1>4, <1>5

\* While the formats differ, a format's round is its rank.
LEMMA RoundIsRank ==
  ASSUME NEW results \in Lists, NEW formats \in FormatOrders, IsInjective(formats),
         NEW i \in Asked(results, formats)
  PROVE  /\ FormatRound(results, formats, i) = FormatRank(results, i)
         /\ FormatRank(results, i) \in Nat
<1>1. PICK t \in FormatSlots(results, formats, i) : TRUE
  BY DEF Asked
<1>2. FormatSlots(results, formats, i) = {t}
  BY <1>1 DEF FormatSlots, IsInjective
<1>3. Cardinality(FormatSlots(results, formats, i)) = 1
  BY <1>2, FS_Singleton
<1>4. FormatRank(results, i) \in Nat
  <2>1. i \in OfFormat(results, Format[results[i].id])
    BY DEF Asked, OfFormat
  <2>. QED  BY <2>1, FormatRanks
<1>5. FormatRound(results, formats, i) = FormatRank(results, i) \div 1
  BY <1>3 DEF FormatRound
<1>. QED  BY <1>4, <1>5

\* No format is two items ahead of one that still has an item to show.
LEMMA SlideTakesTurns ==
  ASSUME rescored \in Lists, wanted \in FormatOrders, k \in Nat, IsInjective(wanted),
         shown = Slide(rescored),
         NEW i \in DOMAIN shown, NEW j \in DOMAIN shown, i < j
  PROVE  LET Seen(f) == Cardinality({n \in 1 .. i : Format[shown[n].id] = f})
         IN  Seen(Format[shown[i].id]) <= Seen(Format[shown[j].id]) + 1
<1>. DEFINE kept == Diverse(rescored)
            made == Quotas(kept, wanted)
            S == Asked(kept, wanted)
            Rank(n) == FormatRank(kept, n)
            At(f) == {n \in 1 .. i : Format[shown[n].id] = f}
            fi == Format[shown[i].id]
            fj == Format[shown[j].id]
<1>1. kept \in Lists
  BY DiverseList
<1>2. shown = Take(made, k)
  BY DEF Slide
<1>. HIDE DEF kept
<1>3. PICK places \in [DOMAIN made -> S] :
        /\ \A m \in DOMAIN made : made[m] = kept[places[m]]
        /\ \A n \in S : \E m \in DOMAIN made : places[m] = n
        /\ \A l, m \in DOMAIN made : l < m =>
             FormatRound(kept, wanted, places[l]) <= FormatRound(kept, wanted, places[m])
        /\ \A l, m \in DOMAIN made :
             FormatRound(kept, wanted, places[l]) < FormatRound(kept, wanted, places[m]) => l < m
  BY <1>1, QuotasLine
<1>4. made \in Lists
  BY <1>1, QuotasLine
<1>. HIDE DEF made, S
<1>5. \A n \in S : FormatRound(kept, wanted, n) = Rank(n) /\ Rank(n) \in Nat
  BY <1>1, RoundIsRank DEF S
<1>. HIDE DEF Rank
<1>6. /\ made \in Seq(Results) /\ DOMAIN made = 1 .. Len(made) /\ Len(made) \in Nat
      /\ \A l, m \in DOMAIN made : made[l].id = made[m].id => l = m
  BY <1>4 DEF Lists, Distinct
<1>7. /\ DOMAIN shown = 1 .. Len(shown) /\ Len(shown) \in Nat
      /\ \A n \in DOMAIN shown : n \in DOMAIN made /\ shown[n] = kept[places[n]] /\ places[n] \in S
  <2>1. /\ shown \in Seq(Results)
        /\ \A n \in DOMAIN shown : n \in DOMAIN made /\ shown[n] = made[n]
    BY <1>2, <1>6, TakeLine
  <2>. QED  BY <1>3, <2>1
<1>8. i \in Nat /\ j \in Nat /\ 1 .. i \subseteq DOMAIN shown
  BY <1>7
<1>9. \A l, m \in DOMAIN made :
        /\ l < m => Rank(places[l]) <= Rank(places[m])
        /\ Rank(places[l]) < Rank(places[m]) => l < m
        /\ places[l] = places[m] => l = m
  BY <1>3, <1>5, <1>6
<1>10. IsFiniteSet(1 .. i)
  BY <1>8, FS_Interval
<1>11. \A f : IsFiniteSet(At(f)) /\ Cardinality(At(f)) \in Nat
  <2>. SUFFICES ASSUME NEW f  PROVE  IsFiniteSet(At(f)) /\ Cardinality(At(f)) \in Nat
    OBVIOUS
  <2>1. IsFiniteSet(At(f))
    BY <1>10, FS_Subset
  <2>. QED  BY <2>1, FS_CardinalityType
<1>. DEFINE r == Rank(places[i])
<1>12. r \in Nat /\ r <= Rank(places[j]) /\ Rank(places[j]) \in Nat
  BY <1>5, <1>7, <1>9
<1>13. \A f : /\ OfFormat(kept, f) \in SUBSET Int /\ IsFiniteSet(OfFormat(kept, f))
              /\ \A n \in OfFormat(kept, f) :
                   Rank(n) \in 0 .. Cardinality(OfFormat(kept, f)) - 1
              /\ \A m, n \in OfFormat(kept, f) : m < n <=> Rank(m) < Rank(n)
              /\ \A q \in 0 .. Cardinality(OfFormat(kept, f)) - 1 :
                   \E n \in OfFormat(kept, f) : Rank(n) = q
  BY <1>1, FormatRanks DEF Rank
<1>14. \A n \in 1 .. i : places[n] \in OfFormat(kept, Format[shown[n].id]) /\ places[n] \in S
  <2>1. \A m \in S : m \in DOMAIN kept
    BY DEF S, Asked
  <2>. QED  BY <1>7, <1>8, <2>1 DEF OfFormat
<1>. HIDE DEF r
\* At most r + 1 items of its own format are seen at i.
<1>15. Cardinality(At(fi)) <= r + 1
  <2>. DEFINE A == At(fi)
              D == OfFormat(kept, fi)
              f == [n \in A |-> Rank(places[n])]
  <2>1. \A n \in A : n \in 1 .. i /\ places[n] \in D /\ Rank(places[n]) \in 0 .. r
    <3>1. \A n \in A : n \in 1 .. i /\ places[n] \in D /\ places[n] \in S
      BY <1>14
    <3>2. \A n \in 1 .. i : Rank(places[n]) <= r
      <4>1. ASSUME NEW n \in 1 .. i  PROVE  Rank(places[n]) <= r
        <5>1. n \in DOMAIN made /\ i \in DOMAIN made
          BY <1>7, <1>8
        <5>2. n = i \/ n < i
          BY <1>8
        <5>. QED  BY <1>9, <1>12, <5>1, <5>2 DEF r
      <4>. QED  BY <4>1
    <3>. HIDE DEF A, D
    <3>. QED  BY <1>5, <1>12, <3>1, <3>2
  <2>2. \A l, m \in D : Rank(l) = Rank(m) => l = m
    <3>1. /\ D \in SUBSET Int
          /\ \A n \in D : Rank(n) \in 0 .. Cardinality(D) - 1
          /\ \A m, n \in D : m < n <=> Rank(m) < Rank(n)
      BY <1>13
    <3>. HIDE DEF D
    <3>2. \A n \in D : Rank(n) \in Int
      BY <3>1
    <3>. QED  BY <3>1, <3>2
  <2>3. \A l, m \in 1 .. i : places[l] = places[m] => l = m
    BY <1>7, <1>8, <1>9
  <2>4. IsFiniteSet(A)
    BY <1>11
  <2>. HIDE DEF A, D
  <2>5. f \in Injection(A, 0 .. r)
    BY <2>1, <2>2, <2>3 DEF Injection, IsInjective
  <2>6. IsFiniteSet(0 .. r) /\ Cardinality(0 .. r) = r + 1
    <3>1. 0 \in Int /\ r \in Int
      BY <1>12
    <3>2. IsFiniteSet(0 .. r) /\ Cardinality(0 .. r) = IF 0 > r THEN 0 ELSE r - 0 + 1
      BY <3>1, FS_Interval, Zenon
    <3>. QED  BY <1>12, <3>2
  <2>7. Cardinality(A) <= Cardinality(0 .. r)
    BY <2>4, <2>5, <2>6, FS_Injection
  <2>. QED  BY <2>6, <2>7 DEF A
\* At least r items of any format that still has one are seen at i.
<1>16. r <= Cardinality(At(fj))
  <2>. DEFINE A == At(fj)
              D == OfFormat(kept, fj)
              B == {n \in A : Rank(places[n]) < r}
              f == [n \in B |-> Rank(places[n])]
  <2>1. places[j] \in D /\ places[j] \in S /\ j \in DOMAIN made
    <3>1. places[j] \in DOMAIN kept
      BY <1>7 DEF S, Asked
    <3>. QED  BY <1>7, <3>1 DEF OfFormat
  <2>2. ASSUME NEW q \in 0 .. r - 1  PROVE  \E n \in B : Rank(places[n]) = q
    <3>1. \E x \in D : Rank(x) = q
      <4>1. /\ IsFiniteSet(D)
            /\ Rank(places[j]) \in 0 .. Cardinality(D) - 1
            /\ \A p \in 0 .. Cardinality(D) - 1 : \E n \in D : Rank(n) = p
        BY <1>13, <2>1
      <4>. HIDE DEF D
      <4>2. Cardinality(D) \in Nat
        BY <4>1, FS_CardinalityType
      <4>3. q \in 0 .. Cardinality(D) - 1
        BY <1>12, <4>1, <4>2
      <4>. QED  BY <4>1, <4>3
    <3>2. PICK x \in D : Rank(x) = q
      BY <3>1
    <3>3. x \in S
      <4>1. FormatSlots(kept, wanted, places[j]) # {}
        BY <2>1 DEF S, Asked
      <4>. QED  BY <2>1, <4>1 DEF S, Asked, OfFormat, FormatSlots
    <3>4. PICK n \in DOMAIN made : places[n] = x
      BY <1>3, <3>3
    <3>5. n < i /\ n \in 1 .. i
      <4>1. i \in DOMAIN made /\ q < r
        BY <1>7, <1>12
      <4>2. n < i
        BY <1>9, <3>2, <3>4, <4>1 DEF r
      <4>. QED  BY <1>6, <1>8, <4>2
    <3>6. Format[shown[n].id] = fj
      <4>1. shown[n] = kept[places[n]]
        BY <1>7, <1>8, <3>5
      <4>. QED  BY <3>2, <3>4, <4>1 DEF OfFormat
    <3>7. n \in B
      BY <1>12, <3>2, <3>4, <3>5, <3>6
    <3>. QED  BY <3>2, <3>4, <3>7
  <2>3. IsFiniteSet(A) /\ B \subseteq A
    BY <1>11
  <2>4. \A n \in B : Rank(places[n]) \in 0 .. r - 1
    <3>1. \A n \in B : places[n] \in S /\ Rank(places[n]) < r
      BY <1>14
    <3>. HIDE DEF B
    <3>. QED  BY <1>5, <1>12, <3>1
  <2>. HIDE DEF A, B
  <2>5. f \in Surjection(B, 0 .. r - 1)
    BY <2>2, <2>4 DEF Surjection
  <2>6. IsFiniteSet(B) /\ Cardinality(B) <= Cardinality(A)
    BY <2>3, FS_Subset
  <2>7. Cardinality(0 .. r - 1) <= Cardinality(B)
    BY <2>5, <2>6, FS_Surjection
  <2>8. Cardinality(0 .. r - 1) = r
    <3>1. 0 \in Int /\ r - 1 \in Int
      BY <1>12
    <3>2. Cardinality(0 .. r - 1) = IF 0 > r - 1 THEN 0 ELSE r - 1 - 0 + 1
      BY <3>1, FS_Interval, Zenon
    <3>. QED  BY <1>12, <3>2
  <2>9. Cardinality(A) \in Nat /\ Cardinality(B) \in Nat
    BY <2>3, <2>6, FS_CardinalityType
  <2>10. r <= Cardinality(A)
    BY <1>12, <2>6, <2>7, <2>8, <2>9
  <2>. QED  BY <2>10 DEF A
<1>17. Cardinality(At(fi)) <= Cardinality(At(fj)) + 1
  <2>1. Cardinality(At(fi)) \in Nat /\ Cardinality(At(fj)) \in Nat
    BY <1>11
  <2>. HIDE DEF At, fi, fj
  <2>. QED  BY <1>12, <1>15, <1>16, <2>1
<1>. QED  BY <1>17

-----------------------------------------------------------------------------
(***************************************************************************)
(* The invariant.                                                          *)
(***************************************************************************)

SearchInv ==
  /\ SearchTypeOK
  /\ candidates \in Lists /\ ranked \in Lists /\ rescored \in Lists /\ shown \in Lists
  /\ \A i \in DOMAIN candidates : ~candidates[i].scored
  /\ stage \in {"texts", "anchor", "scoring"} => ranked = candidates
  /\ stage \in {"ranked", "rescored", "answered"} => Reorders(ranked)
  /\ stage = "rescored" \/ (stage = "answered" /\ is_slide) => BestFirst(rescored)
  /\ stage = "answered" /\ is_slide => shown = Slide(rescored)

LEMMA ListIds ==
  ASSUME NEW list \in Lists
  PROVE  Ids(list) \subseteq Contents
<1>1. \A i \in DOMAIN list : list[i] \in Results
  BY DEF Lists
<1>. QED  BY <1>1 DEF Ids, Results

\* Without a rerank the candidates keep their order.
LEMMA SameOrder ==
  ASSUME candidates \in Lists, \A i \in DOMAIN candidates : ~candidates[i].scored
  PROVE  Reorders(candidates)
BY DEF Reorders, Precedes

\* The scores of a slide after they are freshened.
LEMMA FreshLine ==
  ASSUME NEW list \in Lists, NEW stale,
         NEW fresh,
         fresh = [i \in DOMAIN list |-> IF list[i].id \in stale
                                        THEN [list[i] EXCEPT !.score = @ \div 2]
                                        ELSE list[i]]
  PROVE  fresh \in Lists
<1>1. /\ list \in Seq(Results) /\ DOMAIN list = 1 .. Len(list) /\ Len(list) \in Nat
      /\ Distinct(list)
  BY DEF Lists
<1>2. ASSUME NEW i \in DOMAIN list  PROVE  fresh[i] \in Results /\ fresh[i].id = list[i].id
  <2>1. list[i] \in Results
    BY <1>1
  <2>2. list[i].score \in Int
    BY <2>1 DEF Results
  <2>3. list[i].score \div 2 \in Int
    BY <2>2
  <2>4. fresh[i] = list[i] \/ fresh[i] = [list[i] EXCEPT !.score = list[i].score \div 2]
    OBVIOUS
  <2>. QED  BY <2>1, <2>3, <2>4 DEF Results
<1>3. fresh \in [1 .. Len(list) -> Results]
  BY <1>1, <1>2
<1>4. fresh \in Seq(Results) /\ DOMAIN fresh = DOMAIN list
  BY <1>1, <1>3
<1>5. Distinct(fresh)
  BY <1>1, <1>2, <1>4 DEF Distinct
<1>. QED  BY <1>4, <1>5 DEF Lists

LEMMA SearchInvInit == SearchInit => SearchInv
<1>. SUFFICES ASSUME SearchInit  PROVE  SearchInv
  OBVIOUS
<1>1. <<>> \in Lists /\ DOMAIN <<>> = {} /\ Ids(<<>>) = {}
  BY DEF Lists, Distinct, Ids
<1>2. k \in Nat
  BY SearchAssumption, FS_CardinalityType DEF SearchInit
<1>. QED  BY <1>1, <1>2 DEF SearchInit, SearchInv, SearchTypeOK

LEMMA SearchInvNext == SearchInv /\ [SearchNext]_svars => SearchInv'
<1>. SUFFICES ASSUME SearchInv, [SearchNext]_svars  PROVE  SearchInv'
  OBVIOUS
<1>1. InputK \in Nat /\ wanted \in FormatOrders /\ k \in Nat
  BY SearchAssumption DEF SearchInv, SearchTypeOK
<1>2. CASE ResolveFails \/ Resolved \/ SearchFails
  BY <1>2 DEF ResolveFails, Resolved, SearchFails, SearchInv, SearchTypeOK, inputs
<1>3. ASSUME NEW hits \in HitLists, SearchedOnly(hits) \/ Searched(hits)  PROVE  SearchInv'
  <2>1. DenseResults(hits) \in Lists /\ \A i \in DOMAIN DenseResults(hits) : ~DenseResults(hits)[i].scored
    BY DenseLine
  <2>2. /\ candidates' \in Lists /\ \A i \in DOMAIN candidates' : ~candidates'[i].scored
        /\ ranked' = candidates'
        /\ stage' = "ranked" \/ stage' = "texts"
        /\ UNCHANGED <<inputs, texts, rescored, shown>>
    <3>1. CASE SearchedOnly(hits)
      BY <2>1, <3>1 DEF SearchedOnly
    <3>2. CASE Searched(hits)
      <4>1. candidates' = Take(DenseResults(hits), InputK) /\ DenseResults(hits) \in Seq(Results)
        BY <2>1, <3>2 DEF Searched, Lists
      <4>2. candidates' \in Lists
        BY <1>1, <2>1, <4>1, TakeList
      <4>3. \A i \in DOMAIN candidates' : ~candidates'[i].scored
        BY <1>1, <2>1, <4>1, TakeLine
      <4>. QED  BY <3>2, <4>2, <4>3 DEF Searched
    <3>. QED  BY <1>3, <3>1, <3>2
  <2>3. Reorders(candidates)'
    BY <2>2 DEF Reorders, Precedes
  <2>4. Ids(candidates') \subseteq Contents
    BY <2>2, ListIds
  <2>. QED  BY <2>2, <2>3, <2>4 DEF SearchInv, SearchTypeOK, inputs, Reorders
<1>4. ASSUME NEW found \in SUBSET Ids(candidates), TextsArrive(found)  PROVE  SearchInv'
  <2>1. Ids(candidates) \subseteq Contents /\ Reorders(candidates)
    BY ListIds, SameOrder DEF SearchInv
  <2>2. Reorders(candidates)'
    BY <1>4, <2>1 DEF TextsArrive, Reorders, Precedes
  <2>. QED  BY <1>4, <2>1, <2>2 DEF TextsArrive, SearchInv, SearchTypeOK, inputs
<1>5. CASE AnchorArrives \/ RerankFails
  <2>1. Reorders(candidates)
    BY SameOrder DEF SearchInv
  <2>2. Reorders(candidates)'
    BY <1>5, <2>1 DEF AnchorArrives, RerankFails, Reorders, Precedes
  <2>. QED  BY <1>5, <2>2 DEF AnchorArrives, RerankFails, SearchInv, SearchTypeOK, inputs
<1>6. ASSUME NEW n \in 0 .. Cardinality(texts) + 1, NEW scores \in [1 .. n -> Scores],
             ScoresArrive(scores)
      PROVE  SearchInv'
  <2>1. scores \in Seq(Scores)
    <3>1. IsFiniteSet(texts) /\ Cardinality(texts) \in Nat
      BY SearchAssumption, FS_Subset, FS_CardinalityType DEF SearchInv, SearchTypeOK
    <3>2. n \in Nat
      BY <3>1
    <3>. QED  BY <3>2
  <2>2. Merge(Scored(scores)) \in Lists /\ Reorders(Merge(Scored(scores)))
    BY <2>1, MergeLine DEF SearchInv
  <2>3. ranked' \in Lists /\ Reorders(ranked)'
    BY <1>6, <2>2 DEF ScoresArrive, Reorders, Precedes
  <2>4. Ids(ranked') \subseteq Contents
    BY <2>3, ListIds
  <2>. QED  BY <1>6, <2>3, <2>4 DEF ScoresArrive, SearchInv, SearchTypeOK, inputs
<1>7. CASE AnswerRelated
  <2>1. shown' \in Lists
    BY <1>1, <1>7, TakeList DEF AnswerRelated, Response, SearchInv
  <2>2. Reorders(ranked)'
    BY <1>7 DEF AnswerRelated, SearchInv, Reorders, Precedes
  <2>3. Ids(shown') \subseteq Contents
    BY <2>1, ListIds
  <2>. QED  BY <1>7, <2>1, <2>2, <2>3 DEF AnswerRelated, SearchInv, SearchTypeOK, inputs
<1>8. ASSUME NEW stale \in SUBSET Ids(ranked), Freshen(stale)  PROVE  SearchInv'
  <2>. DEFINE fresh == [i \in DOMAIN Response |-> IF Response[i].id \in stale
                                                 THEN [Response[i] EXCEPT !.score = @ \div 2]
                                                 ELSE Response[i]]
  <2>1. Response \in Lists
    BY <1>1, TakeList DEF Response, SearchInv
  <2>2. fresh \in Lists
    BY <2>1, FreshLine
  <2>3. rescored' = ByScore(fresh)
    BY <1>8 DEF Freshen
  <2>. HIDE DEF fresh
  <2>4. rescored' \in Lists /\ BestFirst(rescored')
    BY <2>2, <2>3, ByScoreLine
  <2>5. Reorders(ranked)'
    BY <1>8 DEF Freshen, SearchInv, Reorders, Precedes
  <2>6. Ids(rescored') \subseteq Contents
    BY <2>4, ListIds
  <2>. QED  BY <1>8, <2>4, <2>5, <2>6 DEF Freshen, SearchInv, SearchTypeOK, inputs, BestFirst, Better
<1>9. CASE AnswerSlide
  <2>1. shown' = Slide(rescored) /\ shown' \in Lists
    BY <1>1, <1>9, SlideList DEF AnswerSlide, SearchInv
  <2>2. Reorders(ranked)'
    BY <1>9 DEF AnswerSlide, SearchInv, Reorders, Precedes
  <2>3. BestFirst(rescored)'
    <3>1. BestFirst(rescored) /\ rescored' = rescored
      BY <1>9 DEF AnswerSlide, SearchInv
    <3>. QED  BY <3>1 DEF BestFirst, Better
  <2>4. Ids(shown') \subseteq Contents
    BY <2>1, ListIds
  <2>5. Slide(rescored)' = Slide(rescored)
    BY <1>9 DEF AnswerSlide, inputs, Slide
  <2>. QED  BY <1>9, <2>1, <2>2, <2>3, <2>4, <2>5 DEF AnswerSlide, SearchInv, SearchTypeOK, inputs
<1>10. CASE UNCHANGED svars
  <2>1. Slide(rescored)' = Slide(rescored)
    BY <1>10 DEF svars, inputs, Slide
  <2>2. Reorders(ranked)' <=> Reorders(ranked)
    BY <1>10 DEF svars, inputs, Reorders, Precedes
  <2>3. BestFirst(rescored)' <=> BestFirst(rescored)
    BY <1>10 DEF svars, inputs, BestFirst, Better
  <2>. QED  BY <1>10, <2>1, <2>2, <2>3 DEF svars, inputs, SearchInv, SearchTypeOK
<1>. QED  BY <1>2, <1>3, <1>4, <1>5, <1>6, <1>7, <1>8, <1>9, <1>10 DEF SearchNext

LEMMA SearchInvAlways == SearchSpec => []SearchInv
BY SearchInvInit, SearchInvNext, PTL DEF SearchSpec

\* A search answers with CMS contents only, whatever the hits and scores are.
THEOREM SearchTypeCorrect == SearchSpec => []SearchTypeOK
<1>1. SearchInv => SearchTypeOK
  BY DEF SearchInv
<1>. QED  BY <1>1, SearchInvAlways, PTL

\* Reranking only reorders, however many scores the reranker sent: every candidate
\* is kept once, those with a score stand first by their scores, and the others
\* keep the order of the dense search.  What batch_text did not return is kept
\* like the others, as the end of _rerank_candidates has it and not its docstring.
THEOREM RerankKeepsCandidates == SearchSpec => []RerankOnlyReorders
<1>1. SearchInv => RerankOnlyReorders
  BY DEF SearchInv, RerankOnlyReorders, Reorders
<1>. QED  BY <1>1, SearchInvAlways, PTL

\* A slide leaves out a candidate of a wanted format only when it is full, or
\* when MaxPerSource better candidates come from the same source.
THEOREM NothingLeftOut == SearchSpec => []LeftOutForCause
<1>1. SearchInv => LeftOutForCause
  <2>. SUFFICES ASSUME SearchInv, stage = "answered", is_slide,
                       NEW c \in ToSet(rescored),
                       Format[c.id] \in ToSet(wanted), c.id \notin Ids(shown)
                PROVE  \/ Len(shown) = k
                       \/ /\ c.source # NoSource
                          /\ Cardinality({b \in ToSet(rescored) :
                               b.source = c.source /\ Better(b, c)}) >= MaxPerSource
    BY DEF LeftOutForCause
  <2>1. /\ rescored \in Lists /\ BestFirst(rescored) /\ shown = Slide(rescored)
        /\ wanted \in FormatOrders /\ k \in Nat
    BY DEF SearchInv, SearchTypeOK
  <2>. QED  BY <2>1, SlideLeavesOut
<1>. QED  BY <1>1, SearchInvAlways, PTL

\* In a slide no format is two items ahead of a wanted format that still has
\* one to show.
THEOREM TurnsTaken == SearchSpec => []FormatsTakeTurns
<1>1. SearchInv => FormatsTakeTurns
  <2>. SUFFICES ASSUME SearchInv, stage = "answered", is_slide, IsInjective(wanted),
                       NEW i \in DOMAIN shown, NEW j \in DOMAIN shown, i < j
                PROVE  LET Seen(f) == Cardinality({n \in 1 .. i : Format[shown[n].id] = f})
                       IN  Seen(Format[shown[i].id]) <= Seen(Format[shown[j].id]) + 1
    BY DEF FormatsTakeTurns
  <2>1. /\ rescored \in Lists /\ shown = Slide(rescored)
        /\ wanted \in FormatOrders /\ k \in Nat
    BY DEF SearchInv, SearchTypeOK
  <2>. QED  BY <2>1, SlideTakesTurns
<1>. QED  BY <1>1, SearchInvAlways, PTL

=============================================================================
