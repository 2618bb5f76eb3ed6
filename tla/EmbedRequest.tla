---------------------------- MODULE EmbedRequest ----------------------------
(***************************************************************************)
(* One POST /v1/embed under its admission lease: EmbeddingService.embed    *)
(* with its concurrent write-backs, the tag extraction that runs beside    *)
(* it, and the task that persists the tags afterwards                      *)
(* (retrieval/services/embedding.py, retrieval/routes/embed.py).           *)
(*                                                                         *)
(* The texts are validated by then: content_ids, when given, match the     *)
(* texts one to one.  Vectors and tags are left out; what is kept is which *)
(* items the CMS has stored and what the request is told.  The lease is in *)
(* LaneAdmission, the CMS breaker in CircuitBreaker.                       *)
(***************************************************************************)
EXTENDS Integers, FiniteSets

CONSTANTS
  N,             \* number of items (texts with their content_ids)
  Concurrency    \* WRITEBACK_CONCURRENCY

ASSUME EmbedAssumption ==
  /\ N \in Nat \ {0}
  /\ Concurrency \in Nat \ {0}

Items == 1 .. N

VARIABLES
  writes_back,   \* the request has content_ids
  phase,         \* how far embed() has come
  write,         \* write[i]: how far the write-back of item i has come
  status,        \* write_back_status
  tags,          \* tags_task: its state, or its result when it has ended
  background,    \* the item the task of _persist_optional_tags is at
  vectors,       \* items whose embedding the CMS has stored
  tagged         \* items whose topic tags, or skip, the CMS has stored

evars == <<writes_back, phase, write, status, tags, background, vectors, tagged>>
cms == <<vectors, tagged>>

\* discarding, raising: _cancel_optional_tags, before the answer or the error.
Phases == {"encoding", "writing", "awaiting_tags", "discarding", "raising",
           "answered", "error"}
Results == {"tags", "skip", "empty", "raised", "cancelled"}
TagsEnded == tags \in Results \cup {"none"}

\* A background task that is not there, and one that waits for the tags.
NotStarted == 0
AwaitsTags == N + 1
Ended == N + 2

EmbedTypeOK ==
  /\ writes_back \in BOOLEAN
  /\ phase \in Phases
  /\ write \in [Items -> {"queued", "sent", "stored", "failed", "aborted"}]
  /\ status \in {"not_attempted", "ok", "failed"}
  /\ tags \in {"none", "running", "cancelling"} \cup Results
  /\ background \in 0 .. N + 2
  /\ vectors \subseteq Items
  /\ tagged \subseteq Items

\* The tag task is created before the texts are encoded.
EmbedInit ==
  /\ writes_back \in BOOLEAN
  /\ phase = "encoding"
  /\ write = [i \in Items |-> "queued"]
  /\ status = "not_attempted"
  /\ tags \in {"none", "running"}
  /\ background = NotStarted
  /\ vectors = {}
  /\ tagged = {}

-----------------------------------------------------------------------------
(***************************************************************************)
(* embed().                                                                *)
(***************************************************************************)

EncodeEnds ==
  /\ phase = "encoding"
  /\ phase' = IF writes_back THEN "writing"
              ELSE IF tags = "none" THEN "answered"
              ELSE "awaiting_tags"
  /\ UNCHANGED <<writes_back, write, status, tags, background, cms>>

\* The encoder raises, or the request is cancelled or times out: nothing
\* refers to the tag task any more, and it runs on.
EncodeFails ==
  /\ phase = "encoding"
  /\ phase' = "error"
  /\ UNCHANGED <<writes_back, write, status, tags, background, cms>>

\* write_one takes the semaphore.
WriteStarts(i) ==
  /\ phase = "writing"
  /\ write[i] = "queued"
  /\ Cardinality({j \in Items : write[j] = "sent"}) < Concurrency
  /\ write' = [write EXCEPT ![i] = "sent"]
  /\ UNCHANGED <<writes_back, phase, status, tags, background, cms>>

WriteStored(i) ==
  /\ write[i] = "sent"
  /\ write' = [write EXCEPT ![i] = "stored"]
  /\ vectors' = vectors \cup {i}
  /\ UNCHANGED <<writes_back, phase, status, tags, background, tagged>>

\* The write fails; the CMS may have stored it although its answer is lost.
WriteFails(i) ==
  /\ write[i] = "sent"
  /\ write' = [write EXCEPT ![i] = "failed"]
  /\ vectors' \in {vectors, vectors \cup {i}}
  /\ UNCHANGED <<writes_back, phase, status, tags, background, tagged>>

\* _cancel_optional_tags: a task that has not ended is cancelled and awaited.
Cancelled(task) == IF task = "running" THEN "cancelling" ELSE task

\* Mutant of Gathered: one failure ends the gather.
GatheredFirstFailure ==
  \/ \E i \in Items : write[i] = "failed"
  \/ \A i \in Items : write[i] = "stored"

\* gather() has an outcome of every write.
Gathered == \A i \in Items : write[i] \in {"stored", "failed"}

AllStored == \A i \in Items : write[i] = "stored"

\* Mutant of TagsAreWanted: the tags are persisted whatever the write-back did.
TagsAlwaysWanted == tags # "none"

\* Tags are persisted only for items whose vectors were.
TagsAreWanted == tags # "none" /\ AllStored

\* Mutant of Proceed: the answer waits until the tags are there.
ProceedAfterTags == TagsEnded

\* The required receipt does not wait for the optional tags.
Proceed == TRUE

\* The write-back has ended.  With every vector stored a task of its own takes
\* over the tags; otherwise they are discarded.
WriteBackEnds ==
  /\ phase = "writing"
  /\ Gathered
  /\ Proceed
  /\ status' = IF AllStored THEN "ok" ELSE "failed"
  /\ IF TagsAreWanted
     THEN /\ phase' = "answered"
          /\ background' = AwaitsTags
          /\ UNCHANGED tags
     ELSE /\ phase' = IF tags = "none" THEN "answered" ELSE "discarding"
          /\ tags' = Cancelled(tags)
          /\ UNCHANGED background
  /\ UNCHANGED <<writes_back, write, cms>>

\* Mutant of WriteBackCancelled: the tag task is left running.
WriteBackCancelledOnly ==
  /\ phase = "writing"
  /\ phase' = "error"
  /\ write' = [i \in Items |->
                 IF write[i] \in {"queued", "sent"} THEN "aborted" ELSE write[i]]
  /\ UNCHANGED <<writes_back, status, tags, background, cms>>

\* The request is cancelled or times out in the gather: every write that has
\* not ended is cancelled with it, and the CMS may have stored those sent.
WriteBackCancelled ==
  /\ phase = "writing"
  /\ phase' = IF tags = "none" THEN "error" ELSE "raising"
  /\ tags' = Cancelled(tags)
  /\ write' = [i \in Items |->
                 IF write[i] \in {"queued", "sent"} THEN "aborted" ELSE write[i]]
  /\ \E S \in SUBSET {i \in Items : write[i] = "sent"} : vectors' = vectors \cup S
  /\ UNCHANGED <<writes_back, status, background, tagged>>

\* The cancelled tag task has ended; a cancellation of the request that
\* arrives while it is awaited is swallowed.
TagsDiscarded ==
  /\ phase \in {"discarding", "raising"}
  /\ TagsEnded
  /\ phase' = IF phase = "discarding" THEN "answered" ELSE "error"
  /\ UNCHANGED <<writes_back, write, status, tags, background, cms>>

\* A request without content_ids returns the tags.
TagsAwaited ==
  /\ phase = "awaiting_tags"
  /\ TagsEnded
  /\ phase' = IF tags = "cancelled" THEN "error" ELSE "answered"
  /\ UNCHANGED <<writes_back, write, status, tags, background, cms>>

\* Cancelling the request cancels the task it awaits.
AwaitCancelled ==
  /\ phase = "awaiting_tags"
  /\ tags = "running"
  /\ tags' = "cancelling"
  /\ UNCHANGED <<writes_back, phase, write, status, background, cms>>

-----------------------------------------------------------------------------
(***************************************************************************)
(* The tag task, TaggingService.extract, and _persist_optional_tags.       *)
(***************************************************************************)

\* A cancelled task can still end with a result: the wait for a slot in its
\* LLM call swallows a cancellation that meets the grant.
TagsReturn ==
  /\ tags \in {"running", "cancelling"}
  /\ tags' \in Results \ {"cancelled"}
  /\ UNCHANGED <<writes_back, phase, write, status, background, cms>>

TagsCancelled ==
  /\ tags = "cancelling"
  /\ tags' = "cancelled"
  /\ UNCHANGED <<writes_back, phase, write, status, background, cms>>

\* Nothing is written when the extraction failed or found no tags.
PersistStarts ==
  /\ background = AwaitsTags
  /\ TagsEnded
  /\ background' = IF tags \in {"tags", "skip"} THEN 1 ELSE Ended
  /\ UNCHANGED <<writes_back, phase, write, status, tags, cms>>

\* One item after the other, whether its write succeeds or fails.
PersistOne ==
  /\ background \in Items
  /\ tagged' \in {tagged, tagged \cup {background}}
  /\ background' = IF background = N THEN Ended ELSE background + 1
  /\ UNCHANGED <<writes_back, phase, write, status, tags, vectors>>

Embed ==
  \/ EncodeEnds
  \/ EncodeFails
  \/ \E i \in Items : WriteStarts(i) \/ WriteStored(i) \/ WriteFails(i)
  \/ WriteBackEnds
  \/ TagsDiscarded

EmbedNext ==
  \/ Embed
  \/ WriteBackCancelled
  \/ TagsAwaited
  \/ AwaitCancelled
  \/ TagsReturn
  \/ TagsCancelled
  \/ PersistStarts
  \/ PersistOne

EmbedSpec == EmbedInit /\ [][EmbedNext]_evars

\* The encoder, CMS calls and cancelled tasks end; the LLM call behind the
\* tags is not relied upon to end.
EmbedFairSpec == EmbedSpec /\ WF_evars(Embed) /\ WF_evars(TagsCancelled)

-----------------------------------------------------------------------------
(***************************************************************************)
(* Properties.                                                             *)
(***************************************************************************)

HasEnded == phase \in {"answered", "error"}

\* "ok" means that the CMS has stored the vector of every item; "failed" means
\* that every write was still tried, so that what could be stored is.
ReceiptTrue ==
  phase = "answered" /\ writes_back =>
    /\ status = "ok" => vectors = Items
    /\ status = "failed" => \A i \in Items : write[i] \in {"stored", "failed"}
    /\ status # "not_attempted"

\* Topic tags are attached to no item until the vectors of all are stored.
TagsFollowVectors == tagged # {} => vectors = Items /\ status = "ok"

\* No LLM task is left running by a request whose required write-back failed or
\* was cut short, and nothing of it is written afterwards.
FailureDropsTags ==
  HasEnded /\ (status = "failed" \/ \E i \in Items : write[i] = "aborted") =>
    TagsEnded /\ background = NotStarted

\* The admission lease of a request that writes back is given up however long
\* the LLM takes over the optional tags.
LeaseGivenUp == writes_back ~> HasEnded

=============================================================================
