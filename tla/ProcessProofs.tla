--------------------------- MODULE ProcessProofs ----------------------------
(***************************************************************************)
(* Proofs about the process around the requests: MigrationFence with its   *)
(* history, for any owners, overlapping control calls, tracked requests,   *)
(* crashes and failures of Redis; EmbedRequest, for any items and          *)
(* concurrent write-backs; ServiceLifecycle, for both roles and whatever   *)
(* fails at startup.  The count of active requests is exact whatever the   *)
(* coordinators do.  As long as `restore` has not put back an owner that   *)
(* Redis no longer names, the fence has one holder, who finds itself in    *)
(* Redis until it resumes, and no request gets through.                    *)
(***************************************************************************)
EXTENDS FenceHistory, EmbedRequest, ServiceLifecycle, FiniteSetTheorems, TLAPS

-----------------------------------------------------------------------------
(***************************************************************************)
(* The count of active requests.                                           *)
(***************************************************************************)

\* The inductive invariant of the count.
Counted == inside \subseteq Requests /\ active = Cardinality(inside)

\* Every step counts what it lets in and out.
LEMMA CountStep ==
  ASSUME Counted, [FenceNext]_fvars PROVE Counted'
<1> USE DEF owner, calls, process, work
<1>1. inside \subseteq Requests /\ IsFiniteSet(inside)
  BY FenceAssumption, FS_Subset DEF Counted
<1>2. CASE UNCHANGED fvars
  BY <1>2 DEF Counted, fvars
<1>3. CASE Boot \/ BootWithoutRedis \/ StatusWithoutRedis
  BY <1>3 DEF Counted, Boot, BootWithoutRedis, StatusWithoutRedis
<1>4. CASE Crash
  BY <1>4, FS_EmptySet DEF Counted, Crash
<1>5. ASSUME NEW c \in Calls, NEW k \in Kinds, NEW o \in Owners, Begin(c, k, o)
      PROVE  Counted'
  BY <1>5 DEF Counted, Begin
<1>6. ASSUME NEW c \in Calls, Handler(c) PROVE Counted'
  BY <1>6 DEF Counted, Handler, RedisGet, Apply, RedisSet, QuiesceAnswered,
              RedisDelete, ResumeEnds, RedisFails
<1>7. ASSUME NEW r \in Requests, Enter(r) PROVE Counted'
  <2>1. Cardinality(inside \cup {r}) = Cardinality(inside) + 1
    BY <1>1, <1>7, FS_AddElement DEF Enter
  <2> QED BY <2>1, <1>7 DEF Counted, Enter
<1>8. ASSUME NEW r \in Requests, Leave(r) PROVE Counted'
  <2>1. Cardinality(inside \ {r}) = Cardinality(inside) - 1
    BY <1>1, <1>8, FS_RemoveElement DEF Leave
  <2> QED BY <2>1, <1>8 DEF Counted, Leave
<1>9. ASSUME NEW r \in Requests, BackgroundEnds(r) PROVE Counted'
  BY <1>9 DEF Counted, BackgroundEnds
<1> QED BY <1>2, <1>3, <1>4, <1>5, <1>6, <1>7, <1>8, <1>9 DEF FenceNext

\* The number the evidence gives is the number of requests inside, whatever
\* fails, is cancelled, or dies with the process.
THEOREM CountCorrect == FenceSpec => []ActiveExact
<1>1. FenceInit => Counted
  BY FS_EmptySet DEF FenceInit, Counted
<1>2. Counted /\ [FenceNext]_fvars => Counted'
  BY CountStep
<1>3. Counted => ActiveExact
  BY DEF Counted, ActiveExact
<1> QED BY <1>1, <1>2, <1>3, PTL DEF FenceSpec

-----------------------------------------------------------------------------
(***************************************************************************)
(* Overlapping control calls, none of which has been misled.               *)
(***************************************************************************)

\* The types the argument needs.
Shaped ==
  /\ program_id \in MaybeOwner /\ durable \in MaybeOwner
  /\ kind \in [Calls -> Kinds] /\ body \in [Calls -> Owners]
  /\ step \in [Calls -> Steps] /\ raw \in [Calls -> MaybeOwner]
  /\ held \subseteq Owners

\* Memory and Redis agree on who owns the fence, in a process that is connected
\* to Redis; and who was told that it holds the fence is in Redis.
Agree ==
  /\ ~running => program_id = NoOwner
  /\ running /\ connected /\ durable # NoOwner => program_id = durable
  /\ \A o \in held : durable = o

\* Calls that change the fence at a time have different owners.
Separate ==
  \A c, d \in Calls :
    /\ c # d /\ body[c] = body[d]
    /\ step[c] # "none" /\ step[d] # "none"
    => kind[c] = "status" \/ kind[d] = "status"

\* What a call knows between its Redis commands stays true until it uses it: the
\* memory names its owner from its check to its end, so every other call that
\* would change the fence is refused.
Known(c) ==
  /\ step[c] # "none" => running /\ connected
  /\ step[c] \in {"setting", "set"} => kind[c] = "quiesce"
  /\ step[c] \in {"deleting", "deleted"} => kind[c] = "resume"
  /\ step[c] \in {"setting", "set", "deleting", "deleted"} => program_id = body[c]
  /\ step[c] = "setting" => durable \in {NoOwner, body[c]}
  /\ step[c] = "set" => durable = body[c]
  /\ step[c] = "deleted" => durable = NoOwner
  /\ step[c] # "none" /\ kind[c] = "resume" => body[c] \notin held

\* The inductive invariant of a fence whose routes are not misled.
Inv == Shaped /\ Agree /\ Separate /\ \A c \in Calls : Known(c)

\* At the start there is no owner and no call.
LEMMA InvInit == FenceInit => Inv
  BY DEF FenceInit, Inv, Shaped, Agree, Separate, Known, MaybeOwner, Kinds, Steps

\* A step of a handler leaves it among the calls it was separate from.
LEMMA SeparateStays ==
  ASSUME Inv, NEW c \in Calls, NEW to \in Steps, step[c] # "none",
         step' = [step EXCEPT ![c] = to], UNCHANGED <<kind, body>>
  PROVE  Separate'
<1>1. \A d \in Calls : step'[d] # "none" => step[d] # "none"
  BY DEF Inv, Shaped
<1> QED BY <1>1 DEF Inv, Separate

\* restore only repeats what the memory says, or fills it in: with an answer
\* that is not out of date it changes nothing.
LEMMA RestoreChangesNothing ==
  ASSUME Inv, NEW c \in Calls, Apply(c), ~Misleads(c)
  PROVE  Restored(raw[c]) = program_id
<1>1. running /\ connected
  BY DEF Apply, Inv, Known
<1> QED BY <1>1 DEF Misleads, Restored, Inv, Agree

\* The check of a route keeps the invariant, if it is not misled.
LEMMA ApplyStep ==
  ASSUME Inv, NEW c \in Calls, Apply(c), ~Misleads(c)
  PROVE  Inv'
<1> USE DEF owner, calls, process, work
<1>0. /\ Shaped /\ Agree /\ Separate /\ (\A d \in Calls : Known(d))
      /\ NoOwner \notin Owners /\ step[c] = "read" /\ running /\ connected
  BY FenceAssumption DEF Inv, Apply, Known
<1>1. /\ UNCHANGED <<durable, running, connected, kind, body, raw, held>>
      /\ program_id' = IF Fits(c, program_id) THEN body[c] ELSE program_id
      /\ step' = [step EXCEPT ![c] = IF Fits(c, program_id)
                                      THEN Change[kind[c]] ELSE "none"]
  BY RestoreChangesNothing DEF Apply
<1>2. CASE ~Fits(c, program_id)
  <2>1. program_id' = program_id /\ step' = [step EXCEPT ![c] = "none"]
    BY <1>1, <1>2
  <2>2. Shaped' /\ Agree'
    BY <1>0, <1>1, <2>1 DEF Shaped, Agree, Steps
  <2>3. Separate'
    BY <1>0, <1>1, <2>1, SeparateStays DEF Steps
  <2>4. \A d \in Calls : Known(d)'
    BY <1>0, <1>1, <2>1 DEF Known, Shaped
  <2> QED BY <2>2, <2>3, <2>4 DEF Inv
<1>3. CASE kind[c] = "quiesce" /\ program_id \in {NoOwner, body[c]}
  <2>1. program_id' = body[c] /\ step' = [step EXCEPT ![c] = "setting"]
    <3>1. Fits(c, program_id) /\ Change[kind[c]] = "setting"
      BY <1>3 DEF Fits, Change
    <3> QED BY <1>1, <3>1
  <2>2. durable \in {NoOwner, body[c]}
    BY <1>0, <1>3 DEF Agree
  <2>3. Shaped' /\ Agree'
    BY <1>0, <1>1, <2>1, <2>2 DEF Shaped, Agree, Steps, MaybeOwner
  <2>4. Separate'
    BY <1>0, <1>1, <2>1, SeparateStays DEF Steps
  <2>5. ASSUME NEW d \in Calls PROVE Known(d)'
    <3>1. CASE d = c
      BY <1>0, <1>1, <1>3, <2>1, <2>2, <3>1 DEF Known, Shaped
    <3>2. CASE d # c
      <4>1. step'[d] = step[d]
        BY <2>1, <3>2
      <4>2. ASSUME step[d] \in {"setting", "set", "deleting", "deleted"}
            PROVE  program_id = body[c]
        BY <1>0, <1>3, <4>2 DEF Known, Shaped
      <4> QED BY <1>0, <1>1, <2>1, <4>1, <4>2 DEF Known
    <3> QED BY <3>1, <3>2
  <2> QED BY <2>3, <2>4, <2>5 DEF Inv
<1>4. CASE kind[c] = "resume" /\ program_id = body[c]
  <2>1. program_id' = program_id /\ step' = [step EXCEPT ![c] = "deleting"]
    <3>1. Fits(c, program_id) /\ Change[kind[c]] = "deleting"
      BY <1>4 DEF Fits, Change
    <3> QED BY <1>1, <1>4, <3>1
  <2>2. Shaped' /\ Agree'
    BY <1>0, <1>1, <2>1 DEF Shaped, Agree, Steps
  <2>3. Separate'
    BY <1>0, <1>1, <2>1, SeparateStays DEF Steps
  <2>4. \A d \in Calls : Known(d)'
    BY <1>0, <1>1, <1>4, <2>1 DEF Known, Shaped
  <2> QED BY <2>2, <2>3, <2>4 DEF Inv
<1> QED BY <1>2, <1>3, <1>4 DEF Fits

\* A call that has passed its check is the only one: the memory names its owner.
LEMMA ChangesExclude ==
  ASSUME Inv, NEW c \in Calls, NEW d \in Calls,
         step[c] \in {"setting", "set", "deleting", "deleted"},
         step[d] \in {"setting", "set", "deleting", "deleted"}
  PROVE  c = d
<1>1. /\ program_id = body[c] /\ program_id = body[d]
      /\ kind[c] # "status" /\ kind[d] # "status"
  BY DEF Inv, Known
<1> QED BY <1>1 DEF Inv, Separate

\* The other steps of a handler keep the invariant.
LEMMA HandlerStep ==
  ASSUME Inv, NEW c \in Calls, Handler(c), ~Misleads(c)
  PROVE  Inv'
<1> USE DEF owner, calls, process, work
<1>0. /\ Shaped /\ Agree /\ Separate /\ (\A d \in Calls : Known(d))
      /\ NoOwner \notin Owners
  BY FenceAssumption DEF Inv
<1>1. CASE RedisGet(c)
  <2>1. Separate'
    BY <1>1, SeparateStays DEF RedisGet, Steps
  <2> QED BY <1>0, <1>1, <2>1 DEF RedisGet, Inv, Shaped, Agree, Known, Steps
<1>2. CASE Apply(c)
  BY <1>2, ApplyStep
<1>3. CASE RedisSet(c)
  <2>1. Separate'
    BY <1>3, SeparateStays DEF RedisSet, Steps
  <2>2. Shaped' /\ Agree'
    BY <1>0, <1>3 DEF RedisSet, Shaped, Agree, Known, Steps, MaybeOwner
  <2>3. ASSUME NEW d \in Calls PROVE Known(d)'
    <3>1. CASE d = c
      BY <1>0, <1>3, <3>1 DEF RedisSet, Shaped, Known
    <3>2. CASE d # c
      <4>1. step'[d] \notin {"setting", "set", "deleting", "deleted"}
        BY <1>3, <3>2, ChangesExclude DEF RedisSet, Shaped
      <4> QED BY <1>0, <1>3, <3>2, <4>1 DEF RedisSet, Known
    <3> QED BY <3>1, <3>2
  <2> QED BY <2>1, <2>2, <2>3 DEF Inv
<1>4. CASE QuiesceAnswered(c)
  <2>1. Separate'
    BY <1>4, SeparateStays DEF QuiesceAnswered, Steps
  <2>2. Shaped' /\ Agree'
    BY <1>0, <1>4 DEF QuiesceAnswered, Shaped, Agree, Known, Steps
  <2>3. ASSUME NEW d \in Calls PROVE Known(d)'
    <3>1. CASE d = c
      BY <1>0, <1>4, <3>1 DEF QuiesceAnswered, Shaped, Known
    <3>2. CASE d # c
      <4>1. step'[d] # "none" /\ kind[d] = "resume" => body[d] # body[c]
        BY <1>0, <1>4, <3>2 DEF QuiesceAnswered, Separate, Known
      <4> QED BY <1>0, <1>4, <3>2, <4>1 DEF QuiesceAnswered, Known
    <3> QED BY <3>1, <3>2
  <2> QED BY <2>1, <2>2, <2>3 DEF Inv
<1>5. CASE RedisDelete(c)
  <2>1. Separate'
    BY <1>5, SeparateStays DEF RedisDelete, Steps
  <2>2. held = {}
    BY <1>0, <1>5 DEF RedisDelete, Shaped, Agree, Known
  <2>3. Shaped' /\ Agree'
    BY <1>0, <1>5, <2>2 DEF RedisDelete, Shaped, Agree, Steps, MaybeOwner
  <2>4. ASSUME NEW d \in Calls PROVE Known(d)'
    <3>1. CASE d = c
      BY <1>0, <1>5, <3>1 DEF RedisDelete, Shaped, Known
    <3>2. CASE d # c
      <4>1. step'[d] \notin {"setting", "set", "deleting", "deleted"}
        BY <1>5, <3>2, ChangesExclude DEF RedisDelete, Shaped
      <4> QED BY <1>0, <1>5, <3>2, <4>1 DEF RedisDelete, Known
    <3> QED BY <3>1, <3>2
  <2> QED BY <2>1, <2>3, <2>4 DEF Inv
<1>6. CASE ResumeEnds(c)
  <2>1. Separate'
    BY <1>6, SeparateStays DEF ResumeEnds, Steps
  <2>2. Shaped' /\ Agree'
    BY <1>0, <1>6 DEF ResumeEnds, Shaped, Agree, Known, Steps, MaybeOwner
  <2>3. ASSUME NEW d \in Calls PROVE Known(d)'
    <3>1. CASE d = c
      BY <1>0, <1>6, <3>1 DEF ResumeEnds, Shaped, Known
    <3>2. CASE d # c
      <4>1. step'[d] \notin {"setting", "set", "deleting", "deleted"}
        BY <1>6, <3>2, ChangesExclude DEF ResumeEnds, Shaped
      <4> QED BY <1>0, <1>6, <3>2, <4>1 DEF ResumeEnds, Known
    <3> QED BY <3>1, <3>2
  <2> QED BY <2>1, <2>2, <2>3 DEF Inv
<1>7. CASE RedisFails(c)
  <2>1. Separate'
    BY <1>7, SeparateStays DEF RedisFails, Steps
  <2> QED BY <1>0, <1>7, <2>1 DEF RedisFails, Inv, Shaped, Agree, Known, Steps
<1> QED BY <1>1, <1>2, <1>3, <1>4, <1>5, <1>6, <1>7 DEF Handler

\* Every step keeps the invariant, if no route is misled by it.
LEMMA InvStep ==
  ASSUME Inv, [FenceNext]_fvars, \A c \in Calls : ~Misleads(c)
  PROVE  Inv'
<1> USE DEF owner, calls, process, work
<1>0. NoOwner \notin Owners
  BY FenceAssumption
<1>1. CASE UNCHANGED fvars
  BY <1>1 DEF Inv, Shaped, Agree, Separate, Known, fvars
<1>2. CASE Boot
  BY <1>2 DEF Inv, Shaped, Agree, Separate, Known, Boot, Restored
<1>3. CASE BootWithoutRedis
  BY <1>3 DEF Inv, Shaped, Agree, Separate, Known, BootWithoutRedis
<1>4. CASE Crash
  BY <1>4 DEF Inv, Shaped, Agree, Separate, Known, Crash, Steps, MaybeOwner
<1>5. CASE StatusWithoutRedis
  BY <1>5 DEF Inv, Shaped, Agree, Separate, Known, StatusWithoutRedis
<1>6. ASSUME NEW c \in Calls, NEW k \in Kinds, NEW o \in Owners, Begin(c, k, o)
      PROVE  Inv'
  <2>1. Shaped' /\ Agree'
    BY <1>6 DEF Inv, Shaped, Agree, Begin, Steps
  <2>2. /\ step'[c] = "reading" /\ kind'[c] = k /\ body'[c] = o
        /\ \A d \in Calls \ {c} : /\ step'[d] = step[d] /\ kind'[d] = kind[d]
                                  /\ body'[d] = body[d]
    BY <1>6 DEF Begin, Inv, Shaped
  <2>3. Separate'
    BY <1>6, <2>2 DEF Inv, Separate, Begin, Free
  <2>4. ASSUME NEW d \in Calls PROVE Known(d)'
    BY <1>6, <2>2 DEF Inv, Known, Begin
  <2> QED BY <2>1, <2>3, <2>4 DEF Inv
<1>7. ASSUME NEW c \in Calls, Handler(c) PROVE Inv'
  BY <1>7, HandlerStep
<1>8. ASSUME NEW r \in Requests, Enter(r) \/ Leave(r) \/ BackgroundEnds(r)
      PROVE  Inv'
  BY <1>8 DEF Inv, Shaped, Agree, Separate, Known, Enter, Leave, BackgroundEnds
<1> QED BY <1>1, <1>2, <1>3, <1>4, <1>5, <1>6, <1>7, <1>8 DEF FenceNext

\* In every reachable state a route has been misled, or the invariant holds.
LEMMA InvUnlessMisled == HistorySpec => [](~misled => Inv)
<1>1. HistoryInit => (~misled => Inv)
  BY InvInit DEF HistoryInit
<1>2. ASSUME ~misled => Inv, [FenceNext /\ Notice]_hvars
      PROVE  (~misled => Inv)'
  <2>1. CASE FenceNext /\ Notice
    BY <1>2, <2>1, InvStep DEF Notice
  <2>2. CASE UNCHANGED hvars
    BY <1>2, <2>2 DEF hvars, fvars, owner, calls, process, work, Inv, Shaped,
                      Agree, Separate, Known
  <2> QED BY <1>2, <2>1, <2>2
<1> QED BY <1>1, <1>2, PTL DEF HistorySpec

\* However many control calls overlap, at most one owner is told that it holds
\* the fence, whatever fails or restarts in between, unless a route has put an
\* owner back that Redis no longer named.
THEOREM HolderUnique == HistorySpec => []OneHolderUnlessMisled
<1>1. (~misled => Inv) => OneHolderUnlessMisled
  BY DEF Inv, Agree, OneHolder, OneHolderUnlessMisled
<1> QED BY <1>1, InvUnlessMisled, PTL

\* Until then, an owner that holds the fence finds itself in Redis until it
\* resumes.
THEOREM HeldDurable == HistorySpec => []HeldIsDurableUnlessMisled
<1>1. (~misled => Inv) => HeldIsDurableUnlessMisled
  BY DEF Inv, Agree, HeldIsDurable, HeldIsDurableUnlessMisled
<1> QED BY <1>1, InvUnlessMisled, PTL

\* Until then, no new request passes a connected process while an owner holds
\* the fence or Redis says that one does.
THEOREM FenceHolds == HistorySpec => []FenceClosesUnlessMisled
<1>1. (~misled => Inv) => FenceClosesUnlessMisled
  BY FenceAssumption DEF Inv, Shaped, Agree, FenceCloses, HeldIsFenced,
                         DurableIsFenced, FenceClosesUnlessMisled
<1> QED BY <1>1, InvUnlessMisled, PTL

-----------------------------------------------------------------------------
(***************************************************************************)
(* EmbedRequest, for any number of items and concurrent write-backs.       *)
(***************************************************************************)

\* The receipt follows the writes, and is there before the request that writes
\* back is answered.
ReceiptFollowsWrites ==
  /\ \A i \in Items : write[i] = "stored" => i \in vectors
  /\ status = "ok" => \A i \in Items : write[i] = "stored"
  /\ status = "failed" => \A i \in Items : write[i] \in {"stored", "failed"}
  /\ status # "not_attempted" => phase \in {"discarding", "answered"}
  /\ phase = "discarding" => status # "not_attempted"
  /\ phase = "awaiting_tags" => ~writes_back
  /\ phase = "answered" /\ writes_back => status # "not_attempted"

\* The tags are handed over with a good receipt only, and written after that.
TagsFollowReceipt ==
  /\ background # NotStarted => status = "ok"
  /\ tagged # {} => background # NotStarted

\* A request that was cut short, or whose receipt is bad, ends after its tags.
TagsEndFirst ==
  /\ \A i \in Items : write[i] = "aborted" =>
       phase = "raising" \/ (phase = "error" /\ TagsEnded)
  /\ status = "failed" /\ phase = "answered" => TagsEnded

EmbedInv ==
  EmbedTypeOK /\ ReceiptFollowsWrites /\ TagsFollowReceipt /\ TagsEndFirst

\* At the start nothing is written and nothing is said.
LEMMA EmbedInvInit == EmbedInit => EmbedInv
  BY EmbedAssumption
  DEF EmbedInit, EmbedInv, EmbedTypeOK, ReceiptFollowsWrites,
      TagsFollowReceipt, TagsEndFirst, Items, Phases, NotStarted

\* The steps of embed() itself keep the invariant.
LEMMA EmbedInvEmbed == EmbedInv /\ Embed => EmbedInv'
<1> SUFFICES ASSUME EmbedInv, Embed PROVE EmbedInv'
  OBVIOUS
<1> USE EmbedAssumption
    DEF EmbedInv, ReceiptFollowsWrites, TagsFollowReceipt, TagsEndFirst, cms
<1>1. CASE EncodeEnds
  BY <1>1 DEF EncodeEnds, EmbedTypeOK, Phases, TagsEnded
<1>2. CASE EncodeFails
  BY <1>2 DEF EncodeFails, EmbedTypeOK, Phases, TagsEnded
<1>3. ASSUME NEW i \in Items, WriteStarts(i) PROVE EmbedInv'
  BY <1>3 DEF WriteStarts, EmbedTypeOK, TagsEnded
<1>4. ASSUME NEW i \in Items, WriteStored(i) PROVE EmbedInv'
  BY <1>4 DEF WriteStored, EmbedTypeOK, TagsEnded
<1>5. ASSUME NEW i \in Items, WriteFails(i) PROVE EmbedInv'
  BY <1>5 DEF WriteFails, EmbedTypeOK, TagsEnded
<1>6. CASE WriteBackEnds
  <2>1. phase = "writing" /\ status = "not_attempted" /\ background = NotStarted
        /\ tagged = {}
    BY <1>6 DEF WriteBackEnds
  <2>2. /\ \A i \in Items : write[i] \in {"stored", "failed"}
        /\ UNCHANGED <<writes_back, write, vectors, tagged>>
    BY <1>6 DEF WriteBackEnds, Gathered
  <2>3. CASE AllStored /\ tags # "none"
    <3>1. /\ status' = "ok" /\ phase' = "answered" /\ tags' = tags
          /\ background' = N + 1
      BY <1>6, <2>3 DEF WriteBackEnds, TagsAreWanted, AwaitsTags
    <3> QED BY <2>1, <2>2, <2>3, <3>1
            DEF AllStored, EmbedTypeOK, Phases, TagsEnded, NotStarted
  <2>4. CASE AllStored /\ tags = "none"
    <3>1. /\ status' = "ok" /\ phase' = "answered" /\ tags' = tags
          /\ background' = background
      BY <1>6, <2>4 DEF WriteBackEnds, TagsAreWanted, Cancelled
    <3> QED BY <2>1, <2>2, <2>4, <3>1
            DEF AllStored, EmbedTypeOK, Phases, TagsEnded
  <2>5. CASE ~AllStored
    <3>1. /\ status' = "failed" /\ background' = background
          /\ phase' = IF tags = "none" THEN "answered" ELSE "discarding"
          /\ tags' = Cancelled(tags)
      BY <1>6, <2>5 DEF WriteBackEnds, TagsAreWanted
    <3>2. tags' \in {"none", "running", "cancelling"} \cup Results
          /\ (tags = "none" => tags' = "none")
      BY <3>1 DEF Cancelled, EmbedTypeOK
    <3> QED BY <2>1, <2>2, <3>1, <3>2 DEF EmbedTypeOK, Phases, TagsEnded
  <2> QED BY <2>3, <2>4, <2>5
<1>7. CASE TagsDiscarded
  BY <1>7 DEF TagsDiscarded, EmbedTypeOK, Phases, TagsEnded
<1> QED BY <1>1, <1>2, <1>3, <1>4, <1>5, <1>6, <1>7 DEF Embed

\* Every step keeps the invariant: cancellations, and the tasks beside.
LEMMA EmbedInvStep == EmbedInv /\ [EmbedNext]_evars => EmbedInv'
<1> SUFFICES ASSUME EmbedInv, [EmbedNext]_evars PROVE EmbedInv'
  OBVIOUS
<1> USE EmbedAssumption
    DEF EmbedInv, ReceiptFollowsWrites, TagsFollowReceipt, TagsEndFirst, cms
<1>1. CASE Embed
  BY <1>1, EmbedInvEmbed
<1>2. CASE WriteBackCancelled
  <2>1. /\ phase = "writing" /\ status = "not_attempted"
        /\ phase' = IF tags = "none" THEN "error" ELSE "raising"
        /\ tags' = Cancelled(tags)
        /\ UNCHANGED <<writes_back, status, background, tagged>>
    BY <1>2 DEF WriteBackCancelled
  <2>2. tags' \in {"none", "running", "cancelling"} \cup Results
        /\ (tags = "none" => tags' = "none")
    BY <2>1 DEF Cancelled, EmbedTypeOK
  <2>3. /\ vectors \subseteq vectors' /\ vectors' \subseteq Items
        /\ write' \in [Items -> {"queued", "sent", "stored", "failed", "aborted"}]
        /\ \A i \in Items : write'[i] = "stored" => write[i] = "stored"
    BY <1>2 DEF WriteBackCancelled, EmbedTypeOK
  <2> QED BY <2>1, <2>2, <2>3 DEF EmbedTypeOK, Phases, TagsEnded
<1>3. CASE TagsAwaited
  BY <1>3 DEF TagsAwaited, EmbedTypeOK, Phases, TagsEnded
<1>4. CASE AwaitCancelled
  BY <1>4 DEF AwaitCancelled, EmbedTypeOK, TagsEnded
<1>5. CASE TagsReturn
  BY <1>5 DEF TagsReturn, EmbedTypeOK, TagsEnded, Results
<1>6. CASE TagsCancelled
  BY <1>6 DEF TagsCancelled, EmbedTypeOK, TagsEnded, Results
<1>7. CASE PersistStarts
  <2>1. background # NotStarted /\ background' \in {1, N + 2}
        /\ UNCHANGED <<writes_back, phase, write, status, tags, vectors, tagged>>
    BY <1>7 DEF PersistStarts, NotStarted, AwaitsTags, Ended
  <2> QED BY <2>1 DEF EmbedTypeOK, TagsEnded, NotStarted
<1>8. CASE PersistOne
  <2>1. /\ background \in 1 .. N /\ background' \in 1 .. N + 2
        /\ tagged' \subseteq Items
        /\ UNCHANGED <<writes_back, phase, write, status, tags, vectors>>
    BY <1>8 DEF PersistOne, Ended, Items, EmbedTypeOK
  <2> QED BY <2>1 DEF EmbedTypeOK, TagsEnded, NotStarted
<1>9. CASE UNCHANGED evars
  BY <1>9 DEF evars, EmbedTypeOK, TagsEnded
<1> QED BY <1>1, <1>2, <1>3, <1>4, <1>5, <1>6, <1>7, <1>8, <1>9 DEF EmbedNext

\* Every reachable state of a request satisfies the invariant.
LEMMA EmbedInvAlways == EmbedSpec => []EmbedInv
<1>1. EmbedInit => EmbedInv
  BY EmbedInvInit
<1>2. EmbedInv /\ [EmbedNext]_evars => EmbedInv'
  BY EmbedInvStep
<1> QED BY <1>1, <1>2, PTL DEF EmbedSpec

\* Every reachable state is well typed.
THEOREM EmbedTypeCorrect == EmbedSpec => []EmbedTypeOK
<1>1. EmbedInv => EmbedTypeOK
  BY DEF EmbedInv
<1> QED BY <1>1, EmbedInvAlways, PTL

\* A receipt "ok" means that the CMS has the vector of every item, and "failed"
\* that every write was tried, whatever is cancelled or fails in between.
THEOREM ReceiptCorrect == EmbedSpec => []ReceiptTrue
<1>1. EmbedInv => ReceiptTrue
  BY DEF EmbedInv, ReceiptFollowsWrites, EmbedTypeOK, ReceiptTrue
<1> QED BY <1>1, EmbedInvAlways, PTL

\* No item is tagged before the vectors of all items are stored.
THEOREM TagsComeLast == EmbedSpec => []TagsFollowVectors
<1>1. EmbedInv => TagsFollowVectors
  BY DEF EmbedInv, ReceiptFollowsWrites, TagsFollowReceipt, EmbedTypeOK,
         TagsFollowVectors
<1> QED BY <1>1, EmbedInvAlways, PTL

\* A request whose write-back failed or was cut short leaves no LLM task and
\* nothing to be written behind.
THEOREM NothingIsLeftBehind == EmbedSpec => []FailureDropsTags
<1>1. EmbedInv => FailureDropsTags
  BY DEF EmbedInv, ReceiptFollowsWrites, TagsFollowReceipt, TagsEndFirst,
         FailureDropsTags, HasEnded
<1> QED BY <1>1, EmbedInvAlways, PTL

-----------------------------------------------------------------------------
(***************************************************************************)
(* ServiceLifecycle, for both roles and whatever fails at startup.         *)
(***************************************************************************)

Starting == {"boot", "redis", "building", "refused"}

\* The tasks there may be at each stage, and the client that goes with them:
\* what is closed first is gone before what it uses.  After the LLM client there
\* are only tag tasks that ran on when it was closed, and what they start.
TasksOfStage ==
  /\ stage \in Starting => tasks = {}
  /\ stage = "reranker" /\ role = "reranker" => tasks = {}
  /\ stage \in {"reranker", "serving", "meter"} /\ role = "reranker" =>
       tasks \subseteq {"snapshot", "meter"}
  /\ stage \in {"embedder", "llm"} => role = "api"
  /\ stage = "building" => role = "api"
  /\ stage = "meter" => "snapshot" \notin tasks
  /\ stage = "llm" => tasks \subseteq {"allowance", "tags"}
  /\ stage \in {"client", "rest", "stopped"} =>
       /\ tasks \subseteq {"allowance", "tags"}
       /\ tasks # {} => leftover

ClientOfStage ==
  /\ stage \in {"embedder", "serving", "meter", "llm", "client"} =>
       client = "open"
  /\ stage = "reranker" /\ role = "api" => client = "open"

\* The caches are only ever built on a connection, which is closed last.
CachesConnected ==
  /\ stage \in {"boot", "redis"} => ~cache
  /\ cache => store # "none"
  /\ stage # "stopped" => store # "closed"

\* /ready is asked while the process serves, and answered before it closes.
ProbedWhileServing == probe \in {"asking", "reached", "unreached"} => stage = "serving"

LifecycleInv ==
  /\ LifecycleTypeOK /\ TasksOfStage /\ ClientOfStage
  /\ CachesConnected /\ ProbedWhileServing

\* A process that boots has nothing yet.
LEMMA LifecycleInvInit == LifecycleInit => LifecycleInv
  BY DEF LifecycleInit, LifecycleInv, LifecycleTypeOK, TasksOfStage,
         ClientOfStage, CachesConnected, ProbedWhileServing, Starting, Stages,
         Embedders, Rerankers

\* Every step keeps the invariant.
LEMMA LifecycleInvStep == LifecycleInv /\ [LifecycleNext]_svars => LifecycleInv'
<1> SUFFICES ASSUME LifecycleInv, [LifecycleNext]_svars PROVE LifecycleInv'
  OBVIOUS
<1> USE DEF LifecycleInv, LifecycleTypeOK, TasksOfStage, ClientOfStage,
            CachesConnected, ProbedWhileServing, Starting, Stages, Embedders,
            Rerankers, config, models, caches, asked
<1>1. CASE Configured
  BY <1>1 DEF Configured
<1>2. CASE RedisConnected
  BY <1>2 DEF RedisConnected
<1>3. CASE BuildApi
  <2>1. /\ stage = "building" /\ stage' = "embedder" /\ client' = "open"
        /\ tasks' = {"meter"} /\ role = "api"
        /\ probe \notin {"asking", "reached", "unreached"}
        /\ UNCHANGED <<role, ranks, store, embedder, reranker, probe, leftover>>
    BY <1>3 DEF BuildApi, Build
  <2>2. cache' \in BOOLEAN /\ (cache' => store # "none")
    BY <1>3 DEF BuildApi, Build
  <2> QED BY <2>1, <2>2
<1>4. CASE LoadEmbedder
  <2>1. /\ stage = "embedder" /\ role = "api" /\ stage' \in {"reranker", "serving"}
        /\ probe \notin {"asking", "reached", "unreached"}
        /\ tasks' \subseteq {"snapshot", "meter", "allowance", "tags"}
        /\ client' = "open" /\ UNCHANGED <<role, ranks, store, cache, probe, leftover>>
    BY <1>4 DEF LoadEmbedder
  <2>2. embedder' \in Embedders /\ reranker' \in Rerankers
    BY <1>4 DEF LoadEmbedder
  <2>3. LifecycleTypeOK'
    BY <2>1, <2>2
  <2>4. TasksOfStage' /\ ClientOfStage' /\ CachesConnected' /\ ProbedWhileServing'
    BY <2>1
  <2> QED BY <2>3, <2>4
<1>5. CASE LoadReranker
  <2>1. /\ stage = "reranker" /\ stage' = "serving" /\ reranker' \in Rerankers
        /\ probe \notin {"asking", "reached", "unreached"}
        /\ UNCHANGED <<role, ranks, store, embedder, probe, leftover>>
    BY <1>5 DEF LoadReranker, Build
  <2>2. client' = "open"
    BY <1>5 DEF LoadReranker, Build
  <2>3. /\ tasks' \subseteq {"snapshot", "meter", "allowance", "tags"}
        /\ role = "reranker" => tasks' \subseteq {"snapshot", "meter"}
    BY <1>5 DEF LoadReranker, Build
  <2>4. cache' \in BOOLEAN /\ (cache' => store # "none")
    BY <1>5 DEF LoadReranker, Build
  <2>5. LifecycleTypeOK'
    BY <2>1, <2>2, <2>3, <2>4
  <2>6. TasksOfStage' /\ ClientOfStage'
    BY <2>1, <2>2, <2>3
  <2>7. CachesConnected' /\ ProbedWhileServing'
    BY <2>1, <2>4
  <2> QED BY <2>5, <2>6, <2>7
<1>6. CASE StartTask
  BY <1>6 DEF StartTask
<1>7. CASE TaskEnds
  BY <1>7 DEF TaskEnds
<1>8. CASE LingeringRefresh
  BY <1>8 DEF LingeringRefresh
<1>9. CASE AskReady
  BY <1>9 DEF AskReady
<1>10. CASE CmsAnswers
  BY <1>10 DEF CmsAnswers
<1>11. CASE AnswerReady
  BY <1>11 DEF AnswerReady
<1>12. CASE CloseSnapshots
  BY <1>12 DEF CloseSnapshots, Closing
<1>13. CASE CloseMeter
  <2>1. /\ stage = "meter" /\ tasks' = tasks \ {"meter"}
        /\ stage' = IF role = "api" THEN "llm" ELSE "client"
        /\ UNCHANGED <<role, ranks, store, cache, client, embedder, reranker,
                       probe, leftover>>
    BY <1>13 DEF CloseMeter, Closing
  <2>2. IF role = "api" THEN tasks' \subseteq {"allowance", "tags"} ELSE tasks' = {}
    BY <2>1
  <2>3. CASE role = "api"
    BY <2>1, <2>2, <2>3
  <2>4. CASE role = "reranker"
    <3>1. stage' = "client" /\ tasks' = {} /\ client' = "open"
      BY <2>1, <2>2, <2>4
    <3>2. probe \notin {"asking", "reached", "unreached"}
      BY <2>1
    <3>3. LifecycleTypeOK'
      BY <2>1, <3>1
    <3>4. TasksOfStage' /\ ClientOfStage'
      BY <2>1, <2>4, <3>1
    <3>5. CachesConnected' /\ ProbedWhileServing'
      BY <2>1, <3>1, <3>2
    <3> QED BY <3>3, <3>4, <3>5
  <2> QED BY <2>3, <2>4
<1>14. CASE CloseLlm
  <2>1. /\ stage = "llm" /\ stage' = "client" /\ tasks' = tasks \ {"allowance"}
        /\ leftover' = (leftover \/ "tags" \in tasks)
        /\ UNCHANGED <<role, ranks, store, cache, client, embedder, reranker,
                       probe>>
    BY <1>14 DEF CloseLlm, Closing
  <2>2. role = "api" /\ client = "open" /\ tasks \subseteq {"allowance", "tags"}
    BY <2>1
  <2>3. /\ tasks' \subseteq {"allowance", "tags"}
        /\ tasks' # {} => leftover'
        /\ leftover' \in BOOLEAN
    BY <2>1, <2>2
  <2>4. probe \notin {"asking", "reached", "unreached"}
    BY <2>1
  <2>5. LifecycleTypeOK'
    BY <2>1, <2>3
  <2>6. TasksOfStage' /\ ClientOfStage' /\ CachesConnected' /\ ProbedWhileServing'
    BY <2>1, <2>2, <2>3, <2>4
  <2> QED BY <2>5, <2>6
<1>15. CASE CloseClient
  BY <1>15 DEF CloseClient, Closing
<1>16. CASE CloseRest
  BY <1>16 DEF CloseRest, Closing
<1>17. CASE UNCHANGED svars
  BY <1>17 DEF svars
<1> QED
  BY <1>1, <1>2, <1>3, <1>4, <1>5, <1>6, <1>7, <1>8, <1>9, <1>10, <1>11,
     <1>12, <1>13, <1>14, <1>15, <1>16, <1>17 DEF LifecycleNext

\* Every reachable state of a process satisfies the invariant.
LEMMA LifecycleInvAlways == LifecycleSpec => []LifecycleInv
<1>1. LifecycleInit => LifecycleInv
  BY LifecycleInvInit
<1>2. LifecycleInv /\ [LifecycleNext]_svars => LifecycleInv'
  BY LifecycleInvStep
<1> QED BY <1>1, <1>2, PTL DEF LifecycleSpec

\* Every reachable state is well typed.
THEOREM LifecycleTypeCorrect == LifecycleSpec => []LifecycleTypeOK
<1>1. LifecycleInv => LifecycleTypeOK
  BY DEF LifecycleInv
<1> QED BY <1>1, LifecycleInvAlways, PTL

\* The CMS client is open as long as the snapshots, the meter or a readiness
\* probe may use it, and Redis as long as requests use the caches; a refresh of
\* an allowance outlives the client only when a tag task outlived the LLM client.
THEOREM ResourcesStayOpen == LifecycleSpec => []ResourcesOutliveUsers
<1>1. LifecycleInv => ResourcesOutliveUsers
  BY DEF LifecycleInv, LifecycleTypeOK, TasksOfStage, ClientOfStage,
         CachesConnected, ProbedWhileServing, ResourcesOutliveUsers, Starting,
         Stages
<1> QED BY <1>1, LifecycleInvAlways, PTL

=============================================================================
