--------------------------- MODULE RelatedSearch ---------------------------
(***************************************************************************)
(* One dense search with its optional rerank stage                         *)
(* (retrieval/services/related.py), answered by POST /v1/related or made   *)
(* into a news slide by the ranking rules (retrieval/services/ranking.py,  *)
(* called from feed_news.py).                                              *)
(*                                                                         *)
(* Contents are numbers in the order of their ids.  Every CMS and reranker *)
(* call may fail, and may answer less than it was asked for.  Texts, dates *)
(* and the size of a score are left out: a dense score is DenseScore, a    *)
(* rerank score one of Scores, and freshness lowers a score or keeps it.   *)
(***************************************************************************)
EXTENDS Integers, Sequences, SequencesExt, FiniteSets, Ordering

CONSTANTS
  Contents,      \* ids of CMS content, numbers
  HitLists,      \* what kNN may return: sequences of ids, 0 for a missing one
  Format,        \* Format[c]: content_format, or a value of its own if c is no NEWS
  Source,        \* Source[c]: source_name, or NoSource
  NoSource,
  FormatOrders,  \* the req.formats a slide is asked for
  InputK,        \* RERANK_INPUT_K
  MaxPerSource,  \* NEWS_MAX_PER_SOURCE
  DenseScore, Scores

ASSUME SearchAssumption ==
  /\ Contents \subseteq Nat \ {0} /\ IsFiniteSet(Contents)
  /\ HitLists \subseteq Seq(Contents \cup {0})
  /\ \A formats \in FormatOrders : formats \in Seq(ToSet(formats))
  /\ InputK \in Nat \ {0} /\ MaxPerSource \in Nat \ {0}
  /\ DenseScore \in Nat /\ Scores \subseteq Nat

VARIABLES
  stage,       \* how far the request has come
  is_slide,    \* it is a news slide, which is anchored on content and reranks
  by_content,  \* the anchor is a content_id
  wanted,      \* req.formats of a slide
  k,           \* req.k
  hit_source,  \* kNN hits carry source_name
  candidates,  \* the candidates that are reranked
  texts,       \* ids for which batch_text returned a text
  ranked,      \* what RelatedService has ordered
  rescored,    \* the same after apply_freshness_decay
  shown        \* the results of the answer

inputs == <<is_slide, by_content, wanted, hit_source, k>>
svars == <<stage, inputs, candidates, texts, ranked, rescored, shown>>

Ids(items) == {items[i].id : i \in DOMAIN items}

SearchTypeOK ==
  /\ stage \in {"resolving", "searching", "texts", "anchor", "scoring",
                "ranked", "rescored", "answered", "invalid", "error"}
  /\ is_slide \in BOOLEAN /\ by_content \in BOOLEAN /\ hit_source \in BOOLEAN
  /\ wanted \in FormatOrders /\ k \in Nat
  /\ texts \subseteq Contents
  /\ \A list \in {candidates, ranked, rescored, shown} :
       Ids(list) \subseteq Contents

SearchInit ==
  /\ stage = "resolving"
  /\ is_slide \in BOOLEAN /\ by_content \in BOOLEAN /\ hit_source \in BOOLEAN
  /\ is_slide => by_content
  /\ wanted \in FormatOrders
  /\ k \in 1 .. Cardinality(Contents)
  /\ candidates = <<>> /\ texts = {} /\ ranked = <<>>
  /\ rescored = <<>> /\ shown = <<>>

-----------------------------------------------------------------------------
(***************************************************************************)
(* RelatedService.                                                         *)
(***************************************************************************)

Take(items, n) == SubSeq(items, 1, IF Len(items) < n THEN Len(items) ELSE n)

\* _dense_results: the first hit of each id, without the hits that have none.
DenseResults(hits) ==
  LET ids == Picked(hits, {i \in DOMAIN hits :
                             hits[i] # 0 /\ \A j \in 1 .. i - 1 : hits[j] # hits[i]})
  IN [n \in DOMAIN ids |->
        [id |-> ids[n], score |-> DenseScore, scored |-> FALSE,
         source |-> IF hit_source THEN Source[ids[n]] ELSE NoSource]]

\* The anchor has no vector, or is not in the view that was asked for; the
\* embedder or the CMS fails.
ResolveFails ==
  /\ stage = "resolving"
  /\ stage' \in {"invalid", "error"}
  /\ UNCHANGED <<inputs, candidates, texts, ranked, rescored, shown>>

Resolved ==
  /\ stage = "resolving"
  /\ stage' = "searching"
  /\ UNCHANGED <<inputs, candidates, texts, ranked, rescored, shown>>

SearchFails ==
  /\ stage = "searching"
  /\ stage' = "error"
  /\ UNCHANGED <<inputs, candidates, texts, ranked, rescored, shown>>

\* The rerank stage is skipped: rerank is off, or the model is not loaded.
SearchedOnly(hits) ==
  /\ stage = "searching"
  /\ stage' = "ranked"
  /\ candidates' = DenseResults(hits)
  /\ ranked' = candidates'
  /\ UNCHANGED <<inputs, texts, rescored, shown>>

\* The best RERANK_INPUT_K candidates go to the rerank stage, if there are any.
Searched(hits) ==
  /\ stage = "searching"
  /\ candidates' = Take(DenseResults(hits), InputK)
  /\ ranked' = candidates'
  /\ stage' = IF candidates' = <<>> THEN "ranked" ELSE "texts"
  /\ UNCHANGED <<inputs, texts, rescored, shown>>

\* The texts of the candidates, of those the CMS still has and that have one.
TextsArrive(found) ==
  /\ stage = "texts"
  /\ texts' = found
  /\ stage' = IF by_content THEN "anchor"
              ELSE IF found = {} THEN "ranked" ELSE "scoring"
  /\ UNCHANGED <<inputs, candidates, ranked, rescored, shown>>

\* The text of the anchor itself.
AnchorArrives ==
  /\ stage = "anchor"
  /\ stage' = IF texts = {} THEN "ranked" ELSE "scoring"
  /\ UNCHANGED <<inputs, candidates, texts, ranked, rescored, shown>>

\* batch_text fails, the anchor is gone, or the reranker fails or refuses the
\* admission: the order of the dense search stays.
RerankFails ==
  /\ stage \in {"texts", "anchor", "scoring"}
  /\ stage' = "ranked"
  /\ UNCHANGED <<inputs, candidates, texts, ranked, rescored, shown>>

Better(a, b) == a.score > b.score \/ (a.score = b.score /\ a.id < b.id)
ByScore(items) ==
  Ordered([c \in ToSet(items) |-> {b \in ToSet(items) : Better(b, c)}])

\* Mutant of Merge: what has no score is dropped.
MergeScoredOnly(scored) == ByScore(scored)

\* The scored candidates by score, then the others as the dense search had them.
Merge(scored) ==
  ByScore(scored) \o
    Picked(candidates, {i \in DOMAIN candidates : candidates[i].id \notin Ids(scored)})

\* zip: the n-th score belongs to the n-th candidate with a text, as far as
\* there are scores.
Scored(scores) ==
  LET pairs == Picked(candidates, {i \in DOMAIN candidates : candidates[i].id \in texts})
      count == IF Len(scores) < Len(pairs) THEN Len(scores) ELSE Len(pairs)
  IN [i \in 1 .. count |->
        [pairs[i] EXCEPT !.score = scores[i], !.scored = TRUE,
                         !.source = Source[pairs[i].id]]]

ScoresArrive(scores) ==
  /\ stage = "scoring"
  /\ ranked' = Merge(Scored(scores))
  /\ stage' = "ranked"
  /\ UNCHANGED <<inputs, candidates, texts, rescored, shown>>

\* The response; a slide asks for RERANK_INPUT_K results.
Response == Take(ranked, IF is_slide THEN InputK ELSE k)

AnswerRelated ==
  /\ stage = "ranked"
  /\ ~is_slide
  /\ shown' = Response
  /\ stage' = "answered"
  /\ UNCHANGED <<inputs, candidates, texts, ranked, rescored>>

-----------------------------------------------------------------------------
(***************************************************************************)
(* The ranking rules of a slide.                                           *)
(***************************************************************************)

\* apply_freshness_decay: every score is multiplied by a factor of at most one,
\* and the list is sorted again; an item of unknown age keeps its score.
Freshen(stale) ==
  /\ stage = "ranked"
  /\ is_slide
  /\ rescored' = ByScore([i \in DOMAIN Response |->
                            IF Response[i].id \in stale
                            THEN [Response[i] EXCEPT !.score = @ \div 2]
                            ELSE Response[i]])
  /\ stage' = "rescored"
  /\ UNCHANGED <<inputs, candidates, texts, ranked, shown>>

\* apply_source_diversity, in rank order; an unknown source is not capped.
Diverse(items) ==
  LET Sooner(i) == {j \in 1 .. i - 1 : items[j].source = items[i].source}
  IN Picked(items, {i \in DOMAIN items :
                      \/ items[i].source = NoSource
                      \/ Cardinality(Sooner(i)) < MaxPerSource})

\* apply_format_quotas: items of other formats are dropped, and every round
\* shows the next item of each format as often as the format is wanted.
Quotas(items, formats) ==
  LET Slots(i) == {t \in DOMAIN formats : formats[t] = Format[items[i].id]}
      Rank(i) == Cardinality({j \in 1 .. i - 1 : Format[items[j].id] =
                                                 Format[items[i].id]})
      Round(i) == Rank(i) \div Cardinality(Slots(i))
      Turn(i) == CHOOSE t \in Slots(i) :
                   Cardinality({u \in Slots(i) : u < t}) =
                     Rank(i) % Cardinality(Slots(i))
      Before(i, j) == \/ Round(i) < Round(j)
                      \/ Round(i) = Round(j) /\ Turn(i) < Turn(j)
      asked == {i \in DOMAIN items : Slots(i) # {}}
      order == Ordered([i \in asked |-> {j \in asked : Before(j, i)}])
  IN [n \in DOMAIN order |-> items[order[n]]]

\* Mutant of Slide: the slide is cut to k before the rules.
SlideCutFirst(items) == Quotas(Diverse(Take(items, k)), wanted)

\* Mutant of Slide: the formats do not take turns.
SlideByScore(items) ==
  Take(Picked(Diverse(items), {i \in DOMAIN Diverse(items) :
                                 Format[Diverse(items)[i].id] \in ToSet(wanted)}), k)

Slide(items) == Take(Quotas(Diverse(items), wanted), k)

AnswerSlide ==
  /\ stage = "rescored"
  /\ shown' = Slide(rescored)
  /\ stage' = "answered"
  /\ UNCHANGED <<inputs, candidates, texts, ranked, rescored>>

SearchNext ==
  \/ ResolveFails
  \/ Resolved
  \/ SearchFails
  \/ \E hits \in HitLists : SearchedOnly(hits) \/ Searched(hits)
  \/ \E found \in SUBSET Ids(candidates) : TextsArrive(found)
  \/ AnchorArrives
  \/ RerankFails
  \/ \E n \in 0 .. Cardinality(texts) + 1 :
       \E scores \in [1 .. n -> Scores] : ScoresArrive(scores)
  \/ AnswerRelated
  \/ \E stale \in SUBSET Ids(ranked) : Freshen(stale)
  \/ AnswerSlide

SearchSpec == SearchInit /\ [][SearchNext]_svars

-----------------------------------------------------------------------------
(***************************************************************************)
(* Properties.                                                             *)
(***************************************************************************)

Precedes(list, a, b) == \E i, j \in DOMAIN list :
                          i < j /\ list[i].id = a /\ list[j].id = b

\* Reranking only reorders: every candidate is kept once, those with a score
\* stand first by their scores, and the others keep the order of the dense
\* search, however many scores the reranker sent.  "The others" include what the
\* CMS did not return: the end of _rerank_candidates appends it, where its
\* docstring says that it drops out (ForgottenDropOut).
RerankOnlyReorders ==
  stage \in {"ranked", "answered"} =>
    /\ Ids(ranked) = Ids(candidates) /\ Len(ranked) = Len(candidates)
    /\ \A i, j \in DOMAIN ranked : i < j =>
         /\ ranked[j].scored => ranked[i].scored /\ Better(ranked[i], ranked[j])
         /\ ~ranked[i].scored =>
              Precedes(candidates, ranked[i].id, ranked[j].id)

\* What the docstring of _rerank_candidates says: in a reranked list, candidates
\* that batch_text did not return have dropped out.
ForgottenDropOut ==
  stage = "ranked" /\ (\E c \in ToSet(ranked) : c.scored) =>
    Ids(ranked) \subseteq texts

\* A slide leaves out a candidate of a wanted format only when it is full, or
\* when MaxPerSource better candidates come from the same source.
LeftOutForCause ==
  stage = "answered" /\ is_slide =>
    \A c \in ToSet(rescored) :
      Format[c.id] \in ToSet(wanted) /\ c.id \notin Ids(shown) =>
        \/ Len(shown) = k
        \/ /\ c.source # NoSource
           /\ Cardinality({b \in ToSet(rescored) :
                b.source = c.source /\ Better(b, c)}) >= MaxPerSource

\* In a slide no format is two items ahead of a wanted format that still has
\* one to show.
FormatsTakeTurns ==
  stage = "answered" /\ is_slide /\ IsInjective(wanted) =>
    \A i, j \in DOMAIN shown : i < j =>
      LET Seen(f) == Cardinality({n \in 1 .. i : Format[shown[n].id] = f})
      IN Seen(Format[shown[i].id]) <= Seen(Format[shown[j].id]) + 1

=============================================================================
