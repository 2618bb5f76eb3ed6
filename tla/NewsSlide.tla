----------------------------- MODULE NewsSlide -----------------------------
(***************************************************************************)
(* Concurrent POST /v1/feed/news/slide requests for one anchor             *)
(* (retrieval/services/feed_news.py, retrieval/clients/slide_cache.py)     *)
(* while the CMS switches its serving view.                                *)
(*                                                                         *)
(* A view stands for the tuple of tenant and generation ids.  A slide is   *)
(* the view its items came from and the order of the formats in it; how    *)
(* its items are ranked is in RelatedSearch.  The CMS answers a call that  *)
(* is pinned to a view out of that view, or refuses it; the anchor's own   *)
(* row always names the view it is in.                                     *)
(***************************************************************************)
EXTENDS Integers

CONSTANTS
  Readers,   \* concurrent slide requests for the same formats
  Orders,    \* the orders in which they name these formats
  NoSlide,   \* no cache entry, no answer
  LastView   \* bound: the CMS switches its view this often

ASSUME ViewAssumption == LastView \in Nat

VARIABLES
  head,    \* the CMS's active view of the anchor
  slides,  \* slides[v]: the cache entry under the key made of view v
  reader,  \* reader[r]: how far request r has come
  order,   \* order[r]: its formats
  view,    \* view[r]: the view read for the anchor
  anchor,  \* anchor[r]: the view of the anchor's vector, used from there on
  slide    \* slide[r]: its answer

nvars == <<head, slides, reader, order, view, anchor, slide>>

Views == 0 .. LastView
Slides == [view : Views, order : Orders]

SlideTypeOK ==
  /\ head \in Views
  /\ slides \in [Views -> Slides \cup {NoSlide}]
  /\ reader \in [Readers -> {"start", "lookup", "resolving", "searching",
                             "storing", "answered", "not_found", "error"}]
  /\ order \in [Readers -> Orders]
  /\ view \in [Readers -> Views] /\ anchor \in [Readers -> Views]
  /\ slide \in [Readers -> Slides \cup {NoSlide}]

SlideInit ==
  /\ head = 0
  /\ slides = [v \in Views |-> NoSlide]
  /\ reader = [r \in Readers |-> "start"]
  /\ order \in [Readers -> Orders]
  /\ view = [r \in Readers |-> 0] /\ anchor = [r \in Readers |-> 0]
  /\ slide = [r \in Readers |-> NoSlide]

Go(r, to) == reader' = [reader EXCEPT ![r] = to]

SwitchView ==
  /\ head < LastView
  /\ head' = head + 1
  /\ UNCHANGED <<slides, reader, order, view, anchor, slide>>

\* get_content_item_basic: the anchor is read before the cache is.
ReadAnchor(r) ==
  /\ reader[r] = "start"
  /\ view' = [view EXCEPT ![r] = head]
  /\ Go(r, "lookup")
  /\ UNCHANGED <<head, slides, order, anchor, slide>>

\* The key holds the sorted formats: an entry serves them in any order.
Hit(r) ==
  /\ reader[r] = "lookup"
  /\ slides[view[r]] # NoSlide
  /\ slide' = [slide EXCEPT ![r] = slides[view[r]]]
  /\ Go(r, "answered")
  /\ UNCHANGED <<head, slides, order, view, anchor>>

\* No entry, one that cannot be decoded, or a Redis that fails.
Miss(r) ==
  /\ reader[r] = "lookup"
  /\ Go(r, "resolving")
  /\ UNCHANGED <<head, slides, order, view, anchor, slide>>

\* Mutant of SameView: the view of the anchor's vector is not compared.
AnyView(r, v) == TRUE

\* _resolve_query: the supplied view is still that of the anchor.
SameView(r, v) == v = view[r]

\* get_content_embeddings names the view the anchor is in by now, or the one
\* that was asked for.
Resolve(r, v) ==
  /\ reader[r] = "resolving"
  /\ v \in {view[r], head}
  /\ SameView(r, v)
  /\ anchor' = [anchor EXCEPT ![r] = v]
  /\ Go(r, "searching")
  /\ UNCHANGED <<head, slides, order, view, slide>>

\* ValueError: the slide is not found.
ViewMoved(r) ==
  /\ reader[r] = "resolving"
  /\ ~SameView(r, head)
  /\ Go(r, "not_found")
  /\ UNCHANGED <<head, slides, order, view, anchor, slide>>

\* kNN and rerank, pinned to the view of the vector; see RelatedSearch.
Assemble(r) ==
  /\ reader[r] = "searching"
  /\ slide' = [slide EXCEPT ![r] = [view |-> anchor[r], order |-> order[r]]]
  /\ Go(r, "storing")
  /\ UNCHANGED <<head, slides, order, view, anchor>>

\* SlideCache.set under the key of the view that was read first; a Redis that
\* fails is logged.
Store(r) ==
  /\ reader[r] = "storing"
  /\ \/ slides' = [slides EXCEPT ![view[r]] = slide[r]]
     \/ UNCHANGED slides
  /\ Go(r, "answered")
  /\ UNCHANGED <<head, order, view, anchor, slide>>

\* A CMS call fails: 404 for a CMS that says so, 502 or 500 otherwise.
Fail(r) ==
  /\ reader[r] \in {"start", "resolving", "searching"}
  /\ \E how \in {"not_found", "error"} : Go(r, how)
  /\ UNCHANGED <<head, slides, order, view, anchor, slide>>

SlideExpires ==
  /\ \E v \in Views : slides[v] # NoSlide
                      /\ slides' = [slides EXCEPT ![v] = NoSlide]
  /\ UNCHANGED <<head, reader, order, view, anchor, slide>>

\* The slot of a request that has ended serves the next one.
Renew(r) ==
  /\ reader[r] \in {"answered", "not_found", "error"}
  /\ slide' = [slide EXCEPT ![r] = NoSlide]
  /\ Go(r, "start")
  /\ \E o \in Orders : order' = [order EXCEPT ![r] = o]
  /\ UNCHANGED <<head, slides, view, anchor>>

Serve(r) ==
  \/ ReadAnchor(r)
  \/ Hit(r)
  \/ Miss(r)
  \/ \E v \in Views : Resolve(r, v)
  \/ ViewMoved(r)
  \/ Assemble(r)
  \/ Store(r)
  \/ Fail(r)
  \/ Renew(r)

SlideNext == SwitchView \/ SlideExpires \/ \E r \in Readers : Serve(r)

SlideSpec == SlideInit /\ [][SlideNext]_nvars

\* However often the view switches between the CMS calls of a request, what it
\* answers is made of the view its anchor was in when the request began, also
\* when another request had cached it.
SlideOfOneView ==
  \A r \in Readers : reader[r] = "answered" => slide[r].view = view[r]

\* "Round-robin interleave across required formats in caller order": the slide
\* that a request is answered with takes the formats in the order it named.
SlideInCallerOrder ==
  \A r \in Readers : reader[r] = "answered" => slide[r].order = order[r]

=============================================================================
