----------------------------- MODULE MCRequests -----------------------------
(***************************************************************************)
(* Model-checking instance of what requests are answered with: concurrent  *)
(* LLM requests for one cache entry; one /v1/related or news slide with    *)
(* its ranking; and concurrent slide requests around the slide cache.      *)
(* Every behaviour follows one of them, and the others stay as they begin. *)
(* LLM requests are interchangeable.                                       *)
(***************************************************************************)
EXTENDS LlmRequest, RelatedSearch, NewsSlide, TLC

VARIABLE handler

\* Two articles and a tweet of one source, a tweet of unknown source, and an
\* item that is no news.
FiveContents == 1 .. 5
FormatOf == <<"ARTICLE", "ARTICLE", "TWEET", "TWEET", "VIDEO">>
SourceOf == <<"daily", "daily", "daily", NoSource, "weekly">>
Neighbours == {<<>>, <<3, 1, 2, 4>>, <<4, 0, 2, 2, 5, 1>>}
FormatLists == {<<"TWEET", "ARTICLE">>, <<"ARTICLE">>,
                <<"ARTICLE", "ARTICLE", "TWEET">>}

mcvars == <<handler, vars, svars, nvars>>

Symmetry == Permutations(Requests)

MCInit ==
  /\ handler \in {"complete", "search", "slides"}
  /\ Init /\ SearchInit /\ SlideInit
  /\ handler # "complete" =>
       ~validated /\ ~known /\ ~eligible /\ entry = NoEntry
  /\ handler # "search" =>
       is_slide /\ hit_source /\ wanted = <<"ARTICLE">> /\ k = 1
  /\ handler # "slides" => order \in [Readers -> {CHOOSE o \in Orders : TRUE}]

MCNext ==
  \/ handler = "complete" /\ Next /\ UNCHANGED <<handler, svars, nvars>>
  \/ handler = "search" /\ SearchNext /\ UNCHANGED <<handler, vars, nvars>>
  \/ handler = "slides" /\ SlideNext /\ UNCHANGED <<handler, vars, svars>>

MCSpec == MCInit /\ [][MCNext]_mcvars

=============================================================================
