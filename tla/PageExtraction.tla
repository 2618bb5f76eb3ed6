--------------------------- MODULE PageExtraction ---------------------------
(***************************************************************************)
(* One POST /v1/extract or /v1/extract/feed                                *)
(* (extraction/services/extraction.py): the page behind a URL is fetched   *)
(* hop by hop, every hop after its own check, and is read as a feed or as  *)
(* an article.                                                             *)
(*                                                                         *)
(* What a server sends is free.  A page is its content type, its size, and *)
(* the number of feed items in it; texts, titles, dates and images are     *)
(* left out.  The check of a URL (common/utils/url_guard.py) is a set.     *)
(***************************************************************************)
EXTENDS Integers, Sequences, SequencesExt

CONSTANTS
  Urls,
  Secure,       \* the https URLs
  Public,       \* the URLs validate_public_url lets through
  MaxHops,      \* 5
  MaxBytes,     \* MAX_RESPONSE_BYTES, in steps of a chunk
  MaxItems      \* MAX_FEED_ITEMS

ASSUME ExtractionAssumption ==
  /\ Secure \subseteq Urls /\ Public \subseteq Urls
  /\ MaxHops \in Nat \ {0} /\ MaxBytes \in Nat /\ MaxItems \in Nat \ {0}

VARIABLES
  whole,     \* the whole feed is asked for
  extract,   \* how far the request has come
  url,       \* current
  trail,     \* the URLs fetched so far
  body,      \* the bytes received of the current page
  document   \* what is answered

evars == <<whole, extract, url, trail, body, document>>

NoDocument == [kind |-> "none"]

\* What the content type of a page says: one of _ALLOWED_CONTENT_TYPES, none
\* at all, or another one.
Types == {"allowed", "absent", "other"}

PageTypeOK ==
  /\ whole \in BOOLEAN
  /\ extract \in {"checking", "receiving", "answered", "refused", "failed"}
  /\ url \in Urls
  /\ trail \in Seq(Urls)
  /\ body \in 0 .. MaxBytes
  /\ document \in {NoDocument}
       \cup [kind : {"feed", "article"}, url : Urls, items : 1 .. MaxItems]

PageInit ==
  /\ whole \in BOOLEAN
  /\ extract = "checking"
  /\ url \in Urls
  /\ trail = <<>> /\ body = 0 /\ document = NoDocument

\* An ExtractionError, answered 422.
Refuse ==
  /\ extract' = "refused"
  /\ UNCHANGED <<whole, url, trail, body, document>>

\* _guard_url; the request is sent.
Check ==
  /\ extract = "checking"
  /\ Len(trail) < MaxHops
  /\ url \in Public
  /\ extract' = "receiving"
  /\ trail' = Append(trail, url)
  /\ body' = 0
  /\ UNCHANGED <<whole, url, document>>

Unchecked ==
  /\ extract = "checking"
  /\ url \notin Public \/ Len(trail) = MaxHops
  /\ Refuse

\* _BoundedFetcher: the transfer is aborted by the chunk that would go over the
\* limit.
Chunk ==
  /\ extract = "receiving"
  /\ IF body < MaxBytes
     THEN /\ body' = body + 1
          /\ UNCHANGED <<whole, extract, url, trail, document>>
     ELSE Refuse

\* A timeout, a connection that breaks, a URL that cannot be parsed.
TransportFails ==
  /\ extract \in {"checking", "receiving"}
  /\ extract' = "failed"
  /\ UNCHANGED <<whole, url, trail, body, document>>

\* Mutant of Follows: the scheme is not looked at.
FollowsAnywhere(to) == TRUE

\* Not from https to http.
Follows(to) == url \in Secure => to \in Secure

\* A redirect with a location.
Redirected(to) ==
  /\ extract = "receiving"
  /\ IF Follows(to)
     THEN /\ extract' = "checking"
          /\ url' = to
          /\ UNCHANGED <<whole, trail, body, document>>
     ELSE Refuse

\* A redirect without one.
RedirectedNowhere == extract = "receiving" /\ Refuse

\* The parsed feed, if the page looks like one and has items; the page as an
\* article otherwise.  A single extraction takes the first item.
Read(items) ==
  IF items = 0
  THEN [kind |-> "article", url |-> url, items |-> 1]
  ELSE [kind |-> "feed", url |-> url,
        items |-> IF ~whole THEN 1
                  ELSE IF items > MaxItems THEN MaxItems ELSE items]

\* Every other status, of an error too: what was received is read.
Received(type, items) ==
  /\ extract = "receiving"
  /\ IF type = "other"
     THEN Refuse
     ELSE /\ extract' = "answered"
          /\ document' = Read(items)
          /\ UNCHANGED <<whole, url, trail, body>>

PageNext ==
  \/ Check
  \/ Unchecked
  \/ Chunk
  \/ TransportFails
  \/ \E to \in Urls : Redirected(to)
  \/ RedirectedNowhere
  \/ \E type \in Types, items \in 0 .. MaxItems + 1 : Received(type, items)

PageSpec == PageInit /\ [][PageNext]_evars

\* However a chain of redirects leads on: every URL that was fetched had passed
\* the check and the chain is bounded, once on https it never left it, and what
\* is answered is the page at its end.
DocumentOfLastHop ==
  /\ Len(trail) <= MaxHops
  /\ ToSet(trail) \subseteq Public
  /\ \A i, j \in DOMAIN trail :
       i < j /\ trail[i] \in Secure => trail[j] \in Secure
  /\ extract = "answered" => trail # <<>> /\ document.url = Last(trail)

=============================================================================
