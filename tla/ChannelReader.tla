---------------------------- MODULE ChannelReader ----------------------------
(***************************************************************************)
(* The YouTube reader of the extraction routes                             *)
(* (extraction/services/youtube_innertube.py).  A request is a chain of    *)
(* InnerTube calls, any of which may fail, and most failures end in an     *)
(* answer that is merely emptier.                                          *)
(*                                                                         *)
(* A payload is the sequence of its references to channels, each with what *)
(* the reader takes from it.  Numbers of subscribers, titles of videos and *)
(* the two languages of labels are left out.                               *)
(***************************************************************************)
EXTENDS Integers, Sequences, SequencesExt, FiniteSets, Ordering

CONSTANTS
  Channels,      \* channel ids
  NoChannel,
  Refs,          \* the references a payload may hold: records
                 \*   [kind, id, podcast, episodes, handle, title]
  MaxRefs,       \* bound on a payload
  MaxLinks,      \* bound on the pasted links
  Limit,         \* req.limit
  MaxRelated     \* 25

\* A plain channel result says nothing of handles.
ASSUME ReaderAssumption ==
  /\ NoChannel \notin Channels
  /\ Refs \subseteq [kind : {"lockup", "channel", "video"},
                     id : Channels \cup {NoChannel}, podcast : BOOLEAN,
                     episodes : Nat, handle : STRING, title : STRING]
  /\ \A ref \in Refs : ref.kind = "channel" => ref.handle = ""
  /\ MaxRefs \in Nat /\ MaxLinks \in Nat /\ Limit \in Nat \ {0}
  /\ MaxRelated \in Nat \ {0}

VARIABLES
  asked,     \* the operation
  reading,   \* the InnerTube call under way, or how the request ended
  payload,   \* the references of the payload that was read
  links,     \* the pasted links that are still to be resolved
  found,     \* the channels of the answer
  channel,   \* the channel a profile or its relations are about
  uploads,   \* the videos of it: talk, visual, or unknown
  sampled,   \* what /player said of the newest ones
  audio_first

rvars == <<asked, reading, payload, links, found, channel, uploads, sampled,
           audio_first>>
profile == <<channel, uploads, sampled, audio_first>>

Operations == {"podcasts", "feed", "search", "links", "channel", "related"}
Payloads == UNION {[1 .. n -> Refs] : n \in 0 .. MaxRefs}
\* A link names a channel itself, a video, or something to be resolved.
Links == {"channel", "video", "url"}
Categories == {"talk", "visual", "unknown"}

ReaderTypeOK ==
  /\ asked \in Operations
  /\ reading \in {"start", "resolve", "player", "lookup", "browse",
                  "sample", "next", "answered", "missing", "failed"}
  /\ payload \in Seq(Refs)
  /\ links \in Seq(Links)
  /\ channel \in Channels \cup {NoChannel}
  /\ uploads \in Seq(Categories) /\ sampled \in Seq(Categories)
  /\ audio_first \in BOOLEAN

ReaderInit ==
  /\ asked \in Operations
  /\ reading = "start" /\ payload = <<>> /\ found = <<>>
  /\ links \in IF asked = "links" THEN UNION {[1 .. n -> Links] : n \in 0 .. MaxLinks}
               ELSE {<<>>}
  /\ channel = NoChannel /\ uploads = <<>> /\ sampled = <<>>
  /\ audio_first = TRUE

Call(to) == reading' = to

-----------------------------------------------------------------------------
(***************************************************************************)
(* Podcast search, pasted feeds, and the channel search.                   *)
(***************************************************************************)

Position(channels, id) == SelectInSeq(channels, LAMBDA c : c.id = id)

New(ref) == [id |-> ref.id, title |-> ref.title, handle |-> ref.handle,
             podcast |-> ref.podcast, episodes |-> ref.episodes,
             mentions |-> 1]

\* The channel is known already: what is missing is filled in.  Only videos
\* fill in a title, and a plain channel result fills in nothing.
Again(old, ref) ==
  [old EXCEPT
     !.mentions = @ + 1,
     !.podcast = @ \/ ref.podcast,
     !.episodes = IF @ = 0 THEN ref.episodes ELSE @,
     !.handle = IF @ = "" /\ ref.kind # "channel" THEN ref.handle ELSE @,
     !.title = IF @ = "" /\ ref.kind = "video" THEN ref.title ELSE @]

\* Mutant of Add: a channel is only counted when it is new.
AddFirst(channels, ref) ==
  IF ref.id = NoChannel \/ Position(channels, ref.id) # 0 THEN channels
  ELSE Append(channels, New(ref))

Add(channels, ref) ==
  LET i == Position(channels, ref.id)
  IN IF ref.id = NoChannel THEN channels
     ELSE IF i = 0 THEN Append(channels, New(ref))
     ELSE [channels EXCEPT ![i] = Again(@, ref)]

\* _extract_channels_from_lockups: lockups, then channels, then videos.
Pass(ref) == CASE ref.kind = "lockup" -> 1
               [] ref.kind = "channel" -> 2
               [] ref.kind = "video" -> 3

ReadBefore(refs, i) ==
  {j \in DOMAIN refs : \/ Pass(refs[j]) < Pass(refs[i])
                       \/ Pass(refs[j]) = Pass(refs[i]) /\ j < i}

Harvest(refs) ==
  LET order == Ordered([i \in DOMAIN refs |-> ReadBefore(refs, i)])
      after[n \in 0 .. Len(refs)] ==
        IF n = 0 THEN <<>> ELSE Add(after[n - 1], refs[order[n]])
  IN after[Len(refs)]

\* The sort is stable: ties keep the order of the harvest.
Best(channels) ==
  LET Better(i, j) ==
        LET a == channels[i]  b == channels[j]
        IN \/ a.podcast /\ ~b.podcast
           \/ /\ a.podcast = b.podcast
              /\ \/ a.mentions > b.mentions
                 \/ a.mentions = b.mentions /\ i < j
      order == Ordered([j \in DOMAIN channels |->
                          {i \in DOMAIN channels : Better(i, j)}])
  IN [n \in 1 .. (IF Len(channels) < Limit THEN Len(channels) ELSE Limit) |->
        channels[order[n]]]

\* The plain search: the first results of each channel, as many as wanted.
FirstOfEach(refs) ==
  LET results == SelectSeq(refs, LAMBDA ref : ref.kind = "channel")
      Take(channels, ref) ==
        IF ref.id = NoChannel \/ Position(channels, ref.id) # 0
           \/ Len(channels) = Limit
        THEN channels ELSE Append(channels, New(ref))
  IN FoldLeft(Take, <<>>, results)

\* A feed that was pasted is no call.
Collect(refs) ==
  /\ reading = "start"
  /\ asked \in {"podcasts", "feed", "search"}
  /\ payload' = refs
  /\ found' = CASE asked = "podcasts" -> Best(Harvest(refs))
                [] asked = "feed" -> Harvest(refs)
                [] asked = "search" -> FirstOfEach(refs)
  /\ Call("answered")
  /\ UNCHANGED <<asked, links, profile>>

\* A search that fails, or that has no query, finds nothing.
CollectFails ==
  /\ reading = "start"
  /\ asked \in {"podcasts", "search"}
  /\ Call("answered")
  /\ UNCHANGED <<asked, payload, links, found, profile>>

-----------------------------------------------------------------------------
(***************************************************************************)
(* Pasted links.                                                           *)
(***************************************************************************)

\* The next link is done with: a channel that is new is kept.
Resolved(id) ==
  /\ found' = IF id = NoChannel \/ Contains(found, id) THEN found
              ELSE Append(found, id)
  /\ links' = Tail(links)
  /\ Call("start")
  /\ UNCHANGED <<asked, payload, profile>>

\* A channel id is taken as it is.
LinkIsChannel(id) ==
  /\ reading = "start" /\ links # <<>> /\ Head(links) = "channel"
  /\ Resolved(id)

LinkIsAsked ==
  /\ reading = "start" /\ links # <<>> /\ Head(links) # "channel"
  /\ Call(IF Head(links) = "video" THEN "player" ELSE "resolve")
  /\ UNCHANGED <<asked, payload, links, found, profile>>

\* A URL that leads to a video is asked for a second time.
UrlIsVideo ==
  /\ reading = "resolve"
  /\ Call("player")
  /\ UNCHANGED <<asked, payload, links, found, profile>>

\* A channel, or none: it failed, or there is nothing behind the link.
LinkAnswered(id) ==
  /\ reading \in {"resolve", "player"}
  /\ Resolved(id)

LinksDone ==
  /\ reading = "start" /\ asked = "links" /\ links = <<>>
  /\ Call("answered")
  /\ UNCHANGED <<asked, payload, links, found, profile>>

-----------------------------------------------------------------------------
(***************************************************************************)
(* A channel's profile, and the channels watched next.                     *)
(***************************************************************************)

AskProfile(id) ==
  /\ reading = "start" /\ asked \in {"channel", "related"}
  /\ \/ channel' = id /\ Call("browse")            \* a channel id
     \/ UNCHANGED channel /\ Call("lookup")        \* a handle
  /\ UNCHANGED <<asked, payload, links, found, uploads, sampled, audio_first>>

LookedUp(id) ==
  /\ reading = "lookup"
  /\ channel' = id
  /\ Call("browse")
  /\ UNCHANGED <<asked, payload, links, found, uploads, sampled, audio_first>>

\* Nothing is found, or a call fails: exists=False.
Missing ==
  /\ reading \in {"lookup", "browse"}
  /\ Call("missing")
  /\ UNCHANGED <<asked, payload, links, found, profile>>

Browsed(videos) ==
  /\ reading = "browse"
  /\ uploads' = videos
  /\ Call("sample")
  /\ UNCHANGED <<asked, payload, links, found, channel, sampled, audio_first>>

\* Visual, if all the categories that are known are, and one is.
AudioFirst(known) ==
  known = <<>> \/ \E i \in DOMAIN known : known[i] # "visual"

\* /player, for the two newest uploads; a call that fails says nothing.
Sample(category) ==
  /\ reading = "sample" /\ Len(sampled) < 2 /\ Len(sampled) < Len(uploads)
  /\ category \in {uploads[Len(sampled) + 1], "unknown"}
  /\ sampled' = Append(sampled, category)
  /\ UNCHANGED <<asked, reading, payload, links, found, channel, uploads,
                 audio_first>>

Classified ==
  /\ reading = "sample" /\ (Len(sampled) = 2 \/ Len(sampled) = Len(uploads))
  /\ audio_first' = AudioFirst(SelectSeq(sampled, LAMBDA c : c # "unknown"))
  /\ Call(IF asked = "channel" \/ uploads = <<>> THEN "answered" ELSE "next")
  /\ UNCHANGED <<asked, payload, links, found, channel, uploads, sampled>>

\* Every other channel that is named beside the newest upload, once.
NextAnswered(refs) ==
  LET Take(channels, ref) ==
        IF ref.id \in {NoChannel, channel} \/ Contains(channels, ref.id)
           \/ Len(channels) = MaxRelated
        THEN channels ELSE Append(channels, ref.id)
  IN /\ reading = "next"
     /\ found' = FoldLeft(Take, <<>>,
                          SelectSeq(refs, LAMBDA ref : ref.kind = "lockup"))
     /\ Call("answered")
     /\ UNCHANGED <<asked, payload, links, profile>>

\* The channel exists, without relations.
NextFails ==
  /\ reading = "next"
  /\ Call("answered")
  /\ UNCHANGED <<asked, payload, links, found, profile>>

\* A payload of another shape than the reader expects: the exception is what
\* the route answers.
Unreadable ==
  /\ reading \in {"start", "resolve", "player", "lookup", "browse", "sample",
                  "next"}
  /\ Call("failed")
  /\ UNCHANGED <<asked, payload, links, found, profile>>

ReaderNext ==
  \/ \E refs \in Payloads : Collect(refs) \/ NextAnswered(refs)
  \/ CollectFails
  \/ \E id \in Channels : LinkIsChannel(id) \/ AskProfile(id) \/ LookedUp(id)
  \/ LinkIsAsked
  \/ UrlIsVideo
  \/ \E id \in Channels \cup {NoChannel} : LinkAnswered(id)
  \/ LinksDone
  \/ Missing
  \/ \E n \in 0 .. 2 : \E videos \in [1 .. n -> {"talk", "visual"}] :
       Browsed(videos)
  \/ \E category \in Categories : Sample(category)
  \/ Classified
  \/ NextFails
  \/ Unreadable

ReaderSpec == ReaderInit /\ [][ReaderNext]_rvars

-----------------------------------------------------------------------------
(***************************************************************************)
(* Properties.                                                             *)
(***************************************************************************)

Naming(id) == {i \in DOMAIN payload : payload[i].id = id}

\* However the references to the channels are mixed in a payload, each channel
\* is answered once, with every mention counted, as a podcast if any shelf says
\* so, and with a handle and a number of episodes if a lockup or video has one.
HarvestExact ==
  reading = "answered" /\ asked = "feed" =>
    /\ {c.id : c \in ToSet(found)} =
         {payload[i].id : i \in DOMAIN payload} \ {NoChannel}
    /\ \A c \in ToSet(found) :
         /\ Cardinality({d \in ToSet(found) : d.id = c.id}) = 1
         /\ c.mentions = Cardinality(Naming(c.id))
         /\ c.podcast <=> \E i \in Naming(c.id) : payload[i].podcast
         /\ (c.episodes > 0) <=> \E i \in Naming(c.id) : payload[i].episodes > 0
         /\ (c.handle # "") <=> \E i \in Naming(c.id) : payload[i].handle # ""

\* "a single off or mis-tagged upload ... must not misflag an otherwise talk
\* channel": a channel that is not audio-first has no talk among the uploads
\* that are sampled.
OneUploadDoesNotDecide ==
  reading = "answered" /\ asked = "channel" /\ Len(uploads) = 2 /\ ~audio_first
    => \A i \in DOMAIN uploads : uploads[i] = "visual"

=============================================================================
