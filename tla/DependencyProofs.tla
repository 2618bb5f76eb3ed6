--------------------------- MODULE DependencyProofs ---------------------------
(***************************************************************************)
(* Proofs about GuestSession, PageExtraction, AllowanceCache and           *)
(* ChannelReader: what the calls to services outside the process, and the  *)
(* caches in front of them, leave to rely on.                              *)
(***************************************************************************)
EXTENDS GuestSession, PageExtraction, AllowanceCache, ChannelReader, LineProofs

-----------------------------------------------------------------------------
(***************************************************************************)
(* GuestSession, for any threads, profiles and sizes of the id cache.      *)
(***************************************************************************)

Steps == {"idle", "cached", "token", "activating", "storing", "request",
          "renewing", "restoring", "trimming", "keeping"}

\* The part of the types the argument needs: tokens that were issued.
Issued ==
  /\ issued \in Nat /\ guest \in 0 .. issued
  /\ at \in [Threads -> Steps] /\ retried \in [Threads -> BOOLEAN]
  /\ token \in [Threads -> 0 .. issued] /\ refused \in [Threads -> 0 .. issued]

\* A token that a thread was given and has not stored yet is known to nobody
\* else: it is not the shared one, and nobody was refused with it.
Unshared ==
  \A w \in Threads : at[w] \in {"storing", "restoring"} =>
    /\ token[w] # 0 /\ token[w] # guest
    /\ \A v \in Threads : /\ refused[v] # token[w]
                          /\ v # w => token[v] # token[w]

\* A thread that makes its second call reads a shared token that was stored
\* after it was refused, or has one that was.
Renewed ==
  \A w \in Threads : retried[w] =>
    /\ at[w] = "token" => guest # refused[w]
    /\ at[w] = "request" => token[w] # refused[w]

GuestInv == Issued /\ Unshared /\ Renewed

\* At the start no token was issued.
LEMMA GuestInvInit == GuestInit => GuestInv
  BY DEF GuestInit, GuestInv, Issued, Unshared, Renewed, Steps

\* A thread that moves on with its token, without having just been given one,
\* and makes no second call of a first one, keeps the invariant.
LEMMA ThreadMoves ==
  ASSUME GuestInv, NEW w \in Threads, NEW to \in Steps,
         to \notin {"storing", "restoring", "token", "request"},
         at' = [at EXCEPT ![w] = to],
         UNCHANGED <<session, retried, token, refused>>
  PROVE  GuestInv'
  BY DEF GuestInv, Issued, Unshared, Renewed, session

\* A thread that begins another call, or none, keeps it as well.
LEMMA ThreadBegins ==
  ASSUME GuestInv, NEW w \in Threads, NEW call, NEW to \in Steps,
         to \notin {"storing", "restoring"},
         Calls(w, call), at' = [at EXCEPT ![w] = to], UNCHANGED session
  PROVE  GuestInv'
<1> USE DEF Calls, session
<1>1. Issued'
  BY DEF GuestInv, Issued
<1>2. Unshared'
  BY DEF GuestInv, Issued, Unshared
<1>3. Renewed'
  BY DEF GuestInv, Issued, Renewed
<1> QED BY <1>1, <1>2, <1>3 DEF GuestInv

\* Every step keeps the invariant.
LEMMA GuestInvStep == GuestInv /\ [GuestNext]_gvars => GuestInv'
<1> SUFFICES ASSUME GuestInv, [GuestNext]_gvars PROVE GuestInv'
  OBVIOUS
<1> USE DEF session
<1>1. CASE UNCHANGED gvars
  BY <1>1 DEF GuestInv, Issued, Unshared, Renewed, gvars
<1>2. CASE GuestTokenAges
  BY <1>2 DEF GuestInv, Issued, Unshared, Renewed, GuestTokenAges
<1>3. ASSUME NEW w \in Threads, NEW h \in Handles, StartProfile(w, h)
      PROVE  GuestInv'
  <2>1. (IF h \in ids THEN "cached" ELSE "token") \in Steps \ {"storing", "restoring"}
    BY DEF Steps
  <2> QED BY <1>3, <2>1, ThreadBegins DEF StartProfile, Go
<1>4. ASSUME NEW w \in Threads PROVE StartRecommendations(w) => GuestInv'
  BY ThreadBegins DEF StartRecommendations, Go, Steps
<1>5. ASSUME NEW w \in Threads PROVE ReadId(w) => GuestInv'
  BY ThreadBegins DEF ReadId, TimelineNext, Go, Steps
<1>6. ASSUME NEW w \in Threads PROVE IdIsGone(w) => GuestInv'
  BY ThreadBegins DEF IdIsGone, Ends, Go, Steps
<1>7. ASSUME NEW w \in Threads PROVE Trim(w) => GuestInv'
  BY ThreadMoves DEF Trim, Go, Steps
<1>8. ASSUME NEW w \in Threads PROVE Keep(w) => GuestInv'
  BY ThreadBegins DEF Keep, TimelineNext, Go, Steps
<1>9. ASSUME NEW w \in Threads, UseToken(w) PROVE GuestInv'
  BY <1>9 DEF GuestInv, Issued, Unshared, Renewed, UseToken, Go, Steps
<1>10. ASSUME NEW w \in Threads PROVE NeedsToken(w) => GuestInv'
  BY ThreadMoves DEF NeedsToken, Go, Steps
<1>11. ASSUME NEW w \in Threads, Activated(w) PROVE GuestInv'
  <2>1. /\ issued' = issued + 1 /\ guest' = guest
        /\ token' = [token EXCEPT ![w] = issued + 1]
        /\ refused' = refused /\ retried' = retried
        /\ \E to \in {"storing", "restoring"} : at' = [at EXCEPT ![w] = to]
    BY <1>11 DEF Activated, Go
  <2>2. Issued'
    BY <2>1 DEF GuestInv, Issued, Steps
  <2>3. Unshared'
    BY <2>1 DEF GuestInv, Issued, Unshared
  <2>4. Renewed'
    BY <2>1 DEF GuestInv, Issued, Renewed
  <2> QED BY <2>2, <2>3, <2>4 DEF GuestInv
<1>12. ASSUME NEW w \in Threads PROVE ActivationFails(w) => GuestInv'
  BY ThreadBegins DEF ActivationFails, Ends, Go, Steps
<1>13. ASSUME NEW w \in Threads, StoreToken(w) PROVE GuestInv'
  <2>1. /\ issued' = issued /\ guest' = token[w]
        /\ token' = token /\ refused' = refused /\ retried' = retried
        /\ at[w] \in {"storing", "restoring"}
        /\ \E to \in {"request", "token"} : at' = [at EXCEPT ![w] = to]
    BY <1>13 DEF StoreToken, Go
  <2>2. Issued'
    BY <2>1 DEF GuestInv, Issued, Steps
  <2>3. Unshared'
    BY <2>1 DEF GuestInv, Issued, Unshared
  <2>4. Renewed'
    BY <2>1 DEF GuestInv, Issued, Unshared, Renewed
  <2> QED BY <2>2, <2>3, <2>4 DEF GuestInv
<1>14. ASSUME NEW w \in Threads, Refused(w) PROVE GuestInv'
  BY <1>14 DEF GuestInv, Issued, Unshared, Renewed, Refused, Go, Steps
<1>15. ASSUME NEW w \in Threads PROVE RefusedAgain(w) => GuestInv'
  BY ThreadBegins DEF RefusedAgain, Ends, Go, Steps
<1>16. ASSUME NEW w \in Threads PROVE UserFound(w) => GuestInv'
  BY ThreadMoves DEF UserFound, Go, Steps
<1>17. ASSUME NEW w \in Threads PROVE Found(w) => GuestInv'
  BY ThreadBegins DEF Found, Ends, Go, Steps
<1>18. ASSUME NEW w \in Threads PROVE NotFound(w) => GuestInv'
  BY ThreadBegins DEF NotFound, Ends, Go, Steps
<1> QED
  BY <1>1, <1>2, <1>3, <1>4, <1>5, <1>6, <1>7, <1>8, <1>9, <1>10, <1>11,
     <1>12, <1>13, <1>14, <1>15, <1>16, <1>17, <1>18 DEF GuestNext

\* The type invariant needs to know whose id is stored: only a thread that looks
\* up a profile gets to that, and it has one.
ProfileKnown ==
  \A w \in Threads :
    /\ lookup[w] = "user" => handle[w] \in Handles
    /\ at[w] \in {"trimming", "keeping"} => lookup[w] = "user"

\* At the start nothing is looked up.
LEMMA GuestTypesInit == GuestInit => GuestTypeOK /\ ProfileKnown
<1> SUFFICES ASSUME GuestInit PROVE GuestTypeOK /\ ProfileKnown
  OBVIOUS
<1>1. issued \in 0 .. MaxTokens /\ guest \in 0 .. issued /\ 0 \in 0 .. issued
  BY GuestAssumption DEF GuestInit
<1> QED BY <1>1 DEF GuestInit, GuestTypeOK, ProfileKnown

\* Every step keeps the types.
LEMMA GuestTypesStep ==
  ASSUME GuestTypeOK, ProfileKnown, [GuestNext]_gvars
  PROVE  GuestTypeOK' /\ ProfileKnown'
<1> USE GuestAssumption
    DEF GuestTypeOK, ProfileKnown, Go, Calls, Ends, TimelineNext, session
<1>1. CASE GuestTokenAges
  BY <1>1 DEF GuestTokenAges
<1>2. ASSUME NEW w \in Threads, NEW h \in Handles, StartProfile(w, h)
      PROVE  GuestTypeOK' /\ ProfileKnown'
  BY <1>2 DEF StartProfile
<1>3. ASSUME NEW w \in Threads, StartRecommendations(w) PROVE GuestTypeOK' /\ ProfileKnown'
  BY <1>3 DEF StartRecommendations
<1>4. ASSUME NEW w \in Threads, ReadId(w) PROVE GuestTypeOK' /\ ProfileKnown'
  BY <1>4 DEF ReadId
<1>5. ASSUME NEW w \in Threads, IdIsGone(w) PROVE GuestTypeOK' /\ ProfileKnown'
  BY <1>5 DEF IdIsGone
<1>6. ASSUME NEW w \in Threads, Trim(w) PROVE GuestTypeOK' /\ ProfileKnown'
  BY <1>6 DEF Trim
<1>7. ASSUME NEW w \in Threads, Keep(w) PROVE GuestTypeOK' /\ ProfileKnown'
  BY <1>7 DEF Keep
<1>8. ASSUME NEW w \in Threads, UseToken(w) PROVE GuestTypeOK' /\ ProfileKnown'
  BY <1>8 DEF UseToken
<1>9. ASSUME NEW w \in Threads, NeedsToken(w) PROVE GuestTypeOK' /\ ProfileKnown'
  BY <1>9 DEF NeedsToken
<1>10. ASSUME NEW w \in Threads, Activated(w) PROVE GuestTypeOK' /\ ProfileKnown'
  BY <1>10 DEF Activated
<1>11. ASSUME NEW w \in Threads, ActivationFails(w) PROVE GuestTypeOK' /\ ProfileKnown'
  BY <1>11 DEF ActivationFails
<1>12. ASSUME NEW w \in Threads, StoreToken(w) PROVE GuestTypeOK' /\ ProfileKnown'
  BY <1>12 DEF StoreToken
<1>13. ASSUME NEW w \in Threads, Refused(w) PROVE GuestTypeOK' /\ ProfileKnown'
  BY <1>13 DEF Refused
<1>14. ASSUME NEW w \in Threads, RefusedAgain(w) PROVE GuestTypeOK' /\ ProfileKnown'
  BY <1>14 DEF RefusedAgain
<1>15. ASSUME NEW w \in Threads, UserFound(w) PROVE GuestTypeOK' /\ ProfileKnown'
  BY <1>15 DEF UserFound
<1>16. ASSUME NEW w \in Threads, Found(w) PROVE GuestTypeOK' /\ ProfileKnown'
  BY <1>16 DEF Found
<1>17. ASSUME NEW w \in Threads, NotFound(w) PROVE GuestTypeOK' /\ ProfileKnown'
  BY <1>17 DEF NotFound
<1>18. CASE UNCHANGED gvars
  BY <1>18 DEF gvars
<1> QED
  BY <1>1, <1>2, <1>3, <1>4, <1>5, <1>6, <1>7, <1>8, <1>9, <1>10, <1>11,
     <1>12, <1>13, <1>14, <1>15, <1>16, <1>17, <1>18 DEF GuestNext

\* Every reachable state of the threads is well typed.
THEOREM GuestTypeCorrect == GuestSpec => []GuestTypeOK
<1>1. GuestInit => GuestTypeOK /\ ProfileKnown
  BY GuestTypesInit
<1>2. GuestTypeOK /\ ProfileKnown /\ [GuestNext]_gvars =>
        GuestTypeOK' /\ ProfileKnown'
  BY GuestTypesStep
<1> QED BY <1>1, <1>2, PTL DEF GuestSpec

\* A call that was refused is never repeated with the token it was refused
\* with, however many threads renew the shared token at the same time.
THEOREM RetriesRenewed == GuestSpec => []RetriesOnNewToken
<1>1. GuestInit => GuestInv
  BY GuestInvInit
<1>2. GuestInv /\ [GuestNext]_gvars => GuestInv'
  BY GuestInvStep
<1>3. GuestInv => RetriesOnNewToken
  BY DEF GuestInv, Renewed, RetriesOnNewToken
<1> QED BY <1>1, <1>2, <1>3, PTL DEF GuestSpec

-----------------------------------------------------------------------------
(***************************************************************************)
(* PageExtraction, for any URLs, lengths of the chain and sizes of a page. *)
(***************************************************************************)

\* What was fetched had passed the check, in a chain of bounded length that
\* does not leave https, neither so far nor to the URL that is next.
TrailSound ==
  /\ Len(trail) <= MaxHops
  /\ \A i \in DOMAIN trail :
       trail[i] \in Public /\ (trail[i] \in Secure => url \in Secure)
  /\ \A i, j \in DOMAIN trail :
       i < j /\ trail[i] \in Secure => trail[j] \in Secure

\* A page that is received, or was answered, is the last one fetched.
LastHop ==
  /\ extract = "receiving" => trail # <<>> /\ trail[Len(trail)] = url
  /\ extract = "answered" => trail # <<>> /\ document.url = trail[Len(trail)]

PageInv == PageTypeOK /\ TrailSound /\ LastHop

\* At the start nothing was fetched.
LEMMA PageInvInit == PageInit => PageInv
  BY ExtractionAssumption
  DEF PageInit, PageInv, PageTypeOK, TrailSound, LastHop, NoDocument

\* Every step keeps the invariant.
LEMMA PageInvStep == PageInv /\ [PageNext]_evars => PageInv'
<1> SUFFICES ASSUME PageInv, [PageNext]_evars PROVE PageInv'
  OBVIOUS
<1> USE ExtractionAssumption DEF PageInv, TrailSound, LastHop
<1>1. CASE Check
  <2>1. /\ trail \in Seq(Urls) /\ url \in Urls /\ url \in Public
        /\ trail' = Append(trail, url) /\ Len(trail) < MaxHops
        /\ extract' = "receiving" /\ body' = 0
        /\ UNCHANGED <<whole, url, document>>
    BY <1>1 DEF Check, PageTypeOK
  <2>2. /\ trail' \in Seq(Urls) /\ Len(trail') = Len(trail) + 1
        /\ trail'[Len(trail')] = url
        /\ \A i \in 1 .. Len(trail) : trail'[i] = trail[i]
    BY <2>1
  <2>3. PageTypeOK'
    BY <2>1, <2>2 DEF PageTypeOK
  <2> QED BY <2>1, <2>2, <2>3
<1>2. CASE Unchecked
  BY <1>2 DEF Unchecked, Refuse, PageTypeOK
<1>3. CASE Chunk
  BY <1>3 DEF Chunk, Refuse, PageTypeOK
<1>4. CASE TransportFails
  BY <1>4 DEF TransportFails, PageTypeOK
<1>5. ASSUME NEW to \in Urls, Redirected(to) PROVE PageInv'
  BY <1>5 DEF Redirected, Follows, Refuse, PageTypeOK
<1>6. CASE RedirectedNowhere
  BY <1>6 DEF RedirectedNowhere, Refuse, PageTypeOK
<1>7. ASSUME NEW type \in Types, NEW items \in 0 .. MaxItems + 1,
             Received(type, items)
      PROVE  PageInv'
  <2>1. CASE type = "other"
    BY <1>7, <2>1 DEF Received, Refuse, PageTypeOK
  <2>2. CASE type # "other"
    <3>1. /\ extract = "receiving" /\ extract' = "answered"
          /\ document' = Read(items)
          /\ UNCHANGED <<whole, url, trail, body>>
      BY <1>7, <2>2 DEF Received
    <3>2. /\ Read(items).url = url
          /\ Read(items) \in [kind : {"feed", "article"}, url : Urls,
                              items : 1 .. MaxItems]
      BY DEF Read, PageTypeOK
    <3> QED BY <3>1, <3>2 DEF PageTypeOK
  <2> QED BY <2>1, <2>2
<1>8. CASE UNCHANGED evars
  BY <1>8 DEF evars, PageTypeOK
<1> QED
  BY <1>1, <1>2, <1>3, <1>4, <1>5, <1>6, <1>7, <1>8 DEF PageNext

\* Every reachable state of an extraction satisfies the invariant.
LEMMA PageInvAlways == PageSpec => []PageInv
<1>1. PageInit => PageInv
  BY PageInvInit
<1>2. PageInv /\ [PageNext]_evars => PageInv'
  BY PageInvStep
<1> QED BY <1>1, <1>2, PTL DEF PageSpec

\* Every reachable state is well typed.
THEOREM PageTypeCorrect == PageSpec => []PageTypeOK
<1>1. PageInv => PageTypeOK
  BY DEF PageInv
<1> QED BY <1>1, PageInvAlways, PTL

\* However a server redirects, only checked URLs are fetched, as many as are
\* allowed and never http after https, and the page answered is the last one.
THEOREM AnsweredFromLastHop == PageSpec => []DocumentOfLastHop
<1>1. PageInv => DocumentOfLastHop
  BY DEF PageInv, PageTypeOK, TrailSound, LastHop, DocumentOfLastHop, ToSet,
         Last
<1> QED BY <1>1, PageInvAlways, PTL

-----------------------------------------------------------------------------
(***************************************************************************)
(* AllowanceCache, for any requests, tenants and times.                    *)
(***************************************************************************)

\* A refresh under way was answered after it began, and has not lasted longer
\* than a call may.
RefreshesTimed ==
  \A t \in Tenants : task[t] # "idle" =>
    /\ since[t] <= now /\ now - since[t] <= CallTime
    /\ task[t] # "sent" => since[t] <= decided[t] /\ decided[t] <= now

\* What is cached was decided by the CMS no longer before than a call lasts.
EntriesTimed ==
  \A t \in Tenants : entry[t] # None =>
    /\ entry[t].at <= entry[t].stored /\ entry[t].stored <= now
    /\ entry[t].stored - entry[t].at <= CallTime

\* A request is authorised once, and only on an answer that is recent.
VerdictsTimed ==
  \A c \in Callers :
    /\ caller[c] \in {"new", "asking"} => verdict[c].basis = "none"
    /\ verdict[c].basis = "cms" => verdict[c].age < Ttl + CallTime

\* The requests that went on without an answer.
Blind(t) == {c \in Callers : TenantOf[c] = t /\ verdict[c].basis = "blind"}

BlindCounted == \A t \in Tenants : guards[t] = Cardinality(Blind(t))

AllowanceInv ==
  /\ AllowanceTypeOK /\ RefreshesTimed /\ EntriesTimed /\ VerdictsTimed
  /\ BlindCounted

\* At the start nothing is cached, asked or counted.
LEMMA AllowanceInvInit == AllowanceInit => AllowanceInv
<1> SUFFICES ASSUME AllowanceInit PROVE AllowanceInv
  OBVIOUS
<1> USE AllowanceAssumption
<1>1. AllowanceTypeOK
  <2>1. 0 \in 0 .. Cardinality(Callers)
    BY FS_CardinalityType
  <2>2. [basis |-> "none"] \in Verdicts
    BY DEF Verdicts
  <2>3. 0 \in Times
    BY DEF Times
  <2> HIDE AllowanceAssumption
  <2> QED BY <2>1, <2>2, <2>3 DEF AllowanceInit, AllowanceTypeOK
<1>2. RefreshesTimed /\ EntriesTimed /\ VerdictsTimed
  BY DEF AllowanceInit, RefreshesTimed, EntriesTimed, VerdictsTimed
<1>3. BlindCounted
  <2>1. \A t \in Tenants : Blind(t) = {}
    BY DEF AllowanceInit, Blind
  <2> QED BY <2>1, FS_EmptySet DEF AllowanceInit, BlindCounted
<1> QED BY <1>1, <1>2, <1>3 DEF AllowanceInv

\* Steps that leave the requests alone leave them counted.
LEMMA CallersStay ==
  ASSUME VerdictsTimed, BlindCounted, UNCHANGED callers
  PROVE  VerdictsTimed' /\ BlindCounted'
  BY DEF VerdictsTimed, BlindCounted, Blind, callers

\* The count of requests is a set's, of no more than there are.
LEMMA BlindFinite ==
  \A t \in Tenants : /\ IsFiniteSet(Blind(t))
                     /\ Cardinality(Blind(t)) \in 0 .. Cardinality(Callers)
<1> TAKE t \in Tenants
<1>1. Blind(t) \subseteq Callers
  BY DEF Blind
<1> QED BY <1>1, AllowanceAssumption, FS_Subset, FS_CardinalityType

\* The authorisation of a request that had none is counted if it is blind.
LEMMA VerdictCounted ==
  ASSUME AllowanceInv, NEW c \in Callers, verdict[c].basis = "none",
         NEW how \in {"allowed", "denied"}, NEW v \in Verdicts,
         End(c, how, v), v.basis = "cms" => v.age < Ttl + CallTime,
         v.basis # "none",
         IF v.basis = "blind" THEN Count(TenantOf[c]) ELSE UNCHANGED guards
  PROVE  /\ VerdictsTimed' /\ BlindCounted'
         /\ caller' \in [Callers -> {"new", "asking", "allowed", "denied"}]
         /\ verdict' \in [Callers -> Verdicts]
         /\ guards' \in [Tenants -> 0 .. Cardinality(Callers)]
<1> USE AllowanceAssumption DEF AllowanceInv, AllowanceTypeOK
<1>1. /\ caller' = [caller EXCEPT ![c] = how]
      /\ verdict' = [verdict EXCEPT ![c] = v]
  BY DEF End
<1>2. VerdictsTimed'
  BY <1>1 DEF VerdictsTimed
<1>3. BlindCounted'
  <2>1. CASE v.basis = "blind"
    <3>1. guards' = [guards EXCEPT ![TenantOf[c]] = @ + 1]
      BY <2>1 DEF Count
    <3>2. /\ Blind(TenantOf[c])' = Blind(TenantOf[c]) \cup {c}
          /\ c \notin Blind(TenantOf[c])
      BY <1>1, <2>1 DEF Blind
    <3>3. \A t \in Tenants \ {TenantOf[c]} : Blind(t)' = Blind(t)
      BY <1>1 DEF Blind
    <3>4. Cardinality(Blind(TenantOf[c])') = Cardinality(Blind(TenantOf[c])) + 1
      BY <3>2, BlindFinite, FS_AddElement
    <3>5. ASSUME NEW t \in Tenants PROVE guards'[t] = Cardinality(Blind(t)')
      <4>1. CASE t = TenantOf[c]
        BY <3>1, <3>4, <4>1 DEF BlindCounted
      <4>2. CASE t # TenantOf[c]
        BY <3>1, <3>3, <4>2 DEF BlindCounted
      <4> QED BY <4>1, <4>2
    <3> QED BY <3>5 DEF BlindCounted
  <2>2. CASE v.basis # "blind"
    <3>1. \A t \in Tenants : Blind(t)' = Blind(t)
      BY <1>1, <2>2 DEF Blind
    <3> QED BY <2>2, <3>1 DEF BlindCounted
  <2> QED BY <2>1, <2>2
<1>4. guards' \in [Tenants -> 0 .. Cardinality(Callers)]
  <2>1. guards' = [t \in Tenants |-> guards'[t]]
    BY DEF Count
  <2>2. \A t \in Tenants : Cardinality(Blind(t)') \in 0 .. Cardinality(Callers)
    <3>1. \A t \in Tenants : Blind(t)' \subseteq Callers
      BY DEF Blind
    <3> QED BY <3>1, FS_Subset, FS_CardinalityType
  <2> QED BY <1>3, <2>1, <2>2 DEF BlindCounted
<1>5. caller' \in [Callers -> {"new", "asking", "allowed", "denied"}]
  BY <1>1
<1>6. verdict' \in [Callers -> Verdicts]
  BY <1>1
<1> QED BY <1>2, <1>3, <1>4, <1>5, <1>6

\* The steps of the CMS and of the refreshes keep the invariant.
LEMMA RefreshSteps ==
  ASSUME AllowanceInv,
         \/ TimePasses
         \/ \E t \in Tenants : \/ SetCap(t) \/ CmsDecides(t)
                               \/ Refreshed(t) \/ RefreshFails(t)
  PROVE  AllowanceInv'
<1> USE AllowanceAssumption
    DEF AllowanceInv, RefreshesTimed, EntriesTimed, callers, refresh, cms
<1>1. CASE TimePasses
  <2>1. VerdictsTimed' /\ BlindCounted'
    BY <1>1, CallersStay DEF TimePasses
  <2>2. /\ now < LastTick /\ now' = now + 1
        /\ UNCHANGED <<capped, entry, task, since, decided, caller, verdict,
                       guards, closed>>
        /\ \A t \in Tenants : task[t] # "idle" => now - since[t] < CallTime
    BY <1>1 DEF TimePasses
  <2>3. AllowanceTypeOK'
    BY <2>2 DEF AllowanceTypeOK, Times
  <2>4. RefreshesTimed'
    BY <2>2 DEF AllowanceTypeOK, Times
  <2>5. EntriesTimed'
    BY <2>2 DEF AllowanceTypeOK, Entries, Times
  <2> QED BY <2>1, <2>3, <2>4, <2>5
<1>2. ASSUME NEW t \in Tenants, SetCap(t) PROVE AllowanceInv'
  <2>1. VerdictsTimed' /\ BlindCounted'
    BY <1>2, CallersStay DEF SetCap
  <2> QED BY <1>2, <2>1 DEF SetCap, AllowanceTypeOK
<1>3. ASSUME NEW t \in Tenants, CmsDecides(t) PROVE AllowanceInv'
  <2>1. VerdictsTimed' /\ BlindCounted'
    BY <1>3, CallersStay DEF CmsDecides
  <2>2. /\ task[t] = "sent"
        /\ \E says \in {"capped", "allowed"} : task' = [task EXCEPT ![t] = says]
        /\ decided' = [decided EXCEPT ![t] = now]
        /\ UNCHANGED <<now, capped, entry, since, caller, verdict, guards,
                       closed>>
    BY <1>3 DEF CmsDecides
  <2>3. AllowanceTypeOK'
    BY <2>2 DEF AllowanceTypeOK
  <2>4. RefreshesTimed'
    BY <2>2 DEF AllowanceTypeOK, Times
  <2> QED BY <2>1, <2>2, <2>3, <2>4
<1>4. ASSUME NEW t \in Tenants, NEW at_ \in Times, NEW allowed \in BOOLEAN,
             NEW known \in BOOLEAN, Store(t, at_, allowed, known),
             at_ <= now, now - at_ <= CallTime
      PROVE  AllowanceInv'
  <2>1. VerdictsTimed' /\ BlindCounted'
    BY <1>4, CallersStay DEF Store
  <2>2. /\ entry' = [entry EXCEPT ![t] = [stored |-> now, at |-> at_,
                                          allowed |-> allowed, known |-> known]]
        /\ task' = [task EXCEPT ![t] = "idle"]
        /\ UNCHANGED <<now, capped, since, decided, caller, verdict, guards,
                       closed>>
    BY <1>4 DEF Store
  <2>3. AllowanceTypeOK'
    BY <2>2 DEF AllowanceTypeOK, Entries
  <2>4. RefreshesTimed'
    BY <2>2 DEF AllowanceTypeOK
  <2>5. EntriesTimed'
    BY <1>4, <2>2 DEF AllowanceTypeOK, Times
  <2> QED BY <2>1, <2>3, <2>4, <2>5
<1>5. ASSUME NEW t \in Tenants, Refreshed(t) PROVE AllowanceInv'
  <2>1. /\ task[t] \in {"allowed", "capped"}
        /\ Store(t, decided[t], task[t] = "allowed", TRUE)
    BY <1>5 DEF Refreshed
  <2>2. decided[t] \in Times /\ decided[t] <= now /\ now - decided[t] <= CallTime
    BY <2>1 DEF AllowanceTypeOK, Times
  <2>3. (task[t] = "allowed") \in BOOLEAN
    OBVIOUS
  <2> QED BY <1>4, <2>1, <2>2, <2>3
<1>6. ASSUME NEW t \in Tenants, RefreshFails(t) PROVE AllowanceInv'
  <2>1. Store(t, now, TRUE, FALSE)
    BY <1>6 DEF RefreshFails
  <2>2. now \in Times /\ now <= now /\ now - now <= CallTime
    BY DEF AllowanceTypeOK, Times
  <2> QED BY <1>4, <2>1, <2>2
<1> QED BY <1>1, <1>2, <1>3, <1>5, <1>6

\* A request reads the cache: what it finds there and has not expired is recent
\* enough to be authorised on, and a refresh begins on time.
LEMMA CheckStep ==
  ASSUME AllowanceInv, NEW c \in Callers, CheckAllowance(c)
  PROVE  AllowanceInv'
<1> USE AllowanceAssumption
<1> DEFINE t == TenantOf[c]
<1>1. /\ caller[c] = "new" /\ StartRefresh(t) /\ UNCHANGED <<cms, entry, closed>>
      /\ t \in Tenants /\ verdict[c].basis = "none"
  BY DEF CheckAllowance, AllowanceInv, VerdictsTimed
<1>2. RefreshesTimed' /\ EntriesTimed'
      /\ task' \in [Tenants -> {"idle", "sent", "allowed", "capped"}]
      /\ since' \in [Tenants -> Times] /\ decided' \in [Tenants -> Times]
  <2>1. now' = now /\ entry' = entry
    BY <1>1 DEF cms
  <2>2. CASE StaleEntry(t) /\ task[t] = "idle"
    <3>1. /\ task' = [task EXCEPT ![t] = "sent"]
          /\ since' = [since EXCEPT ![t] = now] /\ decided' = decided
      BY <1>1, <2>2 DEF StartRefresh
    <3> QED BY <1>1, <2>1, <3>1
            DEF AllowanceInv, AllowanceTypeOK, RefreshesTimed, EntriesTimed,
                Times
  <2>3. CASE ~(StaleEntry(t) /\ task[t] = "idle")
    <3>1. UNCHANGED <<task, since, decided>>
      BY <1>1, <2>3 DEF StartRefresh, refresh
    <3> QED BY <2>1, <3>1
            DEF AllowanceInv, AllowanceTypeOK, RefreshesTimed, EntriesTimed
  <2> QED BY <2>2, <2>3
<1> DEFINE Authorised ==
             /\ VerdictsTimed' /\ BlindCounted'
             /\ caller' \in [Callers -> {"new", "asking", "allowed", "denied"}]
             /\ verdict' \in [Callers -> Verdicts]
             /\ guards' \in [Tenants -> 0 .. Cardinality(Callers)]
<1>3. Authorised
  <2>1. CASE /\ ~Answer(t).known
             /\ End(c, "allowed", [basis |-> "blind"]) /\ Count(t)
    <3>1. [basis |-> "blind"] \in Verdicts
      BY DEF Verdicts
    <3> QED BY <1>1, <2>1, <3>1, VerdictCounted
  <2>2. ASSUME Answer(t).known,
               End(c, IF Answer(t).allowed THEN "allowed" ELSE "denied",
                   [basis |-> "cms", age |-> now - Answer(t).at]),
               UNCHANGED guards
        PROVE  Authorised
    <3>1. /\ entry[t] # None /\ now - entry[t].stored < Ttl
          /\ Answer(t) = entry[t]
      BY <2>2, <1>1 DEF Answer, StaleEntry, None, AllowanceInv,
                        AllowanceTypeOK, Entries, Times
    <3>2. /\ now - entry[t].at < Ttl + CallTime
          /\ now - entry[t].at \in Times
      BY <1>1, <3>1 DEF AllowanceInv, EntriesTimed, AllowanceTypeOK, Entries,
                        Times
    <3>3. [basis |-> "cms", age |-> now - entry[t].at] \in Verdicts
      BY <3>2 DEF Verdicts
    <3>4. (IF Answer(t).allowed THEN "allowed" ELSE "denied")
            \in {"allowed", "denied"}
      OBVIOUS
    <3> QED BY <1>1, <2>2, <3>1, <3>2, <3>3, <3>4, VerdictCounted
  <2>3. CASE Ask(c)
    BY <1>1, <2>3 DEF Ask, AllowanceInv, AllowanceTypeOK, VerdictsTimed,
                      BlindCounted, Blind
  <2> QED BY <2>1, <2>2, <2>3 DEF CheckAllowance
<1>4. AllowanceTypeOK'
  BY <1>1, <1>2, <1>3 DEF AllowanceInv, AllowanceTypeOK, cms
<1> QED BY <1>2, <1>3, <1>4 DEF AllowanceInv

\* A request that does not ask the cache is authorised on something else, or
\* asks the CMS.
LEMMA AuthorisedOtherwise ==
  ASSUME AllowanceInv, NEW c \in Callers, caller[c] \in {"new", "asking"},
         UNCHANGED <<cms, entry, refresh, closed>>,
         \/ /\ \E how \in {"allowed", "denied"} : End(c, how, [basis |-> "owner"])
            /\ UNCHANGED guards
         \/ End(c, "allowed", [basis |-> "blind"]) /\ Count(TenantOf[c])
         \/ Ask(c)
  PROVE  AllowanceInv'
<1>1. verdict[c].basis = "none"
  BY DEF AllowanceInv, VerdictsTimed
<1>2. /\ VerdictsTimed' /\ BlindCounted'
      /\ caller' \in [Callers -> {"new", "asking", "allowed", "denied"}]
      /\ verdict' \in [Callers -> Verdicts]
      /\ guards' \in [Tenants -> 0 .. Cardinality(Callers)]
  <2>1. [basis |-> "owner"] \in Verdicts /\ [basis |-> "blind"] \in Verdicts
    BY DEF Verdicts
  <2>2. CASE Ask(c)
    BY <1>1, <2>2 DEF Ask, AllowanceInv, AllowanceTypeOK, VerdictsTimed,
                      BlindCounted, Blind
  <2> QED BY <1>1, <2>1, <2>2, VerdictCounted
<1>3. AllowanceTypeOK' /\ RefreshesTimed' /\ EntriesTimed'
  BY <1>2 DEF AllowanceInv, AllowanceTypeOK, RefreshesTimed, EntriesTimed, cms,
              refresh
<1> QED BY <1>2, <1>3 DEF AllowanceInv

\* Every step keeps the invariant.
LEMMA AllowanceInvStep == AllowanceInv /\ [AllowanceNext]_avars => AllowanceInv'
<1> SUFFICES ASSUME AllowanceInv, [AllowanceNext]_avars PROVE AllowanceInv'
  OBVIOUS
<1>1. CASE \/ TimePasses
           \/ \E t \in Tenants : \/ SetCap(t) \/ CmsDecides(t)
                                 \/ Refreshed(t) \/ RefreshFails(t)
  BY <1>1, RefreshSteps
<1>2. ASSUME NEW c \in Callers, CheckAllowance(c) PROVE AllowanceInv'
  BY <1>2, CheckStep
<1>3. ASSUME NEW c \in Callers, ByOwner(c) PROVE AllowanceInv'
  BY <1>3, AuthorisedOtherwise DEF ByOwner
<1>4. ASSUME NEW c \in Callers, OverrideAnswered(c) PROVE AllowanceInv'
  BY <1>4, AuthorisedOtherwise DEF OverrideAnswered
<1>5. ASSUME NEW c \in Callers, OverrideFails(c) PROVE AllowanceInv'
  BY <1>5, AuthorisedOtherwise DEF OverrideFails
<1>6. CASE Close
  <2>1. VerdictsTimed' /\ BlindCounted'
    BY <1>6, CallersStay DEF Close, AllowanceInv
  <2> QED BY <1>6, <2>1
          DEF Close, AllowanceInv, AllowanceTypeOK, RefreshesTimed,
              EntriesTimed, cms, callers
<1>7. CASE UNCHANGED avars
  BY <1>7 DEF avars, AllowanceInv, AllowanceTypeOK, RefreshesTimed,
              EntriesTimed, VerdictsTimed, BlindCounted, Blind
<1> QED BY <1>1, <1>2, <1>3, <1>4, <1>5, <1>6, <1>7 DEF AllowanceNext

\* Every reachable state of the cache and its requests satisfies the invariant.
LEMMA AllowanceInvAlways == AllowanceSpec => []AllowanceInv
<1>1. AllowanceInit => AllowanceInv
  BY AllowanceInvInit
<1>2. AllowanceInv /\ [AllowanceNext]_avars => AllowanceInv'
  BY AllowanceInvStep
<1> QED BY <1>1, <1>2, PTL DEF AllowanceSpec

\* Every reachable state is well typed.
THEOREM AllowanceTypeCorrect == AllowanceSpec => []AllowanceTypeOK
<1>1. AllowanceInv => AllowanceTypeOK
  BY DEF AllowanceInv
<1> QED BY <1>1, AllowanceInvAlways, PTL

\* A request is authorised by the CMS on an answer younger than the time it is
\* kept and the time of a call, and is counted once when there is none.
THEOREM AuthorisedOnRecent == AllowanceSpec => []AnswersRecent
<1>1. AllowanceInv => AnswersRecent
  BY DEF AllowanceInv, VerdictsTimed, BlindCounted, Blind, AnswersRecent
<1> QED BY <1>1, AllowanceInvAlways, PTL

-----------------------------------------------------------------------------
(***************************************************************************)
(* ChannelReader, for any payload.                                         *)
(***************************************************************************)

Harvested == [id : Channels, title : STRING, handle : STRING, podcast : BOOLEAN,
          episodes : Nat, mentions : Nat]

\* Which of the references that were read first name a channel.
NamedBy(read, n, id) == {m \in 1 .. n : read[m].id = id}

\* What is known of a channel after the first n references.
Known(c, read, n) ==
  /\ c.mentions = Cardinality(NamedBy(read, n, c.id))
  /\ c.podcast <=> \E m \in NamedBy(read, n, c.id) : read[m].podcast
  /\ (c.episodes > 0) <=> \E m \in NamedBy(read, n, c.id) : read[m].episodes > 0
  /\ (c.handle # "") <=> \E m \in NamedBy(read, n, c.id) : read[m].handle # ""

\* The channels after the first n references: each of them once, as it is known.
Gathered(channels, read, n) ==
  /\ channels \in Seq(Harvested)
  /\ \A i, j \in DOMAIN channels : channels[i].id = channels[j].id => i = j
  /\ \A m \in 1 .. n : read[m].id # NoChannel =>
       \E i \in DOMAIN channels : channels[i].id = read[m].id
  /\ \A i \in DOMAIN channels :
       /\ \E m \in 1 .. n : read[m].id = channels[i].id
       /\ Known(channels[i], read, n)

\* Where a channel stands.
LEMMA PositionFound ==
  ASSUME NEW S, NEW channels \in Seq(S), NEW id
  PROVE  \/ /\ Position(channels, id) = 0
            /\ \A i \in DOMAIN channels : channels[i].id # id
         \/ /\ Position(channels, id) # 0
            /\ Position(channels, id) \in DOMAIN channels
            /\ channels[Position(channels, id)].id = id
<1>. DEFINE I == {i \in 1 .. Len(channels) : channels[i].id = id}
<1>1. DOMAIN channels = 1 .. Len(channels) /\ Len(channels) \in Nat
  OBVIOUS
<1>2. Position(channels, id) = IF I # {} THEN CHOOSE x \in I : \A y \in I : x <= y ELSE 0
  BY DEF Position, SelectInSeq, Min
<1>3. CASE I = {}
  BY <1>1, <1>2, <1>3
<1>4. CASE I # {}
  <2>1. I \in SUBSET Nat
    BY <1>1
  <2>2. \E x \in I : \A y \in I : x <= y
    <3>. HIDE DEF I
    <3>. QED  BY <1>4, <2>1, LeastExists
  <2>3. Position(channels, id) \in I
    <3>. HIDE DEF I
    <3>. QED  BY <1>2, <1>4, <2>2
  <2>. QED  BY <1>1, <2>3
<1>. QED  BY <1>3, <1>4

\* One more reference: only what names its channel changes.
LEMMA NamedNext ==
  ASSUME NEW N \in Nat, NEW read \in [1 .. N -> Refs], NEW n \in 1 .. N, NEW id
  PROVE  /\ read[n].id = id => NamedBy(read, n, id) = NamedBy(read, n - 1, id) \cup {n}
         /\ read[n].id # id => NamedBy(read, n, id) = NamedBy(read, n - 1, id)
         /\ n \notin NamedBy(read, n - 1, id)
         /\ IsFiniteSet(NamedBy(read, n - 1, id))
         /\ Cardinality(NamedBy(read, n - 1, id)) \in Nat
<1>1. 1 .. n = 1 .. n - 1 \cup {n} /\ n \notin 1 .. n - 1 /\ n - 1 \in Int
  OBVIOUS
<1>2. IsFiniteSet(1 .. n - 1)
  BY <1>1, FS_Interval
<1>3. IsFiniteSet(NamedBy(read, n - 1, id))
  BY <1>2, FS_Subset DEF NamedBy
<1>4. Cardinality(NamedBy(read, n - 1, id)) \in Nat
  BY <1>3, FS_CardinalityType
<1>. QED  BY <1>1, <1>3, <1>4 DEF NamedBy

\* The reference read now is one of those that name its channel.
LEMMA NamedNow ==
  ASSUME NEW N \in Nat, NEW read \in [1 .. N -> Refs], NEW n \in 1 .. N
  PROVE  NamedBy(read, n, read[n].id) = NamedBy(read, n - 1, read[n].id) \cup {n}
<1>1. \A m : m \in 1 .. n <=> m \in 1 .. n - 1 \/ m = n
  OBVIOUS
<1>. QED  BY <1>1 DEF NamedBy

\* The types of a reference and of what is made of it.
LEMMA RefTypes ==
  ASSUME NEW ref \in Refs
  PROVE  /\ ref.id \in Channels \cup {NoChannel} /\ ref.kind \in {"lockup", "channel", "video"}
         /\ ref.podcast \in BOOLEAN /\ ref.episodes \in Nat
         /\ ref.handle \in STRING /\ ref.title \in STRING
         /\ ref.kind = "channel" => ref.handle = ""
  BY ReaderAssumption

\* What is known of another channel stays.
LEMMA KnownKept ==
  ASSUME NEW N \in Nat, NEW read \in [1 .. N -> Refs], NEW n \in 1 .. N,
         NEW c, c.id # read[n].id, Known(c, read, n - 1)
  PROVE  Known(c, read, n)
<1>1. NamedBy(read, n, c.id) = NamedBy(read, n - 1, c.id)
  BY NamedNext
<1>. QED  BY <1>1 DEF Known

\* What is known of a channel after its first reference.
LEMMA KnownFirst ==
  ASSUME NEW N \in Nat, NEW read \in [1 .. N -> Refs], NEW n \in 1 .. N,
         read[n].id # NoChannel, \A m \in 1 .. n - 1 : read[m].id # read[n].id
  PROVE  New(read[n]) \in Harvested /\ Known(New(read[n]), read, n)
<1>. DEFINE ref == read[n]
<1>1. ref \in Refs
  OBVIOUS
<1>2. New(ref) \in Harvested /\ New(ref).id = ref.id
  BY <1>1, RefTypes DEF New, Harvested
<1>3. NamedBy(read, n, ref.id) = {n}
  <2>1. NamedBy(read, n - 1, ref.id) = {}
    BY DEF NamedBy
  <2>2. NamedBy(read, n, ref.id) = NamedBy(read, n - 1, ref.id) \cup {n}
    BY NamedNow
  <2>. QED  BY <2>1, <2>2
<1>4. Cardinality(NamedBy(read, n, ref.id)) = 1
  BY <1>3, FS_Singleton
<1>5. /\ New(ref).mentions = 1 /\ New(ref).podcast = ref.podcast
      /\ New(ref).episodes = ref.episodes /\ New(ref).handle = ref.handle
  BY DEF New
<1>. QED  BY <1>2, <1>3, <1>4, <1>5 DEF Known

\* What is known of a channel after another reference to it.
LEMMA KnownAgain ==
  ASSUME NEW N \in Nat, NEW read \in [1 .. N -> Refs], NEW n \in 1 .. N,
         NEW c \in Harvested, c.id = read[n].id, Known(c, read, n - 1)
  PROVE  /\ Again(c, read[n]) \in Harvested /\ Again(c, read[n]).id = c.id
         /\ Known(Again(c, read[n]), read, n)
<1>0. NamedBy(read, n, c.id) = NamedBy(read, n - 1, c.id) \cup {n}
  <2>1. NamedBy(read, n, read[n].id) = NamedBy(read, n - 1, read[n].id) \cup {n}
    BY ONLY NamedNow, n \in 1 .. N, read \in [1 .. N -> Refs], N \in Nat
  <2>. QED  BY ONLY <2>1, c.id = read[n].id
<1>. DEFINE ref == read[n]
            before == NamedBy(read, n - 1, c.id)
            mentioned == NamedBy(read, n, c.id)
            again == Again(c, ref)
<1>1. /\ ref.kind \in {"lockup", "channel", "video"}
      /\ ref.podcast \in BOOLEAN /\ ref.episodes \in Nat
      /\ ref.handle \in STRING /\ ref.title \in STRING
      /\ ref.kind = "channel" => ref.handle = ""
  BY RefTypes
<1>2. /\ c.id \in Channels /\ c.title \in STRING /\ c.handle \in STRING
      /\ c.podcast \in BOOLEAN /\ c.episodes \in Nat /\ c.mentions \in Nat
  BY DEF Harvested
<1>3. /\ again.id = c.id
      /\ again.mentions = c.mentions + 1
      /\ again.episodes = (IF c.episodes = 0 THEN ref.episodes ELSE c.episodes)
  BY DEF Again, Harvested
<1>12. again.podcast = (c.podcast \/ ref.podcast)
  BY DEF Again, Harvested
<1>13. again.handle = (IF c.handle = "" /\ ref.kind # "channel" THEN ref.handle ELSE c.handle)
  BY DEF Again, Harvested
<1>14. c.episodes \in Nat /\ c.mentions \in Nat /\ ref.episodes \in Nat
  BY <1>1, <1>2
<1>4. again \in Harvested
  <2>1. again = [c EXCEPT !.mentions = again.mentions, !.podcast = again.podcast,
                          !.episodes = again.episodes, !.handle = again.handle,
                          !.title = again.title]
    BY DEF Again, Harvested
  <2>2. again.title = c.title \/ again.title = ref.title
    BY DEF Again, Harvested
  <2>3. again.title \in STRING /\ again.handle \in STRING
    BY <1>1, <1>2, <1>13, <2>2
  <2>4. again.podcast \in BOOLEAN
    BY <1>1, <1>2, <1>12
  <2>5. again.episodes \in Nat /\ again.mentions \in Nat
    BY <1>3, <1>14
  <2>. HIDE DEF again
  <2>. QED  BY <2>1, <2>3, <2>4, <2>5 DEF Harvested
<1>5. /\ mentioned = before \cup {n} /\ n \notin before /\ IsFiniteSet(before)
      /\ Cardinality(before) \in Nat
  <2>1. mentioned = before \cup {n}
    BY <1>0
  <2>2. n \notin before /\ IsFiniteSet(before) /\ Cardinality(before) \in Nat
    BY NamedNext
  <2>. QED  BY <2>1, <2>2
<1>6. Cardinality(mentioned) = Cardinality(before) + 1
  BY <1>5, FS_AddElement
<1>7. /\ c.mentions = Cardinality(before)
      /\ c.podcast <=> \E m \in before : read[m].podcast
      /\ (c.episodes > 0) <=> \E m \in before : read[m].episodes > 0
      /\ (c.handle # "") <=> \E m \in before : read[m].handle # ""
  BY DEF Known
<1>. HIDE DEF before, mentioned, again
<1>8. again.mentions = Cardinality(mentioned)
  BY <1>3, <1>6, <1>7
<1>9. again.podcast <=> \E m \in mentioned : read[m].podcast
  BY <1>5, <1>7, <1>12
<1>10. (again.episodes > 0) <=> \E m \in mentioned : read[m].episodes > 0
  <2>1. (again.episodes > 0) <=> (c.episodes > 0) \/ (ref.episodes > 0)
    BY <1>3, <1>14
  <2>2. (\E m \in mentioned : read[m].episodes > 0)
          <=> (\E m \in before : read[m].episodes > 0) \/ (ref.episodes > 0)
    BY <1>5
  <2>. QED  BY <1>7, <2>1, <2>2
<1>11. (again.handle # "") <=> \E m \in mentioned : read[m].handle # ""
  BY <1>1, <1>5, <1>7, <1>13
<1>. QED  BY <1>3, <1>4, <1>8, <1>9, <1>10, <1>11 DEF Known, mentioned, again

\* Reading one more reference keeps the channels gathered.
LEMMA AddStep ==
  ASSUME NEW N \in Nat, NEW read \in [1 .. N -> Refs], NEW n \in 1 .. N,
         NEW channels, Gathered(channels, read, n - 1)
  PROVE  Gathered(Add(channels, read[n]), read, n)
<1>. DEFINE ref == read[n]
            p == Position(channels, ref.id)
            added == Add(channels, ref)
<1>1. /\ channels \in Seq(Harvested)
      /\ DOMAIN channels = 1 .. Len(channels) /\ Len(channels) \in Nat
      /\ \A i \in DOMAIN channels : channels[i] \in Harvested /\ channels[i].id \in Channels
      /\ \A i \in DOMAIN channels : Known(channels[i], read, n - 1)
      /\ \A i, j \in DOMAIN channels : channels[i].id = channels[j].id => i = j
  <2>1. channels \in Seq(Harvested)
    BY DEF Gathered
  <2>2. \A i \in DOMAIN channels : channels[i] \in Harvested
    BY <2>1
  <2>3. \A c \in Harvested : c.id \in Channels
    BY DEF Harvested
  <2>. QED  BY <2>1, <2>2, <2>3 DEF Gathered
<1>2. \A m \in 1 .. n : m = n \/ m \in 1 .. n - 1
  OBVIOUS
<1>3. \A m \in 1 .. n - 1 : m \in 1 .. n
  OBVIOUS
<1>4. NoChannel \notin Channels
  BY ReaderAssumption
<1>5. CASE ref.id = NoChannel
  <2>1. added = channels
    BY <1>5 DEF Add
  <2>2. \A i \in DOMAIN channels : Known(channels[i], read, n)
    BY <1>1, <1>4, <1>5, KnownKept
  <2>. QED  BY <1>2, <1>3, <1>5, <2>1, <2>2 DEF Gathered
<1>6. CASE ref.id # NoChannel /\ p = 0
  <2>1. added = Append(channels, New(ref))
    BY <1>6 DEF Add
  <2>2. \A i \in DOMAIN channels : channels[i].id # ref.id
    BY <1>1, <1>6, PositionFound
  <2>3. \A m \in 1 .. n - 1 : read[m].id # ref.id
    BY <1>6, <2>2 DEF Gathered
  <2>4. New(ref) \in Harvested /\ Known(New(ref), read, n) /\ New(ref).id = ref.id
    BY <1>6, <2>3, KnownFirst DEF New
  <2>5. \A i \in DOMAIN channels : Known(channels[i], read, n)
    BY <1>1, <2>2, KnownKept
  <2>. HIDE DEF added, ref, p
  <2>6. /\ added \in Seq(Harvested)
        /\ DOMAIN added = 1 .. Len(channels) + 1
        /\ added[Len(channels) + 1] = New(ref)
        /\ \A i \in DOMAIN channels : i \in DOMAIN added /\ added[i] = channels[i]
    BY <1>1, <2>1, <2>4
  <2>7. \A i \in DOMAIN added : i = Len(channels) + 1 \/ i \in DOMAIN channels
    BY <1>1, <2>6
  <2>8. \A i, j \in DOMAIN added : added[i].id = added[j].id => i = j
    BY <1>1, <2>2, <2>4, <2>6, <2>7
  <2>9. ASSUME NEW m \in 1 .. n, read[m].id # NoChannel
        PROVE  \E i \in DOMAIN added : added[i].id = read[m].id
    <3>1. CASE m = n
      <4>1. Len(channels) + 1 \in DOMAIN added
        BY <1>1, <2>6
      <4>. QED  BY <2>4, <2>6, <3>1, <4>1 DEF ref
    <3>2. CASE m \in 1 .. n - 1
      BY <2>6, <2>9, <3>2 DEF Gathered
    <3>. QED  BY <1>2, <3>1, <3>2
  <2>10. ASSUME NEW i \in DOMAIN added
         PROVE  (\E m \in 1 .. n : read[m].id = added[i].id) /\ Known(added[i], read, n)
    <3>1. CASE i = Len(channels) + 1
      <4>1. n \in 1 .. n
        OBVIOUS
      <4>. QED  BY <2>4, <2>6, <3>1, <4>1 DEF ref
    <3>2. CASE i \in DOMAIN channels
      BY <1>3, <2>5, <2>6, <3>2 DEF Gathered
    <3>. QED  BY <2>7, <3>1, <3>2
  <2>11. Gathered(added, read, n)
    BY <2>6, <2>8, <2>9, <2>10 DEF Gathered
  <2>. QED  BY <2>11 DEF added, ref
<1>7. CASE ref.id # NoChannel /\ p # 0
  <2>1. added = [channels EXCEPT ![p] = Again(channels[p], ref)]
    BY <1>7 DEF Add
  <2>2. p \in DOMAIN channels /\ channels[p].id = ref.id
    BY <1>1, <1>7, PositionFound
  <2>3. /\ Again(channels[p], ref) \in Harvested /\ Again(channels[p], ref).id = channels[p].id
        /\ Known(Again(channels[p], ref), read, n)
    BY <1>1, <2>2, KnownAgain
  <2>4. \A i \in DOMAIN channels : i # p => channels[i].id # ref.id
    BY <1>1, <2>2
  <2>5. \A i \in DOMAIN channels : i # p => Known(channels[i], read, n)
    BY <1>1, <2>4, KnownKept
  <2>. HIDE DEF added, ref, p
  <2>6. /\ added \in Seq(Harvested) /\ DOMAIN added = DOMAIN channels
        /\ added[p] = Again(channels[p], ref)
        /\ \A i \in DOMAIN channels : i # p => added[i] = channels[i]
    BY <1>1, <2>1, <2>2, <2>3
  <2>7. \A i \in DOMAIN channels : added[i].id = channels[i].id /\ Known(added[i], read, n)
    BY <2>3, <2>5, <2>6
  <2>8. ASSUME NEW m \in 1 .. n, read[m].id # NoChannel
        PROVE  \E i \in DOMAIN added : added[i].id = read[m].id
    <3>1. CASE m = n
      BY <2>2, <2>6, <2>7, <3>1 DEF ref
    <3>2. CASE m \in 1 .. n - 1
      BY <2>6, <2>7, <2>8, <3>2 DEF Gathered
    <3>. QED  BY <1>2, <3>1, <3>2
  <2>9. ASSUME NEW i \in DOMAIN added
        PROVE  \E m \in 1 .. n : read[m].id = added[i].id
    BY <1>3, <2>6, <2>7 DEF Gathered
  <2>10. Gathered(added, read, n)
    BY <1>1, <2>6, <2>7, <2>8, <2>9 DEF Gathered
  <2>. QED  BY <2>10 DEF added, ref
<1>. QED  BY <1>5, <1>6, <1>7

\* f says what is gathered after every reference.
Unfolds(f, read, m) ==
  f = [n \in 0 .. m |-> IF n = 0 THEN <<>> ELSE Add(f[n - 1], read[n])]

LEMMA UnfoldsExists ==
  ASSUME NEW N \in Nat, NEW read
  PROVE  \E f : Unfolds(f, read, N)
<1>. DEFINE S == {m \in 0 .. N : ~\E f : Unfolds(f, read, m)}
<1>1. SUFFICES ASSUME S # {}  PROVE  FALSE
  <2>1. N \in 0 .. N
    OBVIOUS
  <2>. QED  BY <2>1
<1>2. PICK m \in S : \A l \in S : m <= l
  <2>1. S \in SUBSET Nat
    OBVIOUS
  <2>. HIDE DEF S
  <2>. QED  BY <1>1, <2>1, LeastExists
<1>3. m \in 0 .. N /\ ~\E f : Unfolds(f, read, m)
  OBVIOUS
<1>4. CASE m = 0
  <2>. DEFINE f == [n \in 0 .. 0 |-> <<>>]
  <2>1. f = [n \in 0 .. 0 |-> IF n = 0 THEN <<>> ELSE Add(f[n - 1], read[n])]
    OBVIOUS
  <2>2. Unfolds(f, read, 0)
    BY <2>1 DEF Unfolds
  <2>. QED  BY <1>3, <1>4, <2>2
<1>5. CASE m # 0
  <2>1. m - 1 \in 0 .. N /\ m - 1 \notin S
    BY <1>2, <1>3, <1>5
  <2>2. PICK g : Unfolds(g, read, m - 1)
    BY <2>1
  <2>3. \A n \in 0 .. m - 1 : g[n] = IF n = 0 THEN <<>> ELSE Add(g[n - 1], read[n])
    <3>1. g = [n \in 0 .. m - 1 |-> IF n = 0 THEN <<>> ELSE Add(g[n - 1], read[n])]
      BY <2>2 DEF Unfolds
    <3>. QED  BY <3>1
  <2>. DEFINE f == [n \in 0 .. m |-> IF n = m THEN Add(g[m - 1], read[m]) ELSE g[n]]
  <2>4. ASSUME NEW n \in 0 .. m
        PROVE  f[n] = IF n = 0 THEN <<>> ELSE Add(f[n - 1], read[n])
    <3>1. CASE n = m
      <4>1. m - 1 \in 0 .. m /\ m - 1 # m
        BY <1>3, <1>5
      <4>2. f[m - 1] = g[m - 1]
        BY <4>1
      <4>3. f[m] = Add(g[m - 1], read[m])
        BY <1>3
      <4>. QED  BY <1>5, <3>1, <4>2, <4>3
    <3>2. CASE n # m
      <4>1. n \in 0 .. m - 1
        BY <1>3, <3>2
      <4>2. f[n] = g[n]
        BY <3>2
      <4>3. n # 0 => f[n - 1] = g[n - 1]
        <5>1. n # 0 => n - 1 \in 0 .. m /\ n - 1 # m
          BY <1>3, <4>1
        <5>. QED  BY <5>1
      <4>. HIDE DEF f
      <4>. QED  BY <2>3, <4>1, <4>2, <4>3
    <3>. QED  BY <3>1, <3>2
  <2>5. f = [n \in 0 .. m |-> f[n]]
    OBVIOUS
  <2>. HIDE DEF f
  <2>6. [n \in 0 .. m |-> f[n]]
          = [n \in 0 .. m |-> IF n = 0 THEN <<>> ELSE Add(f[n - 1], read[n])]
    BY <2>4
  <2>7. Unfolds(f, read, m)
    BY <2>5, <2>6 DEF Unfolds
  <2>. QED  BY <1>3, <2>7
<1>. QED  BY <1>4, <1>5

\* The channels are gathered after every reference.
LEMMA UnfoldsGathered ==
  ASSUME NEW N \in Nat, NEW read \in [1 .. N -> Refs], NEW f, Unfolds(f, read, N)
  PROVE  Gathered(f[N], read, N)
<1>1. \A n \in 0 .. N : f[n] = IF n = 0 THEN <<>> ELSE Add(f[n - 1], read[n])
  <2>1. f = [n \in 0 .. N |-> IF n = 0 THEN <<>> ELSE Add(f[n - 1], read[n])]
    BY DEF Unfolds
  <2>. QED  BY <2>1
<1>. DEFINE S == {n \in 0 .. N : ~Gathered(f[n], read, n)}
<1>2. SUFFICES ASSUME S # {}  PROVE  FALSE
  <2>1. N \in 0 .. N
    OBVIOUS
  <2>. QED  BY <2>1
<1>3. PICK m \in S : \A l \in S : m <= l
  <2>1. S \in SUBSET Nat
    OBVIOUS
  <2>. HIDE DEF S
  <2>. QED  BY <1>2, <2>1, LeastExists
<1>4. m \in 0 .. N /\ ~Gathered(f[m], read, m)
  OBVIOUS
<1>5. CASE m = 0
  <2>1. f[0] = <<>>
    BY <1>1, <1>4, <1>5
  <2>2. Gathered(<<>>, read, 0)
    BY DEF Gathered
  <2>. QED  BY <1>4, <1>5, <2>1, <2>2
<1>6. CASE m # 0
  <2>1. m - 1 \in 0 .. N /\ m - 1 \notin S /\ m \in 1 .. N
    BY <1>3, <1>4, <1>6
  <2>2. Gathered(f[m - 1], read, m - 1)
    BY <2>1
  <2>3. f[m] = Add(f[m - 1], read[m])
    BY <1>1, <1>4, <1>6
  <2>. HIDE DEF S
  <2>4. Gathered(f[m], read, m)
    BY <2>1, <2>2, <2>3, AddStep
  <2>. QED  BY <1>4, <2>4
<1>. QED  BY <1>5, <1>6

\* The references are read in an order that leaves none out.
LEMMA ReadOrder ==
  ASSUME NEW N \in Nat, NEW refs \in [1 .. N -> Refs]
  PROVE  LET order == Ordered([i \in DOMAIN refs |-> ReadBefore(refs, i)])
         IN  order \in Bijection(1 .. N, 1 .. N)
<1>. DEFINE S == 1 .. N
            before == [i \in DOMAIN refs |-> ReadBefore(refs, i)]
            order == Ordered(before)
<1>1. \A i \in S : Pass(refs[i]) \in Int
  <2>1. \A i \in S : refs[i] \in Refs
    OBVIOUS
  <2>2. ASSUME NEW ref \in Refs  PROVE  Pass(ref) \in Int
    <3>1. ref.kind = "lockup" \/ ref.kind = "channel" \/ ref.kind = "video"
      BY RefTypes
    <3>2. ref.kind = "lockup" => Pass(ref) = 1
      BY DEF Pass
    <3>3. ref.kind = "channel" => Pass(ref) = 2
      BY DEF Pass
    <3>4. ref.kind = "video" => Pass(ref) = 3
      BY DEF Pass
    <3>. QED  BY <3>1, <3>2, <3>3, <3>4
  <2>. QED  BY <2>1, <2>2
<1>2. /\ before \in [S -> SUBSET S]
      /\ \A i, j \in S : j \in before[i] <=> \/ Pass(refs[j]) < Pass(refs[i])
                                             \/ Pass(refs[j]) = Pass(refs[i]) /\ j < i
  BY DEF ReadBefore
<1>3. IsFiniteSet(S) /\ Cardinality(S) = N
  <2>1. IsFiniteSet(S) /\ Cardinality(S) = IF 1 > N THEN 0 ELSE N - 1 + 1
    BY FS_Interval
  <2>. QED  BY <2>1
<1>. HIDE DEF before
<1>4. OrderOn(S, before)
  <2>1. \A i \in S : i \notin before[i]
    BY <1>1, <1>2
  <2>2. ASSUME NEW h \in S, NEW i \in S, NEW j \in S, h \in before[i], i \in before[j]
        PROVE  h \in before[j]
    BY <1>1, <1>2, <2>2
  <2>3. ASSUME NEW i \in S, NEW j \in S, i # j  PROVE  i \in before[j] \/ j \in before[i]
    BY <1>1, <1>2, <2>3
  <2>4. \A i, j \in S : j \in before[i] => before[j] \subseteq before[i]
    BY <1>2, <2>2
  <2>. QED  BY <1>2, <1>3, <2>1, <2>3, <2>4 DEF OrderOn
<1>. HIDE DEF S
<1>5. /\ order \in [1 .. Cardinality(S) -> S]
      /\ \A i \in S : \E n \in 1 .. Cardinality(S) : order[n] = i
      /\ \A m, n \in 1 .. Cardinality(S) : m < n <=> order[m] \in before[order[n]]
  BY <1>4, OrderedLine
<1>. HIDE DEF order
<1>6. /\ order \in [S -> S]
      /\ \A i \in S : \E n \in S : order[n] = i
      /\ \A m, n \in S : m < n <=> order[m] \in before[order[n]]
  BY <1>3, <1>5 DEF S
<1>7. ASSUME NEW m \in S, NEW n \in S, order[m] = order[n]  PROVE  m = n
  <2>1. order[m] \notin before[order[m]]
    BY <1>4, <1>6 DEF OrderOn
  <2>2. ~(m < n) /\ ~(n < m)
    BY <1>6, <1>7, <2>1
  <2>. QED  BY <2>2 DEF S
<1>8. order \in Bijection(S, S)
  BY <1>6, <1>7 DEF Bijection, Injection, Surjection, IsInjective
<1>. QED  BY <1>8 DEF S, order, before

\* What is harvested from the references.
LEMMA HarvestLine ==
  ASSUME NEW N \in Nat, NEW refs \in [1 .. N -> Refs]
  PROVE  \E order \in Bijection(1 .. N, 1 .. N) :
           Gathered(Harvest(refs), [m \in 1 .. N |-> refs[order[m]]], N)
<1>. DEFINE order == Ordered([i \in DOMAIN refs |-> ReadBefore(refs, i)])
            read == [m \in 1 .. N |-> refs[order[m]]]
            after == CHOOSE f : f = [n \in 0 .. N |-> IF n = 0 THEN <<>>
                                                      ELSE Add(f[n - 1], refs[order[n]])]
<1>1. order \in Bijection(1 .. N, 1 .. N)
  BY ReadOrder
<1>2. Len(refs) = N /\ DOMAIN refs = 1 .. N
  OBVIOUS
<1>3. Harvest(refs) = after[N]
  BY <1>2 DEF Harvest
<1>. HIDE DEF order
<1>4. read \in [1 .. N -> Refs]
  BY <1>1 DEF Bijection, Injection
<1>5. \A f : Unfolds(f, read, N) <=>
        f = [n \in 0 .. N |-> IF n = 0 THEN <<>> ELSE Add(f[n - 1], refs[order[n]])]
  <2>. SUFFICES ASSUME NEW f
                PROVE  [n \in 0 .. N |-> IF n = 0 THEN <<>> ELSE Add(f[n - 1], read[n])]
                         = [n \in 0 .. N |-> IF n = 0 THEN <<>>
                                             ELSE Add(f[n - 1], refs[order[n]])]
    BY DEF Unfolds
  <2>1. \A n \in 0 .. N : n # 0 => read[n] = refs[order[n]]
    OBVIOUS
  <2>. HIDE DEF read
  <2>. QED  BY <2>1
<1>6. PICK g : Unfolds(g, read, N)
  BY UnfoldsExists
<1>7. Unfolds(after, read, N)
  <2>1. g = [n \in 0 .. N |-> IF n = 0 THEN <<>> ELSE Add(g[n - 1], refs[order[n]])]
    BY <1>5, <1>6
  <2>2. after = [n \in 0 .. N |-> IF n = 0 THEN <<>> ELSE Add(after[n - 1], refs[order[n]])]
    BY <2>1, Zenon
  <2>. HIDE DEF after
  <2>. QED  BY <1>5, <2>2
<1>. HIDE DEF after, read
<1>8. Gathered(after[N], read, N)
  BY <1>4, <1>7, UnfoldsGathered
<1>. QED  BY <1>1, <1>3, <1>8 DEF read

\* What the channels of a feed tell of its payload.
LEMMA HarvestTells ==
  ASSUME payload \in Payloads, found = Harvest(payload)
  PROVE  /\ {c.id : c \in ToSet(found)} =
              {payload[i].id : i \in DOMAIN payload} \ {NoChannel}
         /\ \A c \in ToSet(found) :
              /\ Cardinality({d \in ToSet(found) : d.id = c.id}) = 1
              /\ c.mentions = Cardinality(Naming(c.id))
              /\ c.podcast <=> \E i \in Naming(c.id) : payload[i].podcast
              /\ (c.episodes > 0) <=> \E i \in Naming(c.id) : payload[i].episodes > 0
              /\ (c.handle # "") <=> \E i \in Naming(c.id) : payload[i].handle # ""
<1>1. PICK N \in 0 .. MaxRefs : payload \in [1 .. N -> Refs]
  BY DEF Payloads
<1>9. N \in Nat
  OBVIOUS
<1>10. NoChannel \notin Channels
  BY ReaderAssumption
<1>2. PICK order \in Bijection(1 .. N, 1 .. N) :
        Gathered(found, [m \in 1 .. N |-> payload[order[m]]], N)
  BY <1>1, <1>9, HarvestLine
<1>. DEFINE read == [m \in 1 .. N |-> payload[order[m]]]
<1>3. /\ \A m \in 1 .. N : order[m] \in 1 .. N /\ read[m] = payload[order[m]]
      /\ \A i \in 1 .. N : \E m \in 1 .. N : order[m] = i
      /\ \A l, m \in 1 .. N : order[l] = order[m] => l = m
  BY <1>2 DEF Bijection, Injection, Surjection, IsInjective
<1>4. Gathered(found, read, N)
  BY <1>2
<1>5. read \in [1 .. N -> Refs] /\ DOMAIN payload = 1 .. N
  BY <1>1, <1>3
<1>. HIDE DEF read
<1>6. /\ found \in Seq(Harvested)
      /\ ToSet(found) = {found[i] : i \in DOMAIN found}
      /\ \A i \in DOMAIN found : found[i].id \in Channels
  <2>1. found \in Seq(Harvested)
    BY <1>4 DEF Gathered
  <2>2. \A i \in DOMAIN found : found[i] \in Harvested
    BY <2>1
  <2>3. \A c \in Harvested : c.id \in Channels
    BY DEF Harvested
  <2>. QED  BY <2>1, <2>2, <2>3 DEF ToSet
<1>7. {c.id : c \in ToSet(found)} = {payload[i].id : i \in DOMAIN payload} \ {NoChannel}
  <2>1. {c.id : c \in ToSet(found)} = {found[i].id : i \in DOMAIN found}
    BY <1>6
  <2>2. ASSUME NEW i \in DOMAIN found
        PROVE  /\ found[i].id # NoChannel
               /\ \E j \in DOMAIN payload : payload[j].id = found[i].id
    <3>1. PICK m \in 1 .. N : read[m].id = found[i].id
      BY <1>4 DEF Gathered
    <3>2. order[m] \in DOMAIN payload /\ payload[order[m]].id = found[i].id
      BY <1>3, <1>5, <3>1
    <3>3. found[i].id # NoChannel
      BY <1>6, <1>10
    <3>. QED  BY <3>2, <3>3
  <2>3. ASSUME NEW j \in DOMAIN payload, payload[j].id # NoChannel
        PROVE  \E i \in DOMAIN found : found[i].id = payload[j].id
    <3>1. PICK m \in 1 .. N : order[m] = j
      BY <1>3, <1>5
    <3>2. read[m].id = payload[j].id
      BY <1>3, <3>1
    <3>3. \A l \in 1 .. N : read[l].id # NoChannel =>
             \E i \in DOMAIN found : found[i].id = read[l].id
      BY <1>4 DEF Gathered
    <3>4. PICK i \in DOMAIN found : found[i].id = read[m].id
      BY <2>3, <3>2, <3>3
    <3>. QED  BY <3>2, <3>4
  <2>4. {found[i].id : i \in DOMAIN found} = {payload[i].id : i \in DOMAIN payload} \ {NoChannel}
    BY <2>2, <2>3
  <2>. QED  BY <2>1, <2>4
<1>8. ASSUME NEW i \in DOMAIN found
      PROVE  /\ Cardinality({d \in ToSet(found) : d.id = found[i].id}) = 1
             /\ found[i].mentions = Cardinality(Naming(found[i].id))
             /\ found[i].podcast <=> \E j \in Naming(found[i].id) : payload[j].podcast
             /\ (found[i].episodes > 0)
                  <=> \E j \in Naming(found[i].id) : payload[j].episodes > 0
             /\ (found[i].handle # "")
                  <=> \E j \in Naming(found[i].id) : payload[j].handle # ""
  <2>. DEFINE c == found[i]
              named == NamedBy(read, N, c.id)
              naming == Naming(c.id)
              f == [m \in named |-> order[m]]
  <2>1. {d \in ToSet(found) : d.id = c.id} = {c}
    BY <1>4, <1>6 DEF Gathered
  <2>2. Cardinality({d \in ToSet(found) : d.id = c.id}) = 1
    BY <2>1, FS_Singleton
  <2>3. \A m \in named : m \in 1 .. N /\ order[m] \in naming /\ read[m] = payload[order[m]]
    BY <1>3, <1>5 DEF NamedBy, Naming
  <2>4. ASSUME NEW j \in naming  PROVE  \E m \in named : order[m] = j
    <3>1. j \in 1 .. N /\ payload[j].id = c.id
      BY <1>5 DEF Naming
    <3>2. PICK m \in 1 .. N : order[m] = j
      BY <1>3, <3>1
    <3>3. read[m].id = c.id
      BY <1>3, <3>1, <3>2
    <3>. QED  BY <3>2, <3>3 DEF NamedBy
  <2>5. IsFiniteSet(named)
    <3>1. IsFiniteSet(1 .. N)
      BY FS_Interval
    <3>. QED  BY <3>1, FS_Subset DEF NamedBy
  <2>6. Known(c, read, N)
    BY <1>4 DEF Gathered
  <2>. HIDE DEF naming, named
  <2>7. f \in Bijection(named, naming)
    BY <1>3, <2>3, <2>4 DEF Bijection, Injection, Surjection, IsInjective
  <2>8. Cardinality(named) = Cardinality(naming)
    <3>1. ExistsBijection(named, naming)
      BY <2>7 DEF ExistsBijection
    <3>. QED  BY <2>5, <3>1, FS_Bijection
  <2>9. /\ c.mentions = Cardinality(named)
        /\ c.podcast <=> \E m \in named : read[m].podcast
        /\ (c.episodes > 0) <=> \E m \in named : read[m].episodes > 0
        /\ (c.handle # "") <=> \E m \in named : read[m].handle # ""
    BY <2>6 DEF Known, named
  <2>. HIDE DEF c
  <2>10. c.mentions = Cardinality(naming)
    BY <2>8, <2>9
  <2>11. c.podcast <=> \E j \in naming : payload[j].podcast
    <3>1. (\E m \in named : read[m].podcast) <=> \E j \in naming : payload[j].podcast
      BY <2>3, <2>4
    <3>. QED  BY <2>9, <3>1
  <2>12. (c.episodes > 0) <=> \E j \in naming : payload[j].episodes > 0
    <3>1. (\E m \in named : read[m].episodes > 0)
            <=> \E j \in naming : payload[j].episodes > 0
      BY <2>3, <2>4
    <3>. QED  BY <2>9, <3>1
  <2>13. (c.handle # "") <=> \E j \in naming : payload[j].handle # ""
    <3>1. \A m \in named : order[m] \in naming /\ read[m].handle = payload[order[m]].handle
      BY <2>3
    <3>2. \A j \in naming : \E m \in named : read[m].handle = payload[j].handle
      <4>1. ASSUME NEW j \in naming  PROVE  \E m \in named : read[m].handle = payload[j].handle
        <5>1. PICK m \in named : order[m] = j
          BY <2>4
        <5>. QED  BY <3>1, <5>1
      <4>. QED  BY <4>1
    <3>3. (\E m \in named : read[m].handle # "") <=> \E j \in naming : payload[j].handle # ""
      BY <3>1, <3>2, Zenon
    <3>. QED  BY <2>9, <3>3, Zenon
  <2>. QED  BY <2>2, <2>10, <2>11, <2>12, <2>13 DEF c, naming
<1>11. ASSUME NEW c \in ToSet(found)
       PROVE  /\ Cardinality({d \in ToSet(found) : d.id = c.id}) = 1
              /\ c.mentions = Cardinality(Naming(c.id))
              /\ c.podcast <=> \E j \in Naming(c.id) : payload[j].podcast
              /\ (c.episodes > 0) <=> \E j \in Naming(c.id) : payload[j].episodes > 0
              /\ (c.handle # "") <=> \E j \in Naming(c.id) : payload[j].handle # ""
  <2>1. PICK i \in DOMAIN found : c = found[i]
    BY <1>6
  <2>. QED  BY <1>8, <2>1, Zenon
<1>. QED  BY <1>7, <1>11, Zenon

-----------------------------------------------------------------------------

\* A feed that was read is answered with what is harvested from it; a link that
\* is asked about is the first of those left.
ReaderInv ==
  /\ ReaderTypeOK
  /\ reading \in {"resolve", "player"} => links # <<>>
  /\ asked = "feed" => links = <<>> /\ reading \in {"start", "answered", "failed"}
  /\ asked = "feed" /\ reading = "answered" =>
       payload \in Payloads /\ found = Harvest(payload)

LEMMA ReaderInvInit == ReaderInit => ReaderInv
<1>. SUFFICES ASSUME ReaderInit  PROVE  ReaderInv
  OBVIOUS
<1>1. links \in Seq(Links) /\ (asked = "feed" => links = <<>>)
  <2>1. CASE asked = "links"
    BY <2>1 DEF ReaderInit
  <2>2. CASE asked # "links"
    BY <2>2 DEF ReaderInit
  <2>. QED  BY <2>1, <2>2
<1>. QED  BY <1>1 DEF ReaderInit, ReaderInv, ReaderTypeOK

LEMMA ReaderInvNext == ReaderInv /\ [ReaderNext]_rvars => ReaderInv'
<1>. SUFFICES ASSUME ReaderInv, [ReaderNext]_rvars  PROVE  ReaderInv'
  OBVIOUS
<1>. USE DEF ReaderInv, ReaderTypeOK, Operations, Call, profile
<1>1. ASSUME NEW refs \in Payloads, Collect(refs)  PROVE  ReaderInv'
  <2>1. refs \in Seq(Refs)
    <3>1. PICK n \in 0 .. MaxRefs : refs \in [1 .. n -> Refs]
      BY DEF Payloads
    <3>. QED  BY <3>1
  <2>2. asked = "feed" => found' = Harvest(refs)
    BY <1>1 DEF Collect
  <2>. QED  BY <1>1, <2>1, <2>2 DEF Collect
<1>2. ASSUME NEW refs \in Payloads, NextAnswered(refs)  PROVE  ReaderInv'
  BY <1>2 DEF NextAnswered
<1>3. CASE CollectFails
  BY <1>3 DEF CollectFails
<1>4. ASSUME NEW id, links # <<>>, reading # "answered", asked # "feed", Resolved(id)
      PROVE  ReaderInv'
  <2>1. Tail(links) \in Seq(Links)
    BY <1>4
  <2>. QED  BY <1>4, <2>1 DEF Resolved
<1>5. ASSUME NEW id \in Channels, LinkIsChannel(id)  PROVE  ReaderInv'
  BY <1>4, <1>5 DEF LinkIsChannel
<1>6. ASSUME NEW id \in Channels, AskProfile(id)  PROVE  ReaderInv'
  BY <1>6 DEF AskProfile
<1>7. ASSUME NEW id \in Channels, LookedUp(id)  PROVE  ReaderInv'
  BY <1>7 DEF LookedUp
<1>8. CASE LinkIsAsked
  BY <1>8 DEF LinkIsAsked
<1>9. CASE UrlIsVideo
  BY <1>9 DEF UrlIsVideo
<1>10. ASSUME NEW id \in Channels \cup {NoChannel}, LinkAnswered(id)  PROVE  ReaderInv'
  BY <1>4, <1>10 DEF LinkAnswered
<1>11. CASE LinksDone \/ Missing \/ NextFails \/ Unreadable
  BY <1>11 DEF LinksDone, Missing, NextFails, Unreadable
<1>12. ASSUME NEW n \in 0 .. 2, NEW videos \in [1 .. n -> {"talk", "visual"}], Browsed(videos)
       PROVE  ReaderInv'
  <2>1. videos \in Seq(Categories)
    BY DEF Categories
  <2>. QED  BY <1>12, <2>1 DEF Browsed
<1>13. ASSUME NEW category \in Categories, Sample(category)  PROVE  ReaderInv'
  BY <1>13 DEF Sample
<1>14. CASE Classified
  <2>1. audio_first' \in BOOLEAN
    BY <1>14 DEF Classified, AudioFirst
  <2>. QED  BY <1>14, <2>1 DEF Classified
<1>15. CASE UNCHANGED rvars
  BY <1>15 DEF rvars
<1>. QED  BY <1>1, <1>2, <1>3, <1>5, <1>6, <1>7, <1>8, <1>9, <1>10, <1>11, <1>12, <1>13,
             <1>14, <1>15 DEF ReaderNext

LEMMA ReaderInvAlways == ReaderSpec => []ReaderInv
BY ReaderInvInit, ReaderInvNext, PTL DEF ReaderSpec

\* The reader keeps to its calls, and what it holds has its shape.
THEOREM ReaderTypeCorrect == ReaderSpec => []ReaderTypeOK
<1>1. ReaderInv => ReaderTypeOK
  BY DEF ReaderInv
<1>. QED  BY <1>1, ReaderInvAlways, PTL

\* However the references to the channels are mixed in a payload, each channel
\* is answered once, with every mention counted, as a podcast if any shelf says
\* so, and with a handle and a number of episodes if a lockup or video has one.
THEOREM HarvestIsExact == ReaderSpec => []HarvestExact
<1>1. ReaderInv => HarvestExact
  BY HarvestTells DEF ReaderInv, HarvestExact
<1>. QED  BY <1>1, ReaderInvAlways, PTL

=============================================================================
