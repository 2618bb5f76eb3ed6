---------------------------- MODULE GuestSession ----------------------------
(***************************************************************************)
(* Lookups of X profiles and recommendations in the threads of the         *)
(* "extraction" executor, which share one guest token and one cache of     *)
(* profile ids (extraction/services/twitter_profile.py).                   *)
(*                                                                         *)
(* A thread may be suspended between any two accesses to the shared state. *)
(* _guest_token reads the token twice, to test it and to return it; the    *)
(* second read finds the first token or a newer one, and is one step here. *)
(* What X answers is free; what the timeline says is left out, but for     *)
(* whether it has any post.                                                *)
(***************************************************************************)
EXTENDS Integers, FiniteSets

CONSTANTS
  Threads,    \* threads of the executor
  Handles,    \* the profiles they are asked for
  MaxIds,     \* the size from which the id cache is cleared, 5000
  NoHandle,
  MaxTokens   \* bound: X issues so many tokens, and refuses to issue more

ASSUME GuestAssumption ==
  /\ IsFiniteSet(Threads) /\ IsFiniteSet(Handles)
  /\ MaxIds \in Nat /\ MaxTokens \in Nat

VARIABLES
  guest,    \* _guest["token"]; 0 before the first one
  aged,     \* it is older than _GUEST_TTL
  issued,   \* the tokens X has issued are 1 .. issued
  ids,      \* the keys of _id_cache
  lookup,   \* lookup[w]: the call thread w is making
  at,       \* at[w]: how far it is with that call
  handle,   \* handle[w]: the profile whose id it needs
  retried,  \* retried[w]: the call is the second one, retry=False
  token,    \* token[w]: the token it uses, or was just given
  refused   \* refused[w]: the token its first call was refused with

gvars == <<guest, aged, issued, ids, lookup, at, handle, retried, token,
           refused>>
session == <<guest, aged, issued>>

GuestTypeOK ==
  /\ issued \in 0 .. MaxTokens /\ guest \in 0 .. issued /\ aged \in BOOLEAN
  /\ ids \subseteq Handles
  /\ lookup \in [Threads -> {"none", "user", "tweets", "recs"}]
  /\ at \in [Threads -> {"idle", "cached", "token", "activating", "storing",
                         "request", "renewing", "restoring", "trimming",
                         "keeping"}]
  /\ handle \in [Threads -> Handles \cup {NoHandle}]
  /\ retried \in [Threads -> BOOLEAN]
  /\ token \in [Threads -> 0 .. issued] /\ refused \in [Threads -> 0 .. issued]

GuestInit ==
  /\ guest = 0 /\ aged = FALSE /\ issued = 0 /\ ids = {}
  /\ lookup = [w \in Threads |-> "none"]
  /\ at = [w \in Threads |-> "idle"]
  /\ handle = [w \in Threads |-> NoHandle]
  /\ retried = [w \in Threads |-> FALSE]
  /\ token = [w \in Threads |-> 0] /\ refused = [w \in Threads |-> 0]

Go(w, to) == at' = [at EXCEPT ![w] = to]

\* A call needs a token, and may be made a second time.
Calls(w, call) ==
  /\ lookup' = [lookup EXCEPT ![w] = call]
  /\ retried' = [retried EXCEPT ![w] = FALSE]
  /\ token' = [token EXCEPT ![w] = 0]
  /\ refused' = [refused EXCEPT ![w] = 0]

\* The response is sent; an exception of any kind becomes one.
Ends(w) ==
  /\ Calls(w, "none")
  /\ Go(w, "idle")
  /\ handle' = [handle EXCEPT ![w] = NoHandle]
  /\ UNCHANGED <<session, ids>>

-----------------------------------------------------------------------------
(***************************************************************************)
(* _do_fetch, _do_recommendations and _resolve_user_id.                    *)
(***************************************************************************)

\* `key in _id_cache`.
StartProfile(w, h) ==
  /\ at[w] = "idle"
  /\ handle' = [handle EXCEPT ![w] = h]
  /\ Calls(w, "user")
  /\ Go(w, IF h \in ids THEN "cached" ELSE "token")
  /\ UNCHANGED <<session, ids>>

StartRecommendations(w) ==
  /\ at[w] = "idle"
  /\ Calls(w, "recs")
  /\ Go(w, "token")
  /\ UNCHANGED <<session, ids, handle>>

\* The timeline is asked for by the id.
TimelineNext(w) ==
  /\ Calls(w, "tweets")
  /\ Go(w, "token")
  /\ handle' = [handle EXCEPT ![w] = NoHandle]

\* The cached id is read.
ReadId(w) ==
  /\ at[w] = "cached" /\ handle[w] \in ids
  /\ TimelineNext(w)
  /\ UNCHANGED <<session, ids>>

\* Another thread has cleared the cache since: the KeyError becomes a profile
\* that does not exist.
IdIsGone(w) ==
  /\ at[w] = "cached" /\ handle[w] \notin ids
  /\ Ends(w)

Trim(w) ==
  /\ at[w] = "trimming"
  /\ ids' = IF Cardinality(ids) > MaxIds THEN {} ELSE ids
  /\ Go(w, "keeping")
  /\ UNCHANGED <<session, lookup, handle, retried, token, refused>>

Keep(w) ==
  /\ at[w] = "keeping"
  /\ ids' = ids \cup {handle[w]}
  /\ TimelineNext(w)
  /\ UNCHANGED session

-----------------------------------------------------------------------------
(***************************************************************************)
(* _guest_token.                                                           *)
(***************************************************************************)

GuestTokenAges ==
  /\ ~aged
  /\ aged' = TRUE
  /\ UNCHANGED <<guest, issued, ids, lookup, at, handle, retried, token,
                 refused>>

UseToken(w) ==
  /\ at[w] = "token" /\ guest # 0 /\ ~aged
  /\ token' = [token EXCEPT ![w] = guest]
  /\ Go(w, "request")
  /\ UNCHANGED <<session, ids, lookup, handle, retried, refused>>

NeedsToken(w) ==
  /\ at[w] = "token" /\ (guest = 0 \/ aged)
  /\ Go(w, "activating")
  /\ UNCHANGED <<session, ids, lookup, handle, retried, token, refused>>

Activated(w) ==
  /\ at[w] \in {"activating", "renewing"} /\ issued < MaxTokens
  /\ issued' = issued + 1
  /\ token' = [token EXCEPT ![w] = issued + 1]
  /\ Go(w, IF at[w] = "activating" THEN "storing" ELSE "restoring")
  /\ UNCHANGED <<guest, aged, ids, lookup, handle, retried, refused>>

\* The profile is reported missing, which only the calls after the first may
\* report as a rate limit.
ActivationFails(w) ==
  /\ at[w] \in {"activating", "renewing"}
  /\ Ends(w)

\* A forced renewal is followed by a second call, which reads the token again.
StoreToken(w) ==
  /\ at[w] \in {"storing", "restoring"}
  /\ guest' = token[w] /\ aged' = FALSE
  /\ Go(w, IF at[w] = "storing" THEN "request" ELSE "token")
  /\ UNCHANGED <<issued, ids, lookup, handle, retried, token, refused>>

-----------------------------------------------------------------------------
(***************************************************************************)
(* _gql and _rest_recommendations.                                         *)
(***************************************************************************)

\* Mutant of Refused: the renewal is not forced.
RefusedUnforced(w) ==
  /\ at[w] = "request" /\ ~retried[w]
  /\ retried' = [retried EXCEPT ![w] = TRUE]
  /\ refused' = [refused EXCEPT ![w] = token[w]]
  /\ Go(w, "token")
  /\ UNCHANGED <<session, ids, lookup, handle, token>>

\* 401, 403, 429, or errors that speak of a limit.
Refused(w) ==
  /\ at[w] = "request" /\ ~retried[w]
  /\ retried' = [retried EXCEPT ![w] = TRUE]
  /\ refused' = [refused EXCEPT ![w] = token[w]]
  /\ token' = [token EXCEPT ![w] = 0]
  /\ Go(w, "renewing")
  /\ UNCHANGED <<session, ids, lookup, handle>>

\* TwitterApiError: the profile is missing, or rate limited.
RefusedAgain(w) ==
  /\ at[w] = "request" /\ retried[w]
  /\ Ends(w)

\* The id of the profile.
UserFound(w) ==
  /\ at[w] = "request" /\ lookup[w] = "user"
  /\ Go(w, "trimming")
  /\ UNCHANGED <<session, ids, lookup, handle, retried, token, refused>>

\* A timeline with posts, or the recommendations.
Found(w) ==
  /\ at[w] = "request" /\ lookup[w] # "user"
  /\ Ends(w)

\* No id, no post, another status, or a response that cannot be read.
NotFound(w) ==
  /\ at[w] = "request"
  /\ Ends(w)

GuestNext ==
  \/ GuestTokenAges
  \/ \E w \in Threads :
       \/ \E h \in Handles : StartProfile(w, h)
       \/ StartRecommendations(w)
       \/ ReadId(w)
       \/ IdIsGone(w)
       \/ Trim(w)
       \/ Keep(w)
       \/ UseToken(w)
       \/ NeedsToken(w)
       \/ Activated(w)
       \/ ActivationFails(w)
       \/ StoreToken(w)
       \/ Refused(w)
       \/ RefusedAgain(w)
       \/ UserFound(w)
       \/ Found(w)
       \/ NotFound(w)

GuestSpec == GuestInit /\ [][GuestNext]_gvars

-----------------------------------------------------------------------------
(***************************************************************************)
(* Properties.                                                             *)
(***************************************************************************)

\* A call that was refused is never repeated with the token it was refused
\* with, whichever thread renews the shared token meanwhile.
RetriesOnNewToken ==
  \A w \in Threads : at[w] = "request" /\ retried[w] => token[w] # refused[w]

=============================================================================
