----------------------------- MODULE FenceHistory -----------------------------
(***************************************************************************)
(* The migration fence with a history of what `restore` has done.  It      *)
(* writes the answer of Redis over the memory some time after Redis gave   *)
(* it; another route may have decided in between.  Any number of control   *)
(* calls overlap here, and what the fence promises is stated for as long   *)
(* as no route has been misled in this way.                                *)
(***************************************************************************)
EXTENDS MigrationFence

VARIABLE misled  \* restore has put back an owner that Redis no longer names

\* Call c restores an owner that is in Redis no more, over another one or none.
Misleads(c) == raw[c] \notin {NoOwner, durable, program_id} /\ Apply(c)

Notice == misled' = (misled \/ \E c \in Calls : Misleads(c))

hvars == <<fvars, misled>>

HistoryInit == FenceInit /\ misled = FALSE

HistorySpec == HistoryInit /\ [][FenceNext /\ Notice]_hvars

-----------------------------------------------------------------------------
(***************************************************************************)
(* Properties.                                                             *)
(***************************************************************************)

\* Whatever calls overlap, fail or die with the process, no two owners hold
\* the fence unless `restore` has misled a route: only its answer that has gone
\* out of date lets a second owner through the check for another owner.
OneHolderUnlessMisled == ~misled => OneHolder

\* Likewise an owner that was told so finds itself in Redis until it resumes:
\* no call of another owner, failure or restart removes or replaces the mark.
HeldIsDurableUnlessMisled == ~misled => HeldIsDurable

\* Likewise no new request gets through a connected process, whichever of the
\* holder, Redis and the memory knows of the fence.
FenceClosesUnlessMisled == ~misled => FenceCloses

=============================================================================
