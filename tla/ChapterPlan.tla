----------------------------- MODULE ChapterPlan -----------------------------
(***************************************************************************)
(* POST /v1/chapters/generate (llm/services/chapters.py): a transcript in  *)
(* windows is given to the provider chain, and what a provider returns is  *)
(* made into chapters that cover every window once, or refused.  If the    *)
(* chain ends on refused output it is asked once more.                     *)
(*                                                                         *)
(* The chain is complete_with_provenance (see LlmRequest) as this service  *)
(* sees it: every provider's output is accepted, refused by validate, or   *)
(* missing, and the failure of the last one is what is raised.  Titles,    *)
(* scores and prompts are left out; an item without a title, or that       *)
(* starts at no window, starts at Junk.                                    *)
(***************************************************************************)
EXTENDS Integers, Sequences, SequencesExt, FiniteSets, Ordering

CONSTANTS
  Windows,     \* the indices of the windows
  Junk, NoEnd, \* no window
  ChainLength, \* length of the provider chain
  MaxItems     \* bound on what a provider returns

ASSUME PlanAssumption ==
  /\ Windows \subseteq Nat /\ Windows # {} /\ IsFiniteSet(Windows)
  /\ Junk \notin Windows /\ NoEnd \notin Windows
  /\ ChainLength \in Nat \ {0} /\ MaxItems \in Nat

VARIABLES
  planning,  \* how far the request is
  round,     \* 2 while it is repaired
  asked,     \* the provider of the chain that is asked
  last,      \* last_error: why the one before it did not answer
  output,    \* the output that decided
  plan       \* the chapters of the answer

hvars == <<planning, round, asked, last, output, plan>>

Items == [start : Windows, end : Windows \cup {NoEnd}]
         \cup {[start |-> Junk, end |-> NoEnd]}
Outputs == UNION {[1 .. n -> Items] : n \in 0 .. MaxItems}

PlanTypeOK ==
  /\ planning \in {"asking", "answered", "failed", "capped", "late"}
  /\ round \in 1 .. 2 /\ asked \in 1 .. ChainLength
  /\ last \in {"none", "output", "call"}
  /\ output \in Seq(Items) /\ plan \in Seq(Items)

PlanInit ==
  /\ planning = "asking" /\ round = 1 /\ asked = 1 /\ last = "none"
  /\ output = <<>> /\ plan = <<>>

-----------------------------------------------------------------------------
(***************************************************************************)
(* _parse.                                                                 *)
(***************************************************************************)

FirstWindow == CHOOSE w \in Windows : \A v \in Windows : w <= v
LastWindow == CHOOSE w \in Windows : \A v \in Windows : v <= w
Before(w) == CHOOSE v \in Windows : v < w /\ \A u \in Windows : u < w => u <= v

\* The first item at each start.
Kept(items) ==
  {i \in DOMAIN items : /\ items[i].start # Junk
                        /\ \A j \in 1 .. i - 1 : items[j].start # items[i].start}

\* An end that cannot be is dropped.
Clean(it) ==
  IF it.end # NoEnd /\ it.end >= it.start THEN it ELSE [it EXCEPT !.end = NoEnd]

Cleaned(items) ==
  LET chapters == {Clean(items[i]) : i \in Kept(items)}
  IN Ordered([c \in chapters |-> {b \in chapters : b.start < c.start}])

\* The first chapter starts at the first window, and one without an end goes up
\* to the next.
Placed(chapters) ==
  [i \in DOMAIN chapters |->
     [start |-> IF i = 1 THEN FirstWindow ELSE chapters[i].start,
      end |-> IF chapters[i].end # NoEnd THEN chapters[i].end
              ELSE IF i = Len(chapters) THEN LastWindow
              ELSE Before(chapters[i + 1].start)]]

\* Mutant of Complete: the windows after the last chapter are forgotten.
CompleteSoFar(chapters) ==
  \A i \in DOMAIN chapters :
    /\ chapters[i].end >= chapters[i].start
    /\ i > 1 => chapters[i - 1].end = Before(chapters[i].start)

\* _require_complete_partition.
Complete(chapters) ==
  /\ \A i \in DOMAIN chapters :
       /\ chapters[i].end >= chapters[i].start
       /\ i > 1 => chapters[i - 1].end = Before(chapters[i].start)
  /\ chapters[Len(chapters)].end = LastWindow

-----------------------------------------------------------------------------
(***************************************************************************)
(* generate.                                                               *)
(***************************************************************************)

End(how) ==
  /\ planning' = how
  /\ UNCHANGED <<round, asked, last, plan>>

\* The next provider; after the last one, a chain that ended on refused output
\* is asked again, with more tokens, once.
NextProvider(why) ==
  \/ /\ asked < ChainLength
     /\ asked' = asked + 1 /\ last' = why
     /\ UNCHANGED <<planning, round, output, plan>>
  \/ /\ asked = ChainLength /\ why = "output" /\ round = 1
     /\ round' = 2 /\ asked' = 1 /\ last' = "none"
     /\ UNCHANGED <<planning, output, plan>>

Answered(items) ==
  LET chapters == Placed(Cleaned(items))
  IN /\ planning = "asking"
     /\ IF Cleaned(items) # <<>> /\ Complete(chapters)
        THEN /\ planning' = "answered"
             /\ plan' = chapters /\ output' = items
             /\ UNCHANGED <<round, asked, last>>
        ELSE \/ NextProvider("output")
             \/ /\ asked = ChainLength /\ round = 2
                /\ planning' = "failed"
                /\ last' = "output" /\ output' = items
                /\ UNCHANGED <<round, asked, plan>>

\* No JSON, or JSON of another shape.
NoJson == Answered(<<>>)

\* The provider fails, returns only spaces, or there is no time left for it.
ProviderFails ==
  /\ planning = "asking"
  /\ \/ NextProvider("call")
     \/ /\ asked = ChainLength
        /\ planning' = "failed" /\ last' = "call"
        /\ UNCHANGED <<round, asked, output, plan>>

\* BudgetCappedError, asked for at the begin of a chain.
Capped ==
  /\ planning = "asking" /\ asked = 1
  /\ End("capped")
  /\ UNCHANGED output

\* asyncio.timeout around both chains.
PlanTimesOut ==
  /\ planning = "asking"
  /\ End("late")
  /\ UNCHANGED output

PlanNext ==
  \/ \E items \in Outputs : Answered(items)
  \/ NoJson
  \/ ProviderFails
  \/ Capped
  \/ PlanTimesOut

PlanSpec == PlanInit /\ [][PlanNext]_hvars

-----------------------------------------------------------------------------
(***************************************************************************)
(* Properties.                                                             *)
(***************************************************************************)

Starts(items) == {it.start : it \in ToSet(items)} \ {Junk}
Covering(w) == {i \in DOMAIN plan : plan[i].start <= w /\ w <= plan[i].end}

\* Read as it stands: every end that can be meant stands before the next start.
Sound(items) ==
  /\ Starts(items) # {}
  /\ \A i \in Kept(items) :
       LET it == items[i]
           later == {s \in Starts(items) : s > it.start}
       IN it.end # NoEnd /\ it.end >= it.start =>
          IF later = {} THEN it.end = LastWindow
          ELSE it.end = Before(CHOOSE s \in later : \A t \in later : s <= t)

\* However the items of a provider are mixed, repeated or broken, an answered
\* plan covers every window exactly once and cuts where the provider did, and a
\* plan is only given up for output that contradicts itself or says nothing.
PlanCoversOnce ==
  /\ planning = "answered" =>
       /\ \A w \in Windows : Cardinality(Covering(w)) = 1
       /\ Starts(plan) \ {FirstWindow} =
            {s \in Starts(output) : \E t \in Starts(output) : t < s}
  /\ planning = "failed" /\ last = "output" => ~Sound(output)

=============================================================================
