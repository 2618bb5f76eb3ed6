------------------------------- MODULE Ordering -------------------------------
(***************************************************************************)
(* Sets in an order and parts of a sequence: Python's sorted, and a loop   *)
(* over a list that keeps some of its items.  They are defined by position *)
(* and not with SetToSortSeq and SelectSeq, of which the provers know      *)
(* nothing.                                                                *)
(***************************************************************************)
EXTENDS Integers, Sequences, FiniteSets

\* The elements of a finite set, each with the set of those before it, in that
\* order.
Ordered(before) ==
  [n \in 1 .. Cardinality(DOMAIN before) |->
     CHOOSE x \in DOMAIN before : Cardinality(before[x]) = n - 1]

\* The items at some positions of a sequence.
Picked(items, positions) ==
  LET order == Ordered([i \in positions |-> {j \in positions : j < i}])
  IN [n \in DOMAIN order |-> items[order[n]]]

=============================================================================
