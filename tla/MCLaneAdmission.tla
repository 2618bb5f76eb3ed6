--------------------------- MODULE MCLaneAdmission ---------------------------
(***************************************************************************)
(* Model-checking instance of LaneAdmission: what callers may ask for.     *)
(***************************************************************************)
EXTENDS LaneAdmission

CONSTANTS r1, r2, r3, r4

\* Any caller may ask for any lane.
AnyLane == [r \in Requests |-> Lanes]

\* News traffic against a caller of pods or legacy and one of news or legacy.
Mixed == [r \in Requests |-> IF r = r1 THEN {"pods", "legacy"}
                             ELSE IF r = r4 THEN {"news", "legacy"}
                             ELSE {"news"}]

=============================================================================
