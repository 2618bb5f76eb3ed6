---------------------------- MODULE MCSpendMeter ----------------------------
(***************************************************************************)
(* Model-checking instance of SpendMeter: events of two tenants.           *)
(***************************************************************************)
EXTENDS SpendMeter

CONSTANTS e1, e2, e3, ta, tb

TenantOf == [e \in Events |-> IF e \in {e1, e2} THEN ta ELSE tb]

=============================================================================
