-------------------------- MODULE MCMigrationFence --------------------------
(***************************************************************************)
(* Model-checking instance of MigrationFence: owners and control calls are *)
(* interchangeable.                                                        *)
(***************************************************************************)
EXTENDS MigrationFence, TLC

CONSTANTS c1, c2, c3, p, q, o3, r1, r2

Symmetry == Permutations(Owners) \cup Permutations(Calls)

=============================================================================
