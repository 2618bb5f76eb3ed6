--------------------------- MODULE MCLlmAdmission ---------------------------
(***************************************************************************)
(* Model-checking instance of LlmAdmission.                                *)
(***************************************************************************)
EXTENDS LlmAdmission, TLC

CONSTANTS r1, r2, r3, r4

Symmetry == Permutations(Summaries) \cup Permutations(Prompts \ Summaries)

=============================================================================
