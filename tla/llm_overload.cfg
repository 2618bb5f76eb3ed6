SPECIFICATION LlmSpec
CONSTANTS
  Prompts = {r1, r2, r3}
  Summaries = {r1, r2, r3}
  r1 = r1
  r2 = r2
  r3 = r3
  r4 = r4
  Capacity = 4
  Providers = 2
  Attempts = 1
SYMMETRY Symmetry
INVARIANTS
  OverloadIs429
