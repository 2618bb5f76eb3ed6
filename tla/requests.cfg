SPECIFICATION MCSpec
CONSTANTS
  Requests = {r1, r2}
  Providers = 2
  MaxAttempts = 2
  Deadline = 2
  MinBudget = 1
  AdmissionWait = 1
  Backoffs = {0, 9}
  Contents <- FiveContents
  Format <- FormatOf
  Source <- SourceOf
  HitLists <- Neighbours
  FormatOrders <- FormatLists
  NoSource = NoSource
  InputK = 3
  MaxPerSource = 2
  DenseScore = 2
  Scores = {1, 3}
  Readers = {c1, c2}
  Orders = {latest}
  NoSlide = NoSlide
  LastView = 2
SYMMETRY Symmetry
INVARIANTS
  EveryCallMetered
  AnswersUsable
  WithinBudget
  RerankOnlyReorders
  LeftOutForCause
  FormatsTakeTurns
  SlideOfOneView
CHECK_DEADLOCK FALSE
