SPECIFICATION SlideSpec
CONSTANTS
  Readers = {r1, r2}
  Orders = {articles_first, tweets_first}
  NoSlide = NoSlide
  LastView = 1
INVARIANTS
  SlideInCallerOrder
CHECK_DEADLOCK FALSE
