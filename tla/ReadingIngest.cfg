SPECIFICATION FairSpec
CONSTANTS
  w1 = w1
  Workers = {w1}
  NoBody = NoBody
  Reserve = 2
  MaxBoots = 2
  MaxPosts = 2
  RequireSeq = TRUE
  MaxAge = 1
  SlotsPerHour = 2
  MinReadings = 2
  MinSlots = 2
  MaxClock = 2
  MaxResets = 2
INVARIANTS
  HoursMatchReadings
  CreditIsEarned
  CountedOnce
  CatchesUp
PROPERTIES
  HeardAgain
\* The bounded Tree has nothing left to post.
CHECK_DEADLOCK FALSE
