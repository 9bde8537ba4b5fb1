\* Three symbols, and a socket that never drops, drops in every batch, or outlives one;
\* a call of up to three attempts by either twin, or of none.
SPECIFICATION Spec
CONSTANTS
  Symbols = {1, 2, 3}
  DropSettings = {0, 2, 4}
  Interval = 2
  BackoffBase = 1
  BackoffCap = 3
  MaxAge = 11
  AttemptSettings = {0, 1, 3}
  BaseDelay = 2
  MaxDelay = 3
  Jitter = 50
INVARIANTS TypeOK FreshWhileOutlived GivesUpWhenSpent
PROPERTIES GapTellsOutage FeedResumes
