\* One ticket: claims by two workers, with crashes, edits by hand and repair.
CONSTANTS
  t1 = t1
  t2 = t2
  w1 = w1
  w2 = w2
  NoLease = NoLease
  Order <- OneTicket
  Workers <- TwoWorkers
  Blockers <- NoBlocker
  MaxAttempts = 2
  Duration = 1
  Foul <- FirstFoul
  MaxClock = 2
  MaxEdits = 1
  MaxCrashes = 1
SPECIFICATION FairSpec
CHECK_DEADLOCK FALSE
INVARIANTS OneHolder ImportKeepsTheClaim
PROPERTIES RepairsJustified MergedWorkIsClosed
