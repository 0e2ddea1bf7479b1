SPECIFICATION Spec
CONSTANTS
  l1 = l1
  l2 = l2
  m1 = m1
  s1 = s1
  r1 = r1
  r2 = r2
  NoWriter = NoWriter
  Writers = {l1, m1, s1}
  Role <- RestoreRoles
  Recoverers = {r1, r2}
  MayCrash = {l1, m1, s1}
SYMMETRY RecovererSymmetry
INVARIANT LiveWritersHoldGuard
PROPERTY OneQueueOfRecord
CHECK_DEADLOCK FALSE
