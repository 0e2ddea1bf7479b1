SPECIFICATION FairSpec
CONSTANTS
  l1 = l1
  l2 = l2
  m1 = m1
  s1 = s1
  r1 = r1
  r2 = r2
  NoWriter = NoWriter
  Writers = {l1, m1}
  Role <- OneFencedRoles
  Recoverers = {r1, r2}
  MayCrash = {l1, m1, r1}
PROPERTY DeadGuardsRecovered
CHECK_DEADLOCK FALSE
