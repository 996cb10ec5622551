SPECIFICATION MCSpec
CONSTANTS
  r1 = r1  r2 = r2  r3 = r3  k1 = k1  k2 = k2  k3 = k3  t1 = t1  t2 = t2  w1 = w1  w2 = w2
  None = None
  Runs = {r1, r2, r3}
  Keys = {k1, k2, k3}
  Topics = {t1, t2}
  Goals <- MCGoals
  Workers = {w1, w2}
  MaxRev = 5
SYMMETRY Symmetry
CHECK_DEADLOCK FALSE
INVARIANTS
  TypeOK
  OneRunningTurn
  InsightsOnce
  SummaryOutdatedInScopeOnly
  OnePreparationPerSetup
PROPERTIES
  TurnsAreKept
