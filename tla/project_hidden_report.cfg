SPECIFICATION Spec
CONSTANTS
  r1 = r1  w1 = w1  w2 = w2
  None = None
  Runs = {r1}
  Workers = {w1}
  QueueLimit = 2
  MaxJobs = 4
  MaxRev = 12
INVARIANTS NoHiddenReport
