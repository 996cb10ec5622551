SPECIFICATION EvaluatedSpec
CONSTANTS
  r1 = r1  r2 = r2  o1 = o1  i1 = i1  i2 = i2  w1 = w1  w2 = w2  c1 = c1
  None = None
  Runs = {r1}
  Owners = {o1}
  OwnerOf <- MCOwnerOf
  Inputs = {i1}
  Workers = {w1, w2}
  Cancellers = {c1}
  LeaseTicks = 1
  QueueLimit = 3
  OwnerQueueLimit = 2
  MaxJobs = 2
  MaxRev = 10
PROPERTIES
  CancelledIsFinal
