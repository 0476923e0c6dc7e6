SPECIFICATION Spec
CONSTANTS
  p1 = p1
  p2 = p2
  p3 = p3
  p4 = p4
  m = m
  n = n
  Pids = {p1, p2, p3, p4}
  FirstWorkers <- TwoWorkers
  Models <- Settings
  Plans <- AllPlans
INVARIANTS TypeOK ModelsEverywhere CallsFindModel CallsOwned
PROPERTIES CallsSettle
CHECK_DEADLOCK FALSE
