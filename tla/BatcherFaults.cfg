SPECIFICATION Spec
CONSTANTS
  r1 = r1
  r2 = r2
  r3 = r3
  r4 = r4
  r5 = r5
  Requests = {r1, r2, r3, r4, r5}
  MaxBatchSize = 2
  Unmergeable = {r1}
  Headless = {r2}
  Cancellable = {r4, r5}
  ModelOutcomes = {"outputs"}
INVARIANTS PuttersServed ArrivalOrder
SYMMETRY FaultSymmetry
CHECK_DEADLOCK FALSE
