SPECIFICATION Spec
CONSTANTS
  r1 = r1
  r2 = r2
  r3 = r3
  r4 = r4
  r5 = r5
  Requests = {r1, r2, r3, r4}
  MaxBatchSize = 2
  Unmergeable = {}
  Headless = {}
  Cancellable = {}
  ModelOutcomes = {"outputs", "error"}
INVARIANTS TypeOK NoOrphan QueueServed
PROPERTIES AnswersTogether EveryCallAnswered
CHECK_DEADLOCK FALSE
