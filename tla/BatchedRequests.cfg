SPECIFICATION Spec
CONSTANTS
  Base = 64
  SizeWidth = 2
  Metadata <- StringsInY
  Batches <- SmallBatches
  Models = {"rows", "firsts"}
INVARIANTS OwnRows EachAnswered OwnParameters
CHECK_DEADLOCK FALSE
