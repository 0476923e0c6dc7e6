SPECIFICATION Spec
CONSTANTS
  m1 = m1
  m2 = m2
  Models = {m1, m2}
  Calls <- OnePerServer
  MaxSignals = 1
INVARIANTS TypeOK StartupMeansLoaded
PROPERTIES StopsUnlessLost CallsEnd
CHECK_DEADLOCK FALSE
