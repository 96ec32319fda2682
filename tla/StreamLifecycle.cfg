SPECIFICATION Spec
CONSTANTS
  Sessions = {s1, s2}
  Callers = {"http"}
  None = None
INVARIANTS TypeOK SessionsOutliveThreads
