SPECIFICATION FairSpec
CONSTANTS
  Sessions = {s1}
  Callers = {"http", "ui"}
  None = None
PROPERTIES StoppingSessionReleased
