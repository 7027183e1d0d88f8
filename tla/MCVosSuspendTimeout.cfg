SPECIFICATION Spec
CONSTANTS
  w1 = w1  w2 = w2  k1 = k1  app = app
  McQueues <- MCQueues  Wrappers = {w1, w2}  Packets = {k1}  Calls = {app}
  Posters = 1  MaxEntries = 1  LateAnswers = TRUE
INVARIANTS BlockedIsRecorded
