SPECIFICATION Spec
CONSTANTS
  tx = tx  rx = rx  c1 = c1  c2 = c2  c3 = c3
  Contexts = {c1, c2, c3}  SendPipes = {tx}  RecvPipes = {rx}
  Server <- MCServer  FwContext = c3
  Entries = 3  MaxTransfers = 3  MaxFwEvents = 0  MaxAllocFailures = 0
CHECK_DEADLOCK FALSE
INVARIANTS NoStrandedCompletion
