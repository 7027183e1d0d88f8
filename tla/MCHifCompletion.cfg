SPECIFICATION FairSpec
CONSTANTS
  tx = tx  rx = rx  c1 = c1  c2 = c2  c3 = c3
  Contexts = {c1, c2, c3}  SendPipes = {tx}  RecvPipes = {rx}
  Server <- MCServer  FwContext = c3
  Entries = 3  MaxTransfers = 4  MaxFwEvents = 1  MaxAllocFailures = 1
CHECK_DEADLOCK FALSE
INVARIANTS OneInstance InOrder FreeStateAvailable ReceiveSlotsConserved
PROPERTIES EventuallyHandled
