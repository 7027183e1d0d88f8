SPECIFICATION Spec
CONSTANTS
  p1 = p1  p2 = p2  p3 = p3  s1 = s1  s2 = s2
  Completer = completer  Resumer = resumer  NoThread = nothread  NoPacket = nopacket
  TransferLength <- MCLength
  TxCreditSize = 8
  TxCreditsPerMaxMsg = 2
  Packets = {p1, p2, p3}  Senders = {s1, s2}  SenderOf <- MCSenderOf
  EndpointKinds <- MCHtt  TotalCredits = 2  SendEntries = 1
  MaxTxQueueDepth = 1
  MaxSuspends = 0  SuspendMayFail = FALSE  FlushAllowed = FALSE
CHECK_DEADLOCK FALSE
INVARIANTS SentMapped
