SPECIFICATION Spec
CONSTANTS
  p1 = p1  p2 = p2  p3 = p3  s1 = s1  s2 = s2
  Completer = completer  Resumer = resumer  NoThread = nothread  NoPacket = nopacket
  TransferLength <- MCMixedLength
  TxCreditSize = 8
  TxCreditsPerMaxMsg = 2
  Packets = {p1, p2, p3}  Senders = {s1, s2}  SenderOf <- MCSenderOf
  EndpointKinds <- MCWmiDropAndHtt  TotalCredits = 3  SendEntries = 2
  MaxTxQueueDepth = 1
  MaxSuspends = 0  SuspendMayFail = FALSE  FlushAllowed = TRUE
CHECK_DEADLOCK FALSE
INVARIANTS SingleDrainer LookupHitsHead PacketsAccountedFor CreditsConserved FifoPerClient RingEntriesConserved
PROPERTIES KeepsContract
