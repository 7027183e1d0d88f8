SPECIFICATION FairSpec
CONSTANTS
  s1 = s1  s2 = s2  p1 = p1
  Senders = {s1, s2}  Pollers = {p1}
  nentries = 4  MaxFrags = 2  CompCheckThreshold = 4  MaxTransfers = 2
CHECK_DEADLOCK FALSE
INVARIANTS ListsWhole NeverRefused EntriesConserved
PROPERTIES IsFifo ServiceMovesOn CopiedIsHandedBack
