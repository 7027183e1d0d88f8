SPECIFICATION Spec
CONSTANTS
  a = a  b = b  log = log  other = other  pause = pause  NULL = NULL
  Ordinary = {a, b}  MaxCmds = 2
  Ids = {log, pause}  Unhandled = {other}  TaskletIds = {pause}  FwLog = log  MaxEvent = 2
CHECK_DEADLOCK FALSE
SYMMETRY MCSymmetry
INVARIANTS PendingCounted BelowLimit EventNotStranded HandlerIsForEvent NothingAfterDetach AwakeIsUsable
