SPECIFICATION FairSpec
CONSTANTS
  a = a
  Libraries = {v1, v2, old}
  V2 = {v1, v2}
  Names = {a}
  Start <- MCStart
  Tasks = {menu, boot}
  Menu = menu
  Null = Null
  Broken = Broken
  MaxTicket = 2
  MaxSwaps = 2
INVARIANTS
  StageAccounted
  WholeSnapshot
  NoStaleResult
PROPERTIES
  RememberedIsLive
  ReadsEnd
CHECK_DEADLOCK FALSE
