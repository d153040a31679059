SPECIFICATION Spec
CONSTANTS
  a = a
  b = b
  ta = ta
  tb = tb
  tx = tx
  p = p
  q = q
  None = None
  Live = Live
  Fresh = Fresh
  Torn = Torn
  Games <- MCGames
  Tags <- MCTags
  SafeTags <- MCTags
  GeneratedTag <- MCGenerated
  LockWords <- MCWords
  Worlds <- MCWorlds
  Packs = {p, q}
  Slots = {0}
  CdGames = {b}
  MaxMenu = 2
  MaxClock = 4
  MaxStops = 2
  Faults = {"stop", "copy", "olderEditor"}
INVARIANTS
  NoForeignSave
  WholeOrJournalled
PROPERTIES
  NeverOlder
  OnceOnly
CHECK_DEADLOCK FALSE
