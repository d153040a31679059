SPECIFICATION UsbFairSpec
CONSTANTS
  d1 = d1
  d2 = d2
  d3 = d3
  Devs = {d1, d2, d3}
  Published = {d1, d2}
  Nand = Nand
  Boot = Boot
  Wrappers = {1, 2}
  Sessions <- MCSessions
INVARIANTS
  SettledWhole
  PowerOffOnlyByUser
PROPERTIES
  MountsReplacedWithoutEngine
  Settles
CHECK_DEADLOCK FALSE
