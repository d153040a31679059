SPECIFICATION Spec
CONSTANTS
  Packs = {p, q}
  Root = p
  NoPack = NoPack
  Files = {f, g}
  Absent = Absent
  MaxVersion = 2
  Faults = {}
INVARIANTS
  NoForeignBytes
  SavesSurvive
  OneContext
SYMMETRY Symmetry
