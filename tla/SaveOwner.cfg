SPECIFICATION Spec
CONSTANTS
  Games = {a, b}
  NoGame = NoGame
  Dirs = {d1, d2}
  Absent = Absent
  MaxVersion = 2
  Faults = {"unlink", "stoppedEngineWrites"}
INVARIANTS
  NoMisattribution
  FlushedSurvives
  SchemaPrecedesData
PROPERTIES
  LegacySramUntouched
  ImplementsPerGameSaves
SYMMETRY Symmetry
