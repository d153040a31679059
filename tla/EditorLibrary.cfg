SPECIFICATION Spec
CONSTANTS
    Names = {n1, n2}
    Games = {a, b, c}
    Roms = {r1, r2}
    NoDir = NoDir
    NoGame = NoGame
    NoRom = NoRom
    Faults = {"write", "rename", "crash"}
    MaxFaults = 1
    MaxSaves = 1
    Patient = TRUE
SYMMETRY Symmetry
INVARIANT CanOpen
INVARIANT NoResurrection
INVARIANT EditsReachDisk
PROPERTY GamesAreKept
