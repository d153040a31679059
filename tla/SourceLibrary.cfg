SPECIFICATION Spec
SYMMETRY Symmetry
CONSTANTS
    c1 = c1
    c2 = c2
    s1 = s1
    s2 = s2
    f1 = f1
    f2 = f2
    a = a
    b = b
    emoji = emoji
    None = None
    Covers <- MCCovers
    Shapes <- MCShapes
    Fonts <- MCFonts
    Chars <- MCChars
    Unsupported <- MCUnsupported
    Faults <- MCFaults
    MaxFaults = 1
    MaxEdits = 2
    Patient = TRUE
INVARIANTS
    ConsoleReadsWhole
    StaleIsFlagged
    OriginalsKept
    RefusedOnlyAfterKill
