SPECIFICATION FelSpec
CONSTANTS
    Nothing = Nothing
    Dirs <- MCDirs
    Chunks <- MCChunks
    Socs = {"r16", "other"}
    MaxPlugs = 4
    MaxKills = 1
    MaxErrors = 1
    MaxBoots = 2
INVARIANT InStep
PROPERTIES RunsOnlyWhole SentJumpsWithoutError BootEnds
CHECK_DEADLOCK FALSE
