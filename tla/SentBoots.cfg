SPECIFICATION FelSpec
CONSTANTS
    Nothing = Nothing
    Dirs <- MCDirs
    Chunks <- MCChunks
    Socs = {"r16"}
    MaxPlugs = 2
    MaxKills = 0
    MaxErrors = 1
    MaxBoots = 1
PROPERTY SentMeansJumped
CHECK_DEADLOCK FALSE
