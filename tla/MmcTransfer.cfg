SPECIFICATION Spec
CONSTANTS
    ed = ed
    gui = gui
    None = None
    Apps = {ed, gui}
    Editors = {ed}
    Parts = {1, 2}
    Layout <- MCLayout
    Factory <- MCFactory
    Odd = {}
    Archives <- MCArchives
    Batches <- MCBatches
    Mounts <- MCMounts
    MaxTransfers = 2
    MaxFaults = 1
INVARIANT OnlyQuietTargets
PROPERTIES VerifiedIsConfirmed BackupsAreWhole OperationEnds
CHECK_DEADLOCK FALSE
