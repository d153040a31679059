SPECIFICATION Spec
SYMMETRY Symmetry
CONSTANTS
    w1 = w1
    w2 = w2
    engine = engine
    script = script
    menu = menu
    ga = ga
    gb = gb
    ra = ra
    rb = rb
    User = User
    None = None
    Dummy = Dummy
    Windows = {w1, w2}
    Files = {engine, script}
    Engine = engine
    Templates = {menu}
    Lineups = {"jp", "us"}
    Slots <- MCSlots
    Dumps <- MCDumps
    Backups <- MCBackups
    Libraries <- MCLibraries
    MaxActs = 2
    MaxFaults = 2
    MaxKills = 1
INVARIANTS
    VisibleWhole
    OutcomeTrue
PROPERTY OthersKept
CHECK_DEADLOCK FALSE
