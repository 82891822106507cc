\* Two discoveries with one failing request and one move.
CONSTANTS
    core = core
    access = access
    stray = stray
    server = server
    a1 = a1
    a2 = a2
    a3 = a3
    a4 = a4
    a5 = a5
    Laptop = laptop
    None = None
    Uplink = core
    Node = {laptop, a1, a2, a3, a4, a5}
    Speakers = {core, access, stray}
    Alphabet <- MCAlphabet
    Intended <- MCIntended
    Design <- MCDesign
    Meant <- MCMeant
    Cablings <- MCCablings
    Namings <- MCNamings
    FirstLease <- MCLease
    MaxRuns = 2
    MaxMoves = 1
    MaxFaults = 1
SPECIFICATION Spec
INVARIANTS
    ReportIsTrue
    OrderFollowsCables
    LevelsExact
\* Nothing is left to do when the runs are used up.
CHECK_DEADLOCK FALSE
