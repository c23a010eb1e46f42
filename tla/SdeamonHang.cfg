SPECIFICATION FairSpec
CONSTANTS
    Jails = {j1}
    Clients = {c1, c2}
    p1 = p1
    p2 = p2
    NFiles = 1
    None = None
    Programs <- OneProgram
    Linked <- OneProgram
    Configured <- OneProgram
    Commands <- StartStop
    Faults = {}
    Careful = FALSE
PROPERTIES EveryCommandAnswered
CHECK_DEADLOCK FALSE
