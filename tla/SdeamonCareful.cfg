SPECIFICATION FairSpec
CONSTANTS
    Jails = {j1, j2}
    Clients = {1, 2, 3, 4}
    p1 = p1
    p2 = p2
    NFiles = 2
    None = None
    Programs <- OneProgram
    Linked <- OneProgram
    Configured <- OneProgram
    Commands <- StartStop
    Faults = {"iptables"}
    Careful = TRUE
INVARIANTS RootIntact
PROPERTIES EveryStartBoots EveryCommandAnswered PromiseKept
CHECK_DEADLOCK FALSE
