SPECIFICATION Spec
CONSTANTS
    Jails = {j1, j2}
    Clients = {c1, c2, c3}
    p1 = p1
    p2 = p2
    NFiles = 1
    None = None
    Programs <- TwoPrograms
    Linked <- OneProgram
    Configured <- OneProgram
    Commands <- Mixed
    Faults = {"jailor", "recv", "fork", "system"}
    Careful = FALSE
SYMMETRY Interchangeable
INVARIANTS TypeOK RulesFollowList EveryJailorListed StoppedMeansDead
CHECK_DEADLOCK FALSE
