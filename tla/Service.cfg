SPECIFICATION Spec
CONSTANTS
    VmNumbers = {n1, n2, n3}
    Places = {m1, m2}
    MAX_VMS = 2
    None = None
    INT_MAX = 127
    RADIX = 2
    FirstPrimes <- MCPrimes
    NaN = NaN
    Machines = {m1, m2}
    Dests = {5}
    MaxCommands = 3
    u1 = u1
    u2 = u2
    Users = {u1, u2}
    Operator = operator
    Turns <- MCTurns
    Numbers <- MCNumbers
    Container = container
    PrimeDest = 9
    MAX_RULES = 2
    MaxCrashes = 1
SYMMETRY Interchangeable
INVARIANTS TypeOK NumbersResolve Uninterrupted PrimesOnlyGrow NobodyHangs
CHECK_DEADLOCK FALSE
