SPECIFICATION Spec
CONSTANTS
    Requests = {r1, r2, r3}
    Messages <- RaceMessages
    Tokens <- MCTokens
    atoi <- MCAtoi
    Addrs <- MCAddrs
    BadAddrs <- MCBadAddrs
    Spill <- MCSpill
    Ports = {p1, p2}
    MAX_RULES = 1
    MaxInFlight = 2
    None = None
SYMMETRY Threads
INVARIANTS TypeOK TableConsistent ScanStillRight UndisturbedParse LateAnswersOnly
PROPERTIES AtomicRouteMap
