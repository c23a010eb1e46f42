SPECIFICATION Spec
CONSTANTS
    Requests = {r1, r2, r3, r4, r5}
    Messages <- SequenceMessages
    Tokens <- MCTokens
    atoi <- MCAtoi
    Addrs <- MCAddrs
    BadAddrs <- MCBadAddrs
    Spill <- MCSpill
    Ports = {p1}
    MAX_RULES = 2
    MaxInFlight = 1
    None = None
SYMMETRY Threads
INVARIANTS TableConsistent LateAnswersOnly
PROPERTIES AtomicRouteMap
