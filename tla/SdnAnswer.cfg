SPECIFICATION Spec
CONSTANTS
    Requests = {r1, r2, r3}
    Messages <- RaceMessages
    Tokens <- MCTokens
    atoi <- MCAtoi
    Addrs <- MCAddrs
    BadAddrs <- MCBadAddrs
    Spill <- MCSpill
    Ports = {p1}
    MAX_RULES = 1
    MaxInFlight = 1
    None = None
INVARIANTS OwnAnswer
