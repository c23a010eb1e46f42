SPECIFICATION FairSpec
CONSTANTS
    Requests = {r1, r2}
    Messages <- ParseMessages
    Tokens <- MCTokens
    atoi <- MCAtoi
    Addrs <- MCAddrs
    BadAddrs <- MCBadAddrs
    Spill <- MCSpill
    Ports = {p1}
    MAX_RULES = 1
    MaxInFlight = 2
    None = None
INVARIANTS SdnInv UndisturbedParse
PROPERTIES EveryRequestAnswered
