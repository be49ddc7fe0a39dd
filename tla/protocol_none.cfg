\* Mode none: every route without a caller, and every call answered.
SPECIFICATION FairSpec
CONSTANTS
    platform = platform
    issuer = issuer
    wallet = wallet
    g1 = g1
    g2 = g2
    g3 = g3
    r1 = r1
    r2 = r2
    r3 = r3
    Null = Null
    NoNamespace = NoNamespace
    Clients = {platform, issuer}
    Administrator = platform
    Mode = "none"
    Names <- TwoNames
    Pairs = {g1, g2}
    Calls <- OpenCalls
    Requests = {r1, r2}
PROPERTIES
    EveryRequestEnds
    ContractSpec
