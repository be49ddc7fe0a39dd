\* Operations race with the life of the key and of its grants.
SPECIFICATION Spec
CONSTANTS
    platform = platform
    issuer = issuer
    wallet = wallet
    g1 = g1
    g2 = g2
    g3 = g3
    r1 = r1
    r2 = r2
    r3 = r3
    Null = Null
    NoNamespace = NoNamespace
    Clients = {platform, issuer}
    Administrator = platform
    Mode = "registered"
    Names <- OneName
    Pairs = {g1, g2, g3}
    Calls <- RegisteredCalls
    Requests = {r1, r2}
SYMMETRY Symmetry
INVARIANTS
    TypeOK
    StoreInv
    ActedWasPermitted
    KeysHavePolicies
PROPERTIES
    ContractSpec
