\* The replay cache under a moving clock and restarts.
SPECIFICATION Spec
CONSTANTS
    platform = platform
    issuer = issuer
    kp = kp
    k1 = k1
    k2 = k2
    i1 = i1
    i2 = i2
    i3 = i3
    r1 = r1
    r2 = r2
    Null = Null
    Clients = {platform}
    Keys = {kp}
    Ids = {i1, i2}
    Requests = {r1, r2}
    Messages <- ReplayMessages
    RegisterCalls <- ReplayRegisterCalls
    Mode = "registered"
    Acceptance = "allow-list"
    Administrator = platform
    ConfiguredClients <- PlatformOnly
    RegistrationTTL = 4
    TimestampWindow = 1
    MaxClock = 3
SYMMETRY Symmetry
INVARIANTS
    ContractInv
    LastUseAfterCreation
PROPERTIES
    AtMostOnceInWindow
    RefusedOnlyIfAccepted
    ContractSpec
