\* Signed requests run their routes; the clock ticks once, out of the window.
SPECIFICATION ServiceSpec
CONSTANTS
    platform = platform
    issuer = issuer
    kp = kp
    k1 = k1
    i1 = i1
    i2 = i2
    g1 = g1
    r1 = r1
    r2 = r2
    Null = Null
    NoNamespace = NoNamespace
    Clients = {platform, issuer}
    Keys = {kp, k1}
    Ids = {i1, i2}
    Requests = {r1, r2}
    Messages <- ServiceMessages
    RegisterCalls <- ServiceRegisterCalls
    Mode = "registered"
    Acceptance = "platform-assisted"
    Administrator = platform
    ConfiguredClients <- BothClients
    RegistrationTTL = 4
    TimestampWindow = 0
    MaxClock = 1
    Names <- OneName
    Pairs = {g1}
    Route <- ServiceRoute
SYMMETRY Symmetry
INVARIANTS
    ServiceTypeOK
    EffectsWereSignedAndGranted
PROPERTIES
    RunsOncePerSignature
    ProtocolSpec
