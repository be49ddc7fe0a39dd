\* Register calls race with each other and with expiry, in mode none.
SPECIFICATION FairSpec
CONSTANTS
    platform = platform
    issuer = issuer
    kp = kp
    k1 = k1
    k2 = k2
    i1 = i1
    i2 = i2
    i3 = i3
    r1 = r1
    r2 = r2
    Null = Null
    Clients = {issuer}
    Keys = {k1, k2}
    Ids = {i1, i2}
    Requests = {r1, r2}
    Messages <- OpenMessages
    RegisterCalls <- OpenRegisterCalls
    Mode = "none"
    Acceptance = "allow-list"
    Administrator = issuer
    ConfiguredClients <- NoClients
    RegistrationTTL = 1
    TimestampWindow = 1
    MaxClock = 3
PROPERTIES
    KeyNeverRebound
    DroppedStaysDropped
    EveryRequestEnds
