\* The client table changes under requests in flight; the clock stands.
SPECIFICATION Spec
CONSTANTS
    platform = platform
    issuer = issuer
    kp = kp
    k1 = k1
    k2 = k2
    i1 = i1
    i2 = i2
    i3 = i3
    r1 = r1
    r2 = r2
    Null = Null
    Clients = {platform, issuer}
    Keys = {kp, k1, k2}
    Ids = {i1, i2, i3}
    Requests = {r1, r2}
    Messages <- ClientMessages
    RegisterCalls <- ClientRegisterCalls
    Mode = "registered"
    Acceptance = "platform-assisted"
    Administrator = platform
    ConfiguredClients <- PlatformAndIssuer
    RegistrationTTL = 4
    TimestampWindow = 1
    MaxClock = 0
SYMMETRY Symmetry
INVARIANTS
    TypeOK
    RegistrationsHaveClients
    PassedWasEntitled
PROPERTIES
    AdministratorKept
    OnlyAdministratorEdits
    ContractSpec
