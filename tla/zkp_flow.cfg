\* Credentials, challenges and presentations change hands in any order.
SPECIFICATION Spec
CONSTANTS
    Null = Null
    Malformed = Malformed
    c1 = c1
    c2 = c2
    c3 = c3
    JsonNull = JsonNull
    p1 = p1
    p2 = p2
    n1 = n1
    n2 = n2
    k1 = k1
    k2 = k2
    Issuers <- SomeIssuers
    Devices = {d1, d2}
    Challenges = {c1, c2, c3}
    Scalar <- Elements
    Claims <- SomeClaims
    Requirements <- SomeRequirements
    Draws = {s1, s2}
    MaxCredentials = 1
    MaxTokens = 1
SYMMETRY Symmetry
INVARIANTS
    VerifiedWasSigned
    VerifiedMeetsRequirements
    RoundTripVerifies
    PresentationsMade
