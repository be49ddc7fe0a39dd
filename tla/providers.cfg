\* Keys, signatures and proofs change hands between the provider routes.
SPECIFICATION Spec
CONSTANTS
    Null = Null
    Garbled = Garbled
    a = a
    a0 = a0
    b = b
    d1 = d1
    d2 = d2
    Providers = {"BbsPlusG1Provider", "BbsPlusG2Provider", "Fips204MlDsa44Provider", "Fips204MlDsa65Provider"}
    Nonces = {n1, n2}
    Messages = {a, a0, b}
    Element <- Numbers
    MessageLists <- Lists
    Counts = {0, 1, 2}
    Draws = {d1, d2}
    MaxPairs = 2
    MaxSignatures = 1
    MaxProofs = 1
SYMMETRY Symmetry
INVARIANT
    RoundTripSaysYes
