\* Every pair of inputs, every width, every witness.  A run ends with a verdict.
SPECIFICATION Spec
CONSTANTS
    Prime = 23
    MaxWidth = 3
    Widths = {1, 2, 3, 4}
INVARIANTS
    CircuitInv
    OutputIsComparison
    HintedIsAccepted
    OutputIsSign
    WitnessIsComputed
CHECK_DEADLOCK FALSE
