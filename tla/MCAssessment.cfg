CONSTANTS
    Cases = 2
    Repetitions = 5
    MaxHard = 1

SPECIFICATION Spec
INVARIANTS
    VerdictIsRealizable
    MoreSuccessIsBetter
    GateIsUnanimous
