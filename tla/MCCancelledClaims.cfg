CONSTANTS
    b = b
    c = c
    Candidates <- MCCandidates
    Baseline = b
    Verdicts <- Two
    ValidationCases = 1
    HoldoutCases = 1
    Repetitions = 5
    Probes = 1
    MaxSignals = 1
    MaxEvaluations = 28
    MaxProposals = 1
    SearchLimit = 8

SPECIFICATION Spec
INVARIANTS
    CancelledClaimsNothing
