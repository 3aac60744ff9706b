CONSTANTS
    b = b
    c = c
    Candidates <- MCCandidates
    Baseline = b
    Verdicts <- Two
    ValidationCases = 1
    HoldoutCases = 1
    Repetitions = 5
    Probes = 2
    MaxSignals = 1
    MaxEvaluations = 29
    MaxProposals = 1
    SearchLimit = 8

SPECIFICATION Spec
INVARIANTS
    ExitMatchesSummary
    HoldoutLeavesTrace
    ExhaustionIsReal
    CancellationIsRecorded
    QualifiedIsEarned
PROPERTIES
    KeepsSummaryFile
    Termination
