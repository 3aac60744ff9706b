CONSTANTS
    b = b
    c = c
    Candidates <- MCCandidates
    Baseline = b
    Verdicts <- MCVerdicts
    AttemptCalls <- MCAttemptCalls
    ValidationCases = 1
    Repetitions = 5
    NAttempts = 1
    StagnationLimit = 1
    MaxEvaluations = 18
    MaxProposals = 1
    SearchLimit = 10

SPECIFICATION Spec
INVARIANTS
    DeadlineIsBudgetExhaustion
