CONSTANTS
    b = b
    c = c
    Candidates <- MCCandidates
    Baseline = b
    Verdicts <- MCVerdicts
    AttemptCalls <- MCAttemptCalls
    ValidationCases = 1
    Repetitions = 5
    NAttempts = 3
    StagnationLimit = 2
    MaxEvaluations = 42
    MaxProposals = 3
    SearchLimit = 26

SPECIFICATION Spec
INVARIANTS
    TypeOK
    NoTornIteration
    ChampionBeatsBaseline
    LedgerBalances
    AttemptOverrunBounded
    StagnationStopsSearch
PROPERTIES
    EvaluatedBestIsAssessed
    FailureStopsGepa
    KeepsPromise
    Termination
