CONSTANTS
    Prompts = {p1, p2}
    JourneyTurns = 2
    MaxEdits = 2
    MaxCalls = 2
    MaxAttempts = 2

SYMMETRY AnyPrompt
SPECIFICATION Spec
INVARIANTS
    VerdictIsSound
    TraceIsComplete
    InputsAreAttested
    EvidenceIsWhole
