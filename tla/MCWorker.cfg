CONSTANTS
    Leader = leader
    c1 = c1
    c2 = c2
    Children <- TwoChildren
    MaxSignals = 2

SPECIFICATION Spec
INVARIANTS
    AnswerIsWhole
    TeardownIsComplete
PROPERTIES
    RequestEnds
