CONSTANTS
    s1 = s1
    s2 = s2
    Sessions <- Two
    Kinds <- AnyTwo
    MaxNodes = 1
    MaxSignals = 1

SPECIFICATION Spec
INVARIANTS
    TypeOK
    QuietEndIsClean
    FileCanBeTrusted
    ForwardNeverOrphaned
PROPERTIES
    ScalesOnlyEmptyPool
    Termination
