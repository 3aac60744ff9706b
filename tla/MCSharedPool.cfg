CONSTANTS
    s1 = s1
    s2 = s2
    Sessions <- Two
    Kinds <- OnePool
    MaxNodes = 2
    MaxSignals = 0

SPECIFICATION Spec
PROPERTIES
    RestoresOnlyWhatItRaised
