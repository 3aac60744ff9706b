CONSTANTS
    Leader = leader
    c1 = c1
    c2 = c2
    Children <- TwoChildren
    MaxSignals = 0

SPECIFICATION Spec
PROPERTIES
    TimeoutTearsDownTree
