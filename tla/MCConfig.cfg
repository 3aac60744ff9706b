CONSTANTS
    References <- Refs
    Names <- TwoNames
    Seeds <- ThreeSeeds
    MaxRefs = 2
    MaxStages = 2
    MaxNumber = 5

SPECIFICATION Spec
INVARIANTS
    HoldoutIsUnseen
    PlanIsCovered
