SPECIFICATION Spec
CONSTANTS
    SlotCount = 2
    MaxSets = 2
    IdCount = 3
    MaxCreated = 4
    ComponentSets <- MCComponentSets
    Distances = {1, 2}
    Views = {v1, v2}
INVARIANTS
    AllLightsDrawn
CHECK_DEADLOCK FALSE
