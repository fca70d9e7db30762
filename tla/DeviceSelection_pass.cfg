SPECIFICATION Spec
CONSTANTS
    PhysicalDevices <- MCDevices
    MaxDevices = 2
INVARIANTS
    BestTaken
    FamiliesFound
CHECK_DEADLOCK FALSE
