SPECIFICATION Spec
CONSTANTS
    PhysicalDevices <- MCDevices
    MaxDevices = 2
INVARIANTS
    OnlySuitableTaken
CHECK_DEADLOCK FALSE
