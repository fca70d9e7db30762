SPECIFICATION Spec
CONSTANTS
    MAX_FRAMES_IN_FLIGHT = 3
    ImageCount = 3
    EarlyAcquire = FALSE
    VK_NULL_HANDLE = VK_NULL_HANDLE
INVARIANTS
    RunLocalsUnused
