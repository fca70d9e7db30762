SPECIFICATION Spec
CONSTANTS
    MAX_FRAMES_IN_FLIGHT = 3
    ImageCount = 4
    EarlyAcquire = FALSE
    VK_NULL_HANDLE = VK_NULL_HANDLE
INVARIANTS
    RenderFinishedFree
