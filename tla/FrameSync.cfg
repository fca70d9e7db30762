SPECIFICATION Spec
CONSTANTS
    MAX_FRAMES_IN_FLIGHT = 3
    ImageCount = 2
    EarlyAcquire = TRUE
    VK_NULL_HANDLE = VK_NULL_HANDLE
INVARIANTS
    SlotExclusive
    AcquireSemaphoreFree
    ImageExclusive
    FrameBracketing
    IndInv
PROPERTIES
    ImplementsPacing
    IterationEnds
    SubmissionsComplete
    ResizeHonoured
