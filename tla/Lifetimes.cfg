SPECIFICATION Spec
CONSTANTS
    FrameCount = 3
    ModelCount = 5
    TextureCount = 1
INVARIANTS
    LifetimesTypeOK
    FrameHandlesLive
    NoStrayCalls
    ReleasedBeforeDevice
    DestroyedOnce
    CleanExit
