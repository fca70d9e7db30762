SPECIFICATION Spec
CONSTANTS
    Files <- MCFiles
    Builders = {}
    WordSize = 4096
    Garbage = Garbage
    Kinds = {"quad", "terrain", "cube"}
    Resolutions = {1, 2, 4}
    cells = 2
    Surfaces <- MCSurfaces
    Values <- MCValues
    Steps = 4
    Epsilon = 2
INVARIANTS
    ModelTypeOK
    CornersKept
    StagingHeld
    DrawnAsBuilt
    GeneratorTypeOK
    SquaresJoined
    SurfaceFollowed
    SurfaceClosed
CHECK_DEADLOCK FALSE
