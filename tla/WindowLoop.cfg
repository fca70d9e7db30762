SPECIFICATION Spec
CONSTANTS
    Sizes <- MCSizes
    InitialSize <- MCInitialSize
    MinImageExtent <- MCMinImageExtent
    Formats = {f1, f2}
    MaxResizes = 3
INVARIANTS
    LoopTypeOK
    AspectMatches
    StaleNoticed
    PipelinesCompatible
PROPERTIES
    ResizeSettles
    CloseHonoured
