SPECIFICATION Spec
CONSTANTS
    Sizes <- MCSizes
    InitialSize <- MCInitialSize
    MinImageExtent <- MCMinImageExtent
    Formats = {f1}
    MaxResizes = 2
INVARIANTS
    PipelineFromLivePass
