SPECIFICATION Spec
CONSTANT Extents = {1, 2, 3, 4, 5, 7, 8, 9, 33}
INVARIANTS
    UploadTypeOK
    LayoutsNamed
    BlitWholeLevels
    TextureReady
CHECK_DEADLOCK FALSE
