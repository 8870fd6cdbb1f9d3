SPECIFICATION Spec
CONSTANTS
    v1 = v1
    v2 = v2
    v3 = v3
    v4 = v4
    Vol <- VolSet
    Handler = {h1, h2, h3}
    Volumes <- Flex
    MaxAuto = 3
    Letter <- Letters
    None = None
SYMMETRY Handlers
CHECK_DEADLOCK FALSE
INVARIANTS TypeOK DevicesDistinct MountedOnce
