SPECIFICATION FairSpec
CONSTANTS
    p = p
    q = q
    m1 = m1
    m2 = m2
    m3 = m3
    v = v
    w = w
    Pod = {p, q}
    Point = {m1, m2, m3}
    PodOf <- Pods
    Vol = {v, w}
    Given <- Volumes
    Format = {m1, m2}
    Mode <- Modes
    OneDevice = TRUE
    Sandbox = {s1}
    MaxCrash = 1
    MaxKill = 1
    None = None
INVARIANTS TypeOK FormatsOwn ContainersGetVolume
PROPERTY RetriesGetThrough
CHECK_DEADLOCK FALSE
