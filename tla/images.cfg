SPECIFICATION Spec
CONSTANTS
    Name = {n1, n2}
    Id = {i1, i2}
    Worker = {w1, w2}
    Default = Default
    MaxFault = 2
    None = None
INVARIANTS TypeOK TableIsTrue BootsNoOther
PROPERTY ContainersRun
