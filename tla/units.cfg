SPECIFICATION Spec
CONSTANTS
    Name = {n1, n2}
    Image = {i1, i2}
    Handler = {h1, h2}
    MaxAttempt = 2
    MaxRestart = 1
    None = None
SYMMETRY Symmetry
CHECK_DEADLOCK FALSE
INVARIANTS TypeOK ExitedHasNoMain AttemptsNotMixed
