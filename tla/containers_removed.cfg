SPECIFICATION Spec
CONSTANTS
    Cont = {c1}
    Thread = {t1, t2}
    MaxLines = 2
    MaxFault = 1
    None = None
PROPERTY RemovesContainer
CHECK_DEADLOCK FALSE
