SPECIFICATION Spec
CONSTANTS
    Cont = {c1}
    Thread = {t1, t2}
    MaxLines = 1
    MaxFault = 1
    None = None
INVARIANT TypeOK
INVARIANT TailsHaveReader
PROPERTY ImplementsLife
PROPERTY CallsFinish
PROPERTY StreamsEnd
PROPERTY LinesArrive
CHECK_DEADLOCK FALSE
