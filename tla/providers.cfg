SPECIFICATION Spec
CONSTANTS
    a1 = a1
    a2 = a2
    Pod = {p, q}
    Fresh = {f1, f2, f3}
    Template = Template
    IP = {a1, a2}
    Pool <- Pool2
    Handler = {h1, h2}
    MaxFault = 2
    None = None
INVARIANTS TypeOK AddressesHeldOnce ReadyHasOwnVM
PROPERTY ImplementsTable
SYMMETRY Symmetry
CHECK_DEADLOCK FALSE
