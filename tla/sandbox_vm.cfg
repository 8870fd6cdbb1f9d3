SPECIFICATION Spec
CONSTANTS
    a1 = a1
    a2 = a2
    IP = {a1, a2}
    Pool <- Pool2
    Ref = {r1, r2}
    Thread = {t1, t2}
    ImagePod = FALSE
    Listings = TRUE
    MaxPool = 2
    None = None
SYMMETRY Symmetry
INVARIANTS TypeOK AddressesHeldOnce ClientStaysDuringCall LiveHasInstance
PROPERTY ReleaseAfterDestroy
