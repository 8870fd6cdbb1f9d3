SPECIFICATION Spec
CONSTANTS
    a1 = a1
    a2 = a2
    IP = {a1}
    Pool <- Pool1
    Ref = {r1, r2}
    Thread = {t1, t2, t3}
    ImagePod = TRUE
    Listings = FALSE
    MaxPool = 1
    None = None
SYMMETRY Symmetry
INVARIANTS BootedOnce ClientStaysDuringCall LiveHasInstance
