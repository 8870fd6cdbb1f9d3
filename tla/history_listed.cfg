SPECIFICATION HistSpec
CONSTANTS
    a1 = a1
    IP = {a1}
    Pool <- Pool1
    Ref = {r1, r2}
    Thread = {t1, t2}
    ImagePod = FALSE
    Listings = TRUE
    MaxPool = 1
    None = None
INVARIANT ReturnedIsListed
