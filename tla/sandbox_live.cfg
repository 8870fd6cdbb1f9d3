SPECIFICATION FairSpec
CONSTANTS
    a1 = a1
    a2 = a2
    IP = {a1}
    Pool <- Pool1
    Ref = {r1}
    Thread = {t1, t2, t3}
    ImagePod = FALSE
    Listings = TRUE
    MaxPool = 1
    None = None
PROPERTY RequestsFinish
