SPECIFICATION FairSpec
INVARIANTS TypeOK Integrity BucketSound Findable AnswersMatch Truthful
PROPERTY Aired

CONSTANTS
    a = a
    b = b
    c = c
    la = la
    h1 = h1
    h2 = h2
    e1 = e1
    e2 = e2
    Nodes = {a, b, c}
    NoId = NoId
    Lan <- ShareLan
    Props <- ShareProps
    Boots <- None
    Known <- ShareKnown
    TableSz = 6
    Probing = {a}
    Restarting = {}
    Hashes = {h1, h2}
    Offers <- ShareOffers
    Wants <- ShareWants
    Links = {}
    AirLinks <- ShareAirLinks
    Ratios <- ShareRatios
    Numbers = {1}
    MaxInFlight = 1
    MaxDue = 1
    MaxChanges = 2
    BucketOf <- ShareBucketOf
    BucketSz = 1
    MaxSrvcAddrs = 2
    MaxAge = 1
