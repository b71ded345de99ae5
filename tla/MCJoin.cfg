SPECIFICATION FairSpec
INVARIANT WireFaithful
PROPERTY Converges
CONSTANTS
    a = a
    b = b
    c = c
    la = la
    h1 = h1
    h2 = h2
    e1 = e1
    e2 = e2
    Nodes = {a, b, c}
    NoId = NoId
    Lan <- Itself
    Props <- JoinProps
    Boots <- JoinBoots
    Known <- JoinKnown
    TableSz = 6
    Probing = {}
    Restarting = {a, b, c}
    Hashes = {}
    Offers <- None
    Wants <- None
    Links <- JoinLinks
    AirLinks = {}
    Ratios = {}
    Numbers = {1}
    MaxInFlight = 2
    MaxDue = 1
    MaxChanges = 1
    BucketOf <- JoinBucketOf
    BucketSz = 1
    MaxSrvcAddrs = 1
    MaxAge = 1
