SPECIFICATION Spec
CONSTANTS
    UnknownVer = UnknownVer
    MaxAddrs = 2
    me = me
    x = x
    y = y
    f = f
    v1 = v1
    v0 = v0
    z = z
    a = a
    b = b
    l = l
    Ids = {me, x, f}
    MyId = me
    Vers <- MCVers
    MyVer = v1
    AddrLists <- ConnAddrLists
    NodeInfos <- ConnInfos
    Buckets <- TwoBuckets
    BucketOf <- ConnBucketOf
    ZAddr = z
    LocalAddrs <- ConnLocalAddrs
    BucketSz = 1
    InitNextTmo = 1
    NextTmoStep = 3
    MaxNextTmo = 1
    MaxPingTms = 0
    MaxProbeTms = 1
    MaxTries = 1
INVARIANTS TableWellFormed AddrsOrdered
PROPERTIES ConnOnlyImproves ProbesLimited
