SPECIFICATION FairSpec
CONSTANTS
    UnknownVer = UnknownVer
    MaxAddrs = 2
    me = me
    x = x
    y = y
    f = f
    v1 = v1
    v0 = v0
    z = z
    a = a
    b = b
    l = l
    Ids = {me, x, y, f}
    MyId = me
    Vers <- MCVers
    MyVer = v1
    AddrLists <- TableAddrLists
    NodeInfos <- LiveInfos
    Buckets <- OneBucket
    BucketOf <- MCBucketOf
    ZAddr = z
    LocalAddrs <- NoLocalAddrs
    BucketSz = 2
    InitNextTmo = 1
    NextTmoStep = 2
    MaxNextTmo = 1
    MaxPingTms = 3
    MaxProbeTms = 1
    MaxTries = 4
PROPERTY SilentPeersGiveUp
