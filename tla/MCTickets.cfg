SPECIFICATION FairSpec
CONSTANTS
    c1 = c1
    c2 = c2
    c3 = c3
    h = h
    g = g
    Clients = {c1, c2, c3}
    Hashes = {h, g}
    NoHash = NoHash
    HashOf <- MCHashOf
    Nonces = {n1, n2}
    OverdueTmo = 3
INVARIANTS TypeOK ToldOnce AppliedOnce ProbesPaired
PROPERTIES ImplementsLookup ToldWhileRunning
