\* A pool of two (a request below the minimum) or four, two drawing threads, six snapshots.
SPECIFICATION FairSpec
CONSTANTS
    d1 = d1  d2 = d2
    s1 = s1  s2 = s2  s3 = s3  s4 = s4  s5 = s5  s6 = s6
    NoSnapshot = NoSnapshot
    Requests = {1, 4}
    MinCapacity = 2
    MaxCapacity = 6
    Drawers <- TwoDrawers
    Snapshots <- SixSnapshots
INVARIANT SnapshotsDistinct
INVARIANT NoLostWakeup
INVARIANT DropStopsGathering
PROPERTY PoolOpens
PROPERTY RefilledWhenEmpty
PROPERTY WorkerStops
