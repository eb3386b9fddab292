CONSTANTS
    p1 = p1  r1 = r1  r2 = r2  w1 = w1
    Nobody = Nobody
    Peer = {p1}
    Request = {r1, r2}
    Worker = {w1}
    WorkerOf <- SameWorker
    Query <- MapQueries
    CacheTtl = 1
    MaxChanges = 4
SYMMETRY Alike
SPECIFICATION Spec
INVARIANTS TypeOK ListSound ListComplete
PROPERTIES StatusRegular CachedIsFresh FreshListIsOwn
