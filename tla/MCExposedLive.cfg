CONSTANTS
    p1 = p1  r1 = r1  r2 = r2  w1 = w1
    Nobody = Nobody
    Peer = {p1}
    Request = {r1, r2}
    Worker = {w1}
    WorkerOf <- SameWorker
    Query <- AllQueries
    CacheTtl = 0
    MaxChanges = 2
SPECIFICATION FairSpec
PROPERTIES EveryRequestAnswered
