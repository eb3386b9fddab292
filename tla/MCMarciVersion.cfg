CONSTANTS
    p = p  w = w  v1 = v1  v2 = v2  e1 = e1
    Null = Null
    Peer = {p, w}
    Version = {v1, v2}
    Endpoint = {e1}
    Inbox <- VersionInbox
    Capacity <- OneEach
    Places <- SomePlaces
    WitnessThreshold = 2
    OnlineTimeout = 1
    UnknownTimeout = 1
    MaxFailures = 0
SPECIFICATION Spec
INVARIANTS LoggedVersionIsSet
