CONSTANTS
    p = p  w = w  v1 = v1  v2 = v2  e1 = e1
    Null = Null
    Peer = {p, w}
    Version = {v1, v2}
    Endpoint = {e1}
    Inbox <- LiveInbox
    Capacity <- OneEach
    Places <- SomePlaces
    WitnessThreshold = 1
    OnlineTimeout = 1
    UnknownTimeout = 1
    MaxFailures = 0
SPECIFICATION FairSpec
PROPERTIES MqttNeverStuck EveryKindServed ReachableIsDialed
