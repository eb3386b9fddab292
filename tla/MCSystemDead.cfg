CONSTANTS
    p = p  w = w  v = v  ip = ip  port = port
    Peer = {p}  Version = {v}  Null = Null  NoId = NoId
    Ip = {ip, Localhost}  Loopback = {Localhost}  Localhost = Localhost
    Port = {port, NoPort}  NoPort = NoPort  Malformed = Malformed
    Inbox <- NoReports
    OnlineTimeout = 1
    UnknownTimeout = 1
    Payload <- FullPeer
    NodesList <- NamesNobody
    WitnessThreshold = 1
    MaxFaults = 0
    Bootnodes <- NoBootnodes
    Others <- NamedOnMirana
    Mortal = {p}
    MaxWire = 1
    Unreliable = FALSE
SPECIFICATION SystemFairSpec
PROPERTIES DeadPeerLeaves
