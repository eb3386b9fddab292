CONSTANTS
    b = b  p = p  ip = ip  port = port  v = v
    PeerId = {b, p}  NoId = NoId
    Ip = {ip, Localhost}  Loopback = {Localhost}  Localhost = Localhost
    Port = {port, NoPort}  NoPort = NoPort
    Version = {v}  Null = Null  Malformed = Malformed
    Bootnodes <- MiranaBootnode
    Request <- AskForPeer
    Payload <- FullPeer
    NodesList <- NamesPeer
    MaxFaults = 0
SPECIFICATION Spec
INVARIANTS TypeOK DialsOnlyAsked SpeaksOfTold
