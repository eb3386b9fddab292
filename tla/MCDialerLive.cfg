CONSTANTS
    b = b  p = p  ip = ip  port = port  v = v
    PeerId = {b}  NoId = NoId
    Ip = {ip, Localhost}  Loopback = {Localhost}  Localhost = Localhost
    Port = {port, NoPort}  NoPort = NoPort
    Version = {v}  Null = Null  Malformed = Malformed
    Bootnodes <- MiranaBootnode
    Request <- AskForBoot
    Payload <- OtherPeer
    NodesList <- NamesBoot
    MaxFaults = 1
SPECIFICATION FairSpec
PROPERTIES BootnodesRedialed SessionEnds MqttPanicRecovered
