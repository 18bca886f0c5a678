SPECIFICATION FairSpec
CONSTANTS
    Pubs = {p1}
    Mqtt = Mqtt
    Tcp = Tcp
    MaxFd = 2
    Configs <- BothConfigs
INVARIANT SocketsKept
PROPERTY SinksStop
