SPECIFICATION FairSpec
CONSTANTS
    MaxFd = 1
    Groups = {g1}
    Main = Main
    Modes = {"poll", "event", "both"}
INVARIANTS NoFaultBeforeLoss ReconnectLoses
PROPERTY StopEnds
