SPECIFICATION FairSpec
CONSTANTS
    Conns = {k1}
    Channels = {c1, c2}
    Sessions = {s1}
    None = None
    maxSecureChannels = 1
    maxSessions = 1
INVARIANTS SessionLinks NoUseAfterFree FreedOnce NothingLeft
PROPERTIES DeadChannelFreed DeadSessionFreed
CHECK_DEADLOCK FALSE
