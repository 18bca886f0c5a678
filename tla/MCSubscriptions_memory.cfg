\* Every malloc may fail, while queues of one and two overflow, grow and shrink; a message takes two notifications.
SPECIFICATION Spec
CONSTANTS
    MaxSubs = 1
    MaxItems = 1
    MaxSamples = 3
    MaxRequests = 1
    Values = {v1, v2}
    None = None
    KeepAlives = {1}
    Lifetimes = {3}
    Notifications = {0}
    Sizes = {1, 2}
    keepAliveCountLimits <- OneToOne
    lifeTimeCountLimits <- ThreeToThree
    queueSizeLimits <- OneToTwo
    maxNotificationsPerPublish = 2
    maxRetransmissionQueueSize = 1
    OutOfMemory = TRUE
    MaxJobs = 2
    MaxDelayed = 0
INVARIANT NewestKept
SYMMETRY Symmetry
CHECK_DEADLOCK FALSE
