\* The last subscription is deleted and the channel closed in one batch.
SPECIFICATION Spec
CONSTANTS
    MaxSubs = 1
    MaxItems = 1
    MaxSamples = 1
    MaxRequests = 2
    Values = {v1, v2}
    None = None
    KeepAlives = {1}
    Lifetimes = {3}
    Notifications = {1}
    Sizes = {1}
    keepAliveCountLimits <- OneToOne
    lifeTimeCountLimits <- ThreeToThree
    queueSizeLimits <- OneToTwo
    maxNotificationsPerPublish = 2
    maxRetransmissionQueueSize = 1
    OutOfMemory = FALSE
    MaxJobs = 2
    MaxDelayed = 2
INVARIANT DanglingAnswersHaveChannel
SYMMETRY Symmetry
CHECK_DEADLOCK FALSE
