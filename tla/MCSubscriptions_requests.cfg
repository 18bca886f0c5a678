\* Two subscriptions share the publish requests, with the fairness of the loop.
SPECIFICATION FairSpec
CONSTANTS
    MaxSubs = 2
    MaxItems = 0
    MaxSamples = 1
    MaxRequests = 3
    Values = {v1, v2}
    None = None
    KeepAlives = {1}
    Lifetimes = {3}
    Notifications = {1}
    Sizes = {1}
    keepAliveCountLimits <- OneToOne
    lifeTimeCountLimits <- ThreeToThree
    queueSizeLimits <- OneToTwo
    maxNotificationsPerPublish = 2
    maxRetransmissionQueueSize = 1
    OutOfMemory = FALSE
    MaxJobs = 2
    MaxDelayed = 2
INVARIANT RequestsExact
PROPERTY RequestsAnswered
CHECK_DEADLOCK FALSE
