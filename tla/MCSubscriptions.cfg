\* One item: its queue at every size, the messages and their retransmission,
\* while session, channel and subscription end in any order.
SPECIFICATION Spec
CONSTANTS
    MaxSubs = 1
    MaxItems = 1
    MaxSamples = 3
    MaxRequests = 3
    Values = {v1, v2}
    None = None
    KeepAlives = {1}
    Lifetimes = {3}
    Notifications = {1}
    Sizes = {1, 2}
    keepAliveCountLimits <- OneToOne
    lifeTimeCountLimits <- ThreeToThree
    queueSizeLimits <- OneToTwo
    maxNotificationsPerPublish = 2
    maxRetransmissionQueueSize = 2
    OutOfMemory = FALSE
    MaxJobs = 2
    MaxDelayed = 2
INVARIANTS DeliveryExact JobsMatch
SYMMETRY Symmetry
CHECK_DEADLOCK FALSE
