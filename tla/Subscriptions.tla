--------------------------- MODULE Subscriptions ---------------------------
(***************************************************************************)
(* The subscriptions of one server session: monitored items and their      *)
(* queues, the publish callback, the queue of publish requests, the        *)
(* retransmission queue, and the repeated jobs that drive them             *)
(* (src/open62541_mqtt/src: server/ua_subscription.c,                      *)
(* server/ua_services_subscription.c, ua_session.c, ua_timer.c), in the    *)
(* default build without threads.                                          *)
(*                                                                         *)
(* Ids are never used twice and both lists insert at the head, so a list   *)
(* is walked from the largest id down.  A notification is the pair of its  *)
(* item and the number of the sample; a value is its filtered encoding.    *)
(* SAMPLING and DISABLED are one mode: the code treats them alike.  A      *)
(* service is called with one list entry, DeleteSubscriptions with a set.  *)
(*                                                                         *)
(* One iteration of the main loop runs the due jobs (phase "timer"), the   *)
(* messages of the network ("jobs") and the delayed callbacks ("delayed"). *)
(***************************************************************************)
EXTENDS Integers, SequencesExt

CONSTANTS
    MaxSubs, MaxItems, MaxSamples, MaxRequests,    \* bounds of the model: ids,
    MaxJobs,                                       \* jobs of one callback, and
    MaxDelayed,                                    \* waiting ends of the session
    Values, None,                                  \* what a node reads as
    KeepAlives, Lifetimes, Notifications, Sizes,   \* what requests ask for
    keepAliveCountLimits, lifeTimeCountLimits,     \* UA_ServerConfig
    queueSizeLimits, maxNotificationsPerPublish, maxRetransmissionQueueSize,
    OutOfMemory                                    \* whether malloc may fail

IsRange(r) == r.min \in Nat /\ r.max \in Nat /\ r.min <= r.max

ASSUME BoundAssumption ==
    /\ MaxSubs \in Nat /\ MaxItems \in Nat /\ MaxSamples \in Nat /\ MaxRequests \in Nat
    /\ KeepAlives \subseteq Nat /\ Lifetimes \subseteq Nat
    /\ Notifications \subseteq Nat /\ Sizes \subseteq Nat
    /\ None \notin Values /\ OutOfMemory \in BOOLEAN
    /\ MaxJobs \in Nat \ {0} /\ MaxDelayed \in Nat

\* A queue has room for one value and a message for one notification.
ASSUME ConfigAssumption ==
    /\ IsRange(keepAliveCountLimits) /\ IsRange(lifeTimeCountLimits)
    /\ IsRange(queueSizeLimits) /\ queueSizeLimits.min > 0
    /\ maxNotificationsPerPublish \in Nat \ {0}
    /\ maxRetransmissionQueueSize \in Nat

VARIABLES
    live,           \* session->serverSubscriptions
    lastSub,        \* session->lastSubscriptionID
    sub,            \* the fields of every subscription
    items,          \* sub->monitoredItems
    mon,            \* the fields of every monitored item
    timers,         \* how many repeated jobs are registered for a callback
    due,            \* the jobs this iteration still has to run
    responseQueue,  \* session->responseQueue: the stored publish requests
    requests,       \* how many publish requests have come
    channel,        \* session->channel: "open", "closing" (to be freed) or "none"
    session,        \* "listed", "expired" (listed, timed out), "removed", "freed"
    delayed,        \* the delayed callbacks, the latest first
    phase,          \* where the main loop is
    calling,        \* the subscription whose publish callback runs, or 0
    stale,          \* the job that ran on freed memory, if one did
    fault,          \* "none", or what else the program died of
    sent,           \* history: the notification messages of a subscription
    acked,          \* history: the sequence numbers acknowledged
    answers,        \* history: request id and handle of the responses sent
    expired,        \* history: the subscriptions that reached their lifetime
    missed          \* history: stored requests were left to a timed out session

subVars == <<live, lastSub, sub, items, mon, timers>>
requestVars == <<responseQueue, requests, answers>>
sessionVars == <<channel, session, delayed, missed>>
faults == <<stale, fault>>
messages == <<sent, acked>>
vars == <<subVars, due, requestVars, sessionVars, phase, calling, faults, messages, expired>>

SubIds == 1..MaxSubs
ItemIds == 1..MaxItems

\* The callback of a repeated job: <<s, 0>> publishes, <<s, i>> samples.
Jobs == SubIds \X (0..MaxItems)

\* The client's handle of request r, a number unlike any request id.
Handle(r) == MaxRequests + r

NoSub ==
    [publishingEnabled |-> FALSE, maxKeepAliveCount |-> 0, lifeTimeCount |-> 0,
     notificationsPerPublish |-> 0, state |-> "NORMAL", sequenceNumber |-> 0,
     currentKeepAliveCount |-> 0, currentLifetimeCount |-> 0, lastMonitoredItemId |-> 0,
     publishJobIsRegistered |-> FALSE, retransmissionQueue |-> <<>>]

NoMon ==
    [reporting |-> FALSE, maxQueueSize |-> 0, discardOldest |-> FALSE,
     sampleJobIsRegistered |-> FALSE, lastSampledValue |-> None, samples |-> 0, queue |-> <<>>]

Init ==
    /\ live = {} /\ lastSub = 0
    /\ sub = [s \in SubIds |-> NoSub]
    /\ items = [s \in SubIds |-> {}]
    /\ mon = [s \in SubIds |-> [i \in ItemIds |-> NoMon]]
    /\ timers = [j \in Jobs |-> 0] /\ due = {}
    /\ responseQueue = <<>> /\ requests = 0
    /\ channel = "open" /\ session = "listed" /\ delayed = <<>>
    /\ phase = "jobs" /\ calling = 0
    /\ stale = {} /\ fault = "none"
    /\ sent = [s \in SubIds |-> <<>>] /\ acked = [s \in SubIds |-> {}]
    /\ answers = {} /\ expired = {} /\ missed = FALSE

-----------------------------------------------------------------------------
(* Repeated jobs.  A change to the list made while its jobs run takes      *)
(* effect when they are done: due keeps a job that has been removed.       *)

\* The number of jobs after a removal, which needs memory for its entry.
removeRepeatedJob(n) == {n - 1} \cup {m \in {n} : OutOfMemory}

\* What registering leaves: the number of jobs and the flag.
addRepeatedJob(n) ==
    {<<m + 1, TRUE>> : m \in {n} \cap 0..(MaxJobs - 1)} \cup {t \in {<<n, FALSE>>} : OutOfMemory}

\* Mutant: the old job is forgotten, not removed.
reregister_keepsOld(n, was, want) == IF want THEN addRepeatedJob(n) ELSE {<<n, FALSE>>}

\* Unregister, then register again if it is wanted.
reregister(n, was, want) ==
    UNION {IF want THEN addRepeatedJob(m) ELSE {<<m, FALSE>>} :
           m \in IF was THEN removeRepeatedJob(n) ELSE {n}}

Registered(j) ==
    IF j[2] = 0 THEN sub[j[1]].publishJobIsRegistered
                ELSE mon[j[1]][j[2]].sampleJobIsRegistered

\* The jobs J are unregistered for good, except those that found no memory.
unregister(J) ==
    \E lost \in IF OutOfMemory THEN SUBSET J ELSE {{}} :
        timers' = [j \in Jobs |-> IF j \in J \ lost /\ Registered(j)
                                  THEN timers[j] - 1 ELSE timers[j]]

-----------------------------------------------------------------------------
(* Monitored items.                                                        *)

\* One value makes room, however far the queue is above its size.
ensureSpaceInMonitoredItemQueue(m) ==
    IF Len(m.queue) < m.maxQueueSize THEN m.queue
    ELSE IF m.discardOldest THEN Tail(m.queue) ELSE Front(m.queue)

\* Item i with a new value v, remembered and queued.
sampled(m, i, v) ==
    [m EXCEPT !.lastSampledValue = v,
              !.samples = @ + 1,
              !.queue = Append(ensureSpaceInMonitoredItemQueue(m),
                               [item |-> i, no |-> m.samples + 1])]

\* Mutant: the value is remembered before the queue entry is allocated.
sampleCallback_remembersFirst(m, i) ==
    {[sampled(m, i, v) EXCEPT !.queue = q] :
        v \in {w \in Values : m.samples < MaxSamples /\ w # m.lastSampledValue},
        q \in {m.queue, Append(ensureSpaceInMonitoredItemQueue(m),
                               [item |-> i, no |-> m.samples + 1])}}

\* The item after a sample: the same if the value is, or memory is short.
sampleCallbackWithValue(m, i) ==
    {n \in {m} : OutOfMemory \/ m.lastSampledValue # None \/ m.samples = MaxSamples}
    \cup {sampled(m, i, v) : v \in {w \in Values : m.samples < MaxSamples /\ w # m.lastSampledValue}}

Idle == calling = 0 /\ stale = {} /\ fault = "none"

\* The repeated job of item i of s runs.
UA_MonitoredItem_SampleCallback(s, i) ==
    /\ Idle /\ phase = "timer" /\ <<s, i>> \in due
    /\ due' = due \ {<<s, i>>}
    /\ IF s \in live /\ i \in items[s]
       THEN /\ \E m \in sampleCallbackWithValue(mon[s][i], i) : mon' = [mon EXCEPT ![s][i] = m]
            /\ UNCHANGED stale
       ELSE stale' = {<<s, i>>} /\ UNCHANGED mon
    /\ UNCHANGED <<live, lastSub, sub, items, timers, requestVars, sessionVars, phase, calling,
                   fault, messages, expired>>

-----------------------------------------------------------------------------
(* Publishing.                                                             *)

\* What the items 1 to i of s have queued, in the order it goes out: the queue
\* of the largest first.  An item that is not on the list has an empty queue.
QueuedUpTo(s) ==
    LET queued[i \in 0..MaxItems] ==
            IF i = 0 THEN <<>> ELSE mon[s][i].queue \o queued[i - 1]
    IN queued

Queued(s) == QueuedUpTo(s)[MaxItems]

Pending(s) == IF sub[s].publishingEnabled THEN Queued(s) ELSE <<>>

countQueuedNotifications(s) ==
    LET n == Len(Pending(s)) IN
    IF n > sub[s].notificationsPerPublish THEN sub[s].notificationsPerPublish ELSE n

moreNotifications(s) == Len(Pending(s)) > sub[s].notificationsPerPublish

\* The subscriptions D lose their items, messages and jobs.
UA_Subscription_deleteMembers(D) ==
    /\ unregister({j \in Jobs : j[1] \in D})
    /\ sub' = [s \in SubIds |-> IF s \in D THEN NoSub ELSE sub[s]]
    /\ items' = [s \in SubIds |-> IF s \in D THEN {} ELSE items[s]]
    /\ mon' = [s \in SubIds |-> IF s \in D THEN [i \in ItemIds |-> NoMon] ELSE mon[s]]

UA_Session_deleteSubscriptions(D) == live' = live \ D /\ UA_Subscription_deleteMembers(D)

\* The newest message is at the head; the last one makes room.
UA_Subscription_addRetransmissionMessage(q, m) ==
    <<m>> \o (IF maxRetransmissionQueueSize > 0 /\ Len(q) >= maxRetransmissionQueueSize
              THEN Front(q) ELSE q)

\* Mutant: the notifications stay in their queues.
prepareNotificationMessage_copies(s, n) == UNCHANGED mon

\* How many notifications go out before those of item i, and how many of the
\* first n are left for it and the items after it.
Ahead(s, i) == Len(Queued(s)) - Len(QueuedUpTo(s)[i])

LeftFor(s, i, n) == IF n > Ahead(s, i) THEN n - Ahead(s, i) ELSE 0

\* The first n notifications leave their queues, each queue from its head.
prepareNotificationMessage(s, n) ==
    mon' = [mon EXCEPT ![s] = [i \in ItemIds |->
               [mon[s][i] EXCEPT !.queue = SubSeq(@, LeftFor(s, i, n) + 1, Len(@))]]]

\* The publish callback of s is called, by its job or by another function.
Called(s) ==
    /\ stale = {} /\ fault = "none" /\ s \in live
    /\ \/ calling = s /\ UNCHANGED due
       \/ calling = 0 /\ phase = "timer" /\ <<s, 0>> \in due /\ due' = due \ {<<s, 0>>}

\* The count of callbacks with nothing to send, which this one is part of if
\* there are n = 0 notifications.  It is not told apart above its limit.
KeepAlive(s, n) ==
    IF n > 0 THEN sub[s].currentKeepAliveCount
    ELSE IF sub[s].currentKeepAliveCount >= keepAliveCountLimits.max + 1
         THEN sub[s].currentKeepAliveCount ELSE sub[s].currentKeepAliveCount + 1

\* Mutant: no keep-alive is ever due.
Due_dataOnly(s, n) == n > 0

Due(s, n) == n > 0 \/ KeepAlive(s, n) >= sub[s].maxKeepAliveCount

\* Nothing to do, no channel to send on, or no memory for the message.
publishNothing(s) ==
    LET n == countQueuedNotifications(s) IN
    /\ Called(s)
    /\ \/ ~Due(s, n)
       \/ channel = "none"
       \/ OutOfMemory /\ n > 0 /\ responseQueue # <<>>
    /\ sub' = [sub EXCEPT ![s].currentKeepAliveCount = KeepAlive(s, n)]
    /\ calling' = 0
    /\ UNCHANGED <<live, lastSub, items, mon, timers, requestVars, sessionVars, phase, faults,
                   messages, expired>>

NoRequest(s) ==
    /\ Called(s)
    /\ Due(s, countQueuedNotifications(s))
    /\ channel # "none" /\ responseQueue = <<>>
    /\ calling' = 0
    /\ UNCHANGED <<lastSub, requestVars, sessionVars, phase, faults, messages>>

\* Something to send and no request to answer: the subscription is late, and
\* from then on its lifetime counts.
publishLate(s) ==
    LET late == sub[s].state = "LATE" IN
    /\ NoRequest(s)
    /\ late => sub[s].currentLifetimeCount < sub[s].lifeTimeCount
    /\ sub' = [sub EXCEPT ![s].state = "LATE",
                          ![s].currentLifetimeCount = IF late THEN @ + 1 ELSE @,
                          ![s].currentKeepAliveCount = KeepAlive(s, countQueuedNotifications(s))]
    /\ UNCHANGED <<live, items, mon, timers, expired>>

\* The lifetime is over.
publishExpire(s) ==
    /\ NoRequest(s)
    /\ sub[s].state = "LATE" /\ sub[s].currentLifetimeCount >= sub[s].lifeTimeCount
    /\ UA_Session_deleteSubscriptions({s})
    /\ expired' = expired \cup {s}

\* A subscription after a response has gone out.
SentRecord(r) ==
    [r EXCEPT !.state = "NORMAL", !.currentKeepAliveCount = 0, !.currentLifetimeCount = 0]

\* Mutant: all stored requests are taken.
dequeue_all(q) == <<>>

dequeue(q) == Tail(q)

\* Answer the oldest request with notifications, or with a keep-alive.  The
\* function calls itself when there are more notifications.
publishSend(s) ==
    LET n == countQueuedNotifications(s)
        m == [seq |-> sub[s].sequenceNumber + 1, notes |-> SubSeq(Pending(s), 1, n)]
        r == SentRecord(sub[s])
    IN
    /\ Called(s)
    /\ Due(s, n)
    /\ channel # "none" /\ responseQueue # <<>>
    /\ responseQueue' = dequeue(responseQueue)
    /\ answers' = answers \cup {<<Head(responseQueue), Handle(Head(responseQueue))>>}
    /\ IF n = 0
       THEN sub' = [sub EXCEPT ![s] = r] /\ UNCHANGED <<mon, sent>>
       ELSE /\ sub' = [sub EXCEPT ![s] = [r EXCEPT
                  !.sequenceNumber = m.seq,
                  !.retransmissionQueue = UA_Subscription_addRetransmissionMessage(@, m)]]
            /\ prepareNotificationMessage(s, n)
            /\ sent' = [sent EXCEPT ![s] = Append(@, m)]
    /\ calling' = IF moreNotifications(s) THEN s ELSE 0
    /\ UNCHANGED <<live, lastSub, items, timers, requests, sessionVars, phase, faults, acked,
                   expired>>

\* The publish job of a subscription that is gone.
publishFreed(s) ==
    /\ Idle /\ phase = "timer" /\ <<s, 0>> \in due /\ s \notin live
    /\ stale' = {<<s, 0>>}
    /\ due' = due \ {<<s, 0>>}
    /\ UNCHANGED <<subVars, requestVars, sessionVars, phase, calling, fault, messages, expired>>

UA_Subscription_publishCallback(s) ==
    publishNothing(s) \/ publishLate(s) \/ publishExpire(s) \/ publishSend(s) \/ publishFreed(s)

-----------------------------------------------------------------------------
(* Services.  A request on the session renews its lifetime.                *)

\* A removed session is served until it is freed, once activated again.
Serve ==
    /\ Idle /\ phase = "jobs"
    /\ session # "freed" /\ channel # "none"
    /\ session' = IF session = "expired" THEN "listed" ELSE session
    /\ UNCHANGED <<due, channel, phase, expired, missed>>

\* UA_BOUNDEDVALUE_SETWBOUNDS
Bounded(r, v) == IF v > r.max THEN r.max ELSE IF v < r.min THEN r.min ELSE v

\* A lifetime lasts three keep-alives at least.
LifeTime(lt, keepAlives) ==
    LET l == Bounded(lifeTimeCountLimits, lt) IN IF l < 3 * keepAlives THEN 3 * keepAlives ELSE l

\* What a client can ask for.
SubscriptionSettings ==
    [keepAlives : KeepAlives, lifetime : Lifetimes, notifications : Notifications]

\* The settings of a subscription, with the flag of its publish job.
setSubscriptionSettings(r, registered, want) ==
    [r EXCEPT
        !.publishJobIsRegistered = registered,
        !.maxKeepAliveCount = Bounded(keepAliveCountLimits, want.keepAlives),
        !.lifeTimeCount = LifeTime(want.lifetime, Bounded(keepAliveCountLimits, want.keepAlives)),
        !.notificationsPerPublish =
            IF want.notifications = 0 \/ want.notifications > maxNotificationsPerPublish
            THEN maxNotificationsPerPublish ELSE want.notifications]

\* The first callback sends a message at once: the count starts at its limit.
Service_CreateSubscription ==
    LET s == lastSub + 1 IN
    /\ Serve
    /\ s \in SubIds
    /\ lastSub' = s /\ live' = live \cup {s}
    /\ \E on \in BOOLEAN, want \in SubscriptionSettings :
         \E t \in reregister(timers[<<s, 0>>], FALSE, TRUE) :
           LET new == setSubscriptionSettings([NoSub EXCEPT !.publishingEnabled = on], t[2], want) IN
           /\ sub' = [sub EXCEPT ![s] = [new EXCEPT !.currentKeepAliveCount = new.maxKeepAliveCount]]
           /\ timers' = [timers EXCEPT ![<<s, 0>>] = t[1]]
    /\ UNCHANGED <<items, mon, requestVars, delayed, calling, faults, messages>>

Service_ModifySubscription(s) ==
    /\ Serve
    /\ s \in live
    /\ \E want \in SubscriptionSettings :
         \E t \in reregister(timers[<<s, 0>>], sub[s].publishJobIsRegistered, TRUE) :
           /\ sub' = [sub EXCEPT ![s] = [setSubscriptionSettings(sub[s], t[2], want) EXCEPT
                                            !.currentLifetimeCount = 0]]
           /\ timers' = [timers EXCEPT ![<<s, 0>>] = t[1]]
    /\ UNCHANGED <<live, lastSub, items, mon, requestVars, delayed, calling, faults, messages>>

Service_SetPublishingMode(s) ==
    /\ Serve
    /\ s \in live
    /\ sub' = [sub EXCEPT ![s].publishingEnabled = ~@, ![s].currentLifetimeCount = 0]
    /\ UNCHANGED <<live, lastSub, items, mon, timers, requestVars, delayed, calling, faults,
                   messages>>

ItemSettings == [queueSize : Sizes, discardOldest : BOOLEAN]

\* The settings of an item, with the flag of its sample job.
setMonitoredItemSettings(m, registered, want) ==
    [m EXCEPT !.sampleJobIsRegistered = registered,
              !.maxQueueSize = Bounded(queueSizeLimits, want.queueSize),
              !.discardOldest = want.discardOldest]

\* Services on the items of s renew the lifetime of s before anything else.
ItemService(s) ==
    /\ Serve
    /\ s \in live
    /\ UNCHANGED <<live, lastSub, requestVars, delayed, calling, faults, messages>>

Renewed(s) == [sub EXCEPT ![s].currentLifetimeCount = 0]

\* Without memory for the node id the item is taken off a list it is not on.
Service_CreateMonitoredItems_single(s) ==
    LET i == sub[s].lastMonitoredItemId + 1 IN
    /\ i \in ItemIds
    /\ \/ /\ sub' = [Renewed(s) EXCEPT ![s].lastMonitoredItemId = i]
          /\ items' = [items EXCEPT ![s] = @ \cup {i}]
          /\ \E on \in BOOLEAN, want \in ItemSettings :
               \E t \in reregister(timers[<<s, i>>], FALSE, on) :
                 LET new == setMonitoredItemSettings([NoMon EXCEPT !.reporting = on], t[2], want) IN
                 /\ timers' = [timers EXCEPT ![<<s, i>>] = t[1]]
                 /\ \E m \in IF on THEN sampleCallbackWithValue(new, i) ELSE {new} :
                      mon' = [mon EXCEPT ![s][i] = m]
          /\ UNCHANGED faults
       \/ /\ OutOfMemory
          /\ fault' = "unlinked"
          /\ sub' = Renewed(s)
          /\ UNCHANGED <<stale, items, mon, timers>>

\* An item that cannot be read or encoded is refused.
Service_CreateMonitoredItems(s) ==
    /\ Serve
    /\ s \in live
    /\ \/ Service_CreateMonitoredItems_single(s)
       \/ sub' = Renewed(s) /\ UNCHANGED <<items, mon, timers, faults>>
    /\ UNCHANGED <<live, lastSub, requestVars, delayed, calling, messages>>

Service_ModifyMonitoredItems(s, i) ==
    /\ ItemService(s)
    /\ i \in items[s]
    /\ sub' = Renewed(s)
    /\ \E want \in ItemSettings :
         \E t \in reregister(timers[<<s, i>>], mon[s][i].sampleJobIsRegistered, mon[s][i].reporting) :
           /\ mon' = [mon EXCEPT ![s][i] = setMonitoredItemSettings(@, t[2], want)]
           /\ timers' = [timers EXCEPT ![<<s, i>>] = t[1]]
    /\ UNCHANGED items

\* A change of mode; the lifetime is not renewed.
Service_SetMonitoringMode(s, i) ==
    LET on == ~mon[s][i].reporting IN
    /\ ItemService(s)
    /\ i \in items[s]
    /\ \E t \in IF on THEN addRepeatedJob(timers[<<s, i>>])
                      ELSE reregister(timers[<<s, i>>], mon[s][i].sampleJobIsRegistered, FALSE) :
         /\ mon' = [mon EXCEPT ![s][i].reporting = on, ![s][i].sampleJobIsRegistered = t[2]]
         /\ timers' = [timers EXCEPT ![<<s, i>>] = t[1]]
    /\ UNCHANGED <<sub, items>>

\* The item goes with its queue and its job.
UA_Subscription_deleteMonitoredItem(s, i) ==
    /\ items' = [items EXCEPT ![s] = @ \ {i}]
    /\ mon' = [mon EXCEPT ![s][i] = NoMon]
    /\ unregister({<<s, i>>})

Service_DeleteMonitoredItems(s, i) ==
    /\ ItemService(s)
    /\ i \in items[s]
    /\ sub' = Renewed(s)
    /\ UA_Subscription_deleteMonitoredItem(s, i)

Service_Republish(s) ==
    /\ ItemService(s)
    /\ sub' = Renewed(s)
    /\ UNCHANGED <<items, mon, timers>>

-----------------------------------------------------------------------------
(* Publish requests.                                                       *)

\* The message with the one sequence number in N leaves the queue, if it is there.
UA_Subscription_removeRetransmissionMessage(q, N) ==
    RemoveFirstMatch(q, LAMBDA m : m.seq \in N)

\* The sequence numbers of s in the acknowledgements A.
Acknowledged(A, s) == {a[2] : a \in {b \in A : b[1] = s}}

\* The first late subscription of the list, or 0.
firstLate ==
    LET L == {s \in live : sub[s].state = "LATE"} IN
    IF L = {} THEN 0 ELSE Max(L)

\* A publish request, with the acknowledgements A.  It is answered at once if
\* there is no subscription, or, with its two numbers swapped, no memory.
\* Otherwise it is stored and the first late subscription publishes.
Service_Publish(A) ==
    LET r == requests + 1 IN
    /\ Serve
    /\ r <= MaxRequests
    /\ requests' = r
    /\ UNCHANGED <<live, lastSub, items, mon, timers, delayed, faults, sent>>
    /\ \/ /\ live = {}
          /\ answers' = answers \cup {<<r, Handle(r)>>}
          /\ UNCHANGED <<sub, responseQueue, calling, acked>>
       \/ /\ live # {} /\ OutOfMemory
          /\ answers' = answers \cup {<<Handle(r), r>>}
          /\ UNCHANGED <<sub, responseQueue, calling, acked>>
       \/ /\ live # {}
          /\ responseQueue' = Append(responseQueue, r)
          /\ calling' = firstLate
          /\ sub' = [s \in SubIds |-> [sub[s] EXCEPT !.retransmissionQueue =
                        UA_Subscription_removeRetransmissionMessage(@, Acknowledged(A, s))]]
          /\ acked' = [s \in SubIds |-> acked[s] \cup Acknowledged(A, s)]
          /\ UNCHANGED answers

\* An acknowledgement of a message the subscription has sent.
Acks == {{}} \cup {{<<s, n>>} : s \in live, n \in UNION {DOMAIN sent[t] : t \in live}}

\* When the last subscription goes, a delayed callback answers the stored
\* requests, if there is memory for it.
Service_DeleteSubscriptions(D) ==
    /\ Serve
    /\ D # {} /\ D \subseteq live
    /\ UA_Session_deleteSubscriptions(D)
    /\ IF D = live
       THEN delayed' \in {<<"answer">> \o delayed} \cup {d \in {delayed} : OutOfMemory}
       ELSE UNCHANGED delayed
    /\ UNCHANGED <<lastSub, requestVars, calling, faults, messages>>

-----------------------------------------------------------------------------
(* The session and the main loop.                                          *)

Environment == UNCHANGED <<subVars, due, requestVars, phase, calling, faults, messages, expired>>

\* The lifetime of the session runs out.
SessionTimeout ==
    /\ MaxDelayed > 0 /\ Idle /\ phase = "jobs"
    /\ session = "listed" /\ session' = "expired"
    /\ Environment
    /\ UNCHANGED <<channel, delayed, missed>>

\* The session is closed, or found timed out: it is freed later.
removeSession ==
    /\ Len(delayed) < MaxDelayed /\ Idle
    /\ \/ phase = "jobs" /\ session \in {"listed", "expired"} /\ channel # "none"
       \/ phase = "timer" /\ session = "expired"
    /\ session' = "removed"
    /\ delayed' = <<"session">> \o delayed
    /\ Environment
    /\ UNCHANGED <<channel, missed>>

\* The channel is closed by the client, or has lost its connection.
removeSecureChannel ==
    /\ Len(delayed) < MaxDelayed /\ Idle /\ phase \in {"timer", "jobs"}
    /\ channel = "open" /\ channel' = "closing"
    /\ delayed' = <<"channel">> \o delayed
    /\ Environment
    /\ UNCHANGED <<session, missed>>

\* The session moves to another channel.
Service_ActivateSession ==
    /\ Idle /\ phase = "jobs"
    /\ session = "listed"
    /\ channel' \in {"open"} \cup {c \in {"none"} : OutOfMemory}
    /\ Environment
    /\ UNCHANGED <<session, delayed, missed>>

DelayedStep(name) ==
    /\ Idle /\ phase = "delayed"
    /\ delayed # <<>> /\ Head(delayed) = name
    /\ delayed' = Tail(delayed)
    /\ UNCHANGED <<lastSub, due, requests, phase, calling, stale, messages, expired>>

removeSecureChannelCallback ==
    /\ DelayedStep("channel")
    /\ channel' = IF channel = "closing" THEN "none" ELSE channel
    /\ UNCHANGED <<live, sub, items, mon, timers, responseQueue, answers, session, fault, missed>>

\* Everything the session has is freed.
UA_Session_deleteMembersCleanup ==
    /\ DelayedStep("session")
    /\ live' = {} /\ UA_Subscription_deleteMembers(live)
    /\ responseQueue' = <<>>
    /\ channel' = "none" /\ session' = "freed"
    /\ UNCHANGED <<answers, fault, missed>>

\* Answer every stored request, unless there is a subscription again or the
\* session is not found.  The channel of the session is not looked at.
UA_Subscription_answerPublishRequestsNoSubscription ==
    /\ DelayedStep("answer")
    /\ UNCHANGED <<live, sub, items, mon, timers, channel, session>>
    /\ IF session # "listed" \/ live # {} \/ responseQueue = <<>>
       THEN /\ missed' = (missed \/ (session = "expired" /\ live = {}))
            /\ UNCHANGED <<responseQueue, answers, fault>>
       ELSE /\ IF channel = "none"
               THEN fault' = "channel" /\ UNCHANGED answers
               ELSE /\ answers' = answers \cup {<<r, Handle(r)>> : r \in ToSet(responseQueue)}
                    /\ UNCHANGED fault
            /\ responseQueue' = <<>>
            /\ UNCHANGED missed

NoStep == UNCHANGED <<subVars, requestVars, sessionVars, calling, faults, messages, expired>>

\* The due jobs have run.
RoundDone ==
    /\ Idle /\ phase = "timer" /\ due = {}
    /\ phase' = "jobs"
    /\ NoStep /\ UNCHANGED due

\* The messages have been processed.
JobsDone ==
    /\ Idle /\ phase = "jobs"
    /\ phase' = "delayed"
    /\ NoStep /\ UNCHANGED due

\* A new iteration takes the jobs D off the list, those whose time has come.
UA_RepeatedJobsList_process(D) ==
    /\ Idle /\ phase = "delayed" /\ delayed = <<>>
    /\ D \subseteq {j \in Jobs : timers[j] > 0}
    /\ phase' = "timer" /\ due' = D
    /\ NoStep

-----------------------------------------------------------------------------

ItemStep ==
    \E s \in SubIds :
        \/ Service_CreateMonitoredItems(s) \/ Service_Republish(s)
        \/ \E i \in ItemIds :
              \/ Service_ModifyMonitoredItems(s, i) \/ Service_SetMonitoringMode(s, i)
              \/ Service_DeleteMonitoredItems(s, i) \/ UA_MonitoredItem_SampleCallback(s, i)

SubscriptionStep ==
    \/ Service_CreateSubscription
    \/ \E s \in SubIds : Service_ModifySubscription(s) \/ Service_SetPublishingMode(s)
    \/ \E D \in SUBSET live : Service_DeleteSubscriptions(D)
    \/ \E A \in Acks : Service_Publish(A)

SessionStep ==
    \/ SessionTimeout \/ removeSession \/ removeSecureChannel \/ Service_ActivateSession
    \/ removeSecureChannelCallback \/ UA_Session_deleteMembersCleanup
    \/ UA_Subscription_answerPublishRequestsNoSubscription

Loop == RoundDone \/ JobsDone \/ \E D \in SUBSET Jobs : UA_RepeatedJobsList_process(D)

Next ==
    \/ ItemStep \/ SubscriptionStep \/ SessionStep \/ Loop
    \/ \E s \in SubIds : UA_Subscription_publishCallback(s)

Spec == Init /\ [][Next]_vars

\* The main loop never stops: a batch of messages ends, due jobs and delayed
\* callbacks run, and the interval of every publish job passes again and again.
Fairness ==
    /\ WF_vars(RoundDone) /\ WF_vars(JobsDone)
    /\ WF_vars(\E s \in SubIds : \/ UA_Subscription_publishCallback(s)
                                 \/ \E i \in ItemIds : UA_MonitoredItem_SampleCallback(s, i))
    /\ WF_vars(removeSecureChannelCallback) /\ WF_vars(UA_Session_deleteMembersCleanup)
    /\ WF_vars(UA_Subscription_answerPublishRequestsNoSubscription)
    /\ \A s \in SubIds :
          SF_vars(\E D \in SUBSET Jobs : <<s, 0>> \in D /\ UA_RepeatedJobsList_process(D))

FairSpec == Spec /\ Fairness

-----------------------------------------------------------------------------
(* Properties.                                                             *)

\* The types, the limits of the configuration, and no field left behind by a
\* deleted subscription or item.
TypeOK ==
    /\ live \subseteq 1..lastSub /\ lastSub \in 0..MaxSubs
    /\ \A s \in SubIds \ live : sub[s] = NoSub /\ items[s] = {}
    /\ \A s \in SubIds, i \in ItemIds : i \notin items[s] => mon[s][i] = NoMon
    /\ \A s \in live :
          /\ sub[s].state \in {"NORMAL", "LATE"}
          /\ sub[s].maxKeepAliveCount \in keepAliveCountLimits.min..keepAliveCountLimits.max
          /\ sub[s].lifeTimeCount >= 3 * sub[s].maxKeepAliveCount
          /\ sub[s].notificationsPerPublish \in 1..maxNotificationsPerPublish
          /\ sub[s].sequenceNumber = Len(sent[s])
          /\ items[s] \subseteq 1..sub[s].lastMonitoredItemId
          /\ \A i \in items[s] :
                /\ mon[s][i].maxQueueSize \in queueSizeLimits.min..queueSizeLimits.max
                /\ Len(mon[s][i].queue) <= queueSizeLimits.max
    /\ timers \in [Jobs -> Nat] /\ due \subseteq Jobs
    /\ requests \in 0..MaxRequests
    /\ ToSet(responseQueue) \subseteq 1..requests
    /\ channel \in {"open", "closing", "none"}
    /\ session \in {"listed", "expired", "removed", "freed"}
    /\ phase \in {"timer", "jobs", "delayed"}
    /\ calling \in live \cup {0}
    /\ fault \in {"none", "channel", "unlinked"}

\* The samples of an item go out in the order they were taken, each at most
\* once, across full queues, changed queue sizes, split messages and keep-alives;
\* what waits was taken after all that has gone out.
DeliveredInOrder ==
    \A s \in live :
        /\ \A k, l \in DOMAIN sent[s] :
              \A p \in DOMAIN sent[s][k].notes, r \in DOMAIN sent[s][l].notes :
                 LET x == sent[s][k].notes[p]
                     y == sent[s][l].notes[r]
                 IN x.item = y.item /\ (k < l \/ (k = l /\ p < r)) => x.no < y.no
        /\ \A i \in items[s] :
              /\ \A p, r \in DOMAIN mon[s][i].queue :
                    p < r => mon[s][i].queue[p].no < mon[s][i].queue[r].no
              /\ \A k \in DOMAIN sent[s] :
                    \A p \in DOMAIN sent[s][k].notes, r \in DOMAIN mon[s][i].queue :
                       sent[s][k].notes[p].item = i =>
                          sent[s][k].notes[p].no < mon[s][i].queue[r].no

\* The newest sample of an item is never dropped: whichever end a full queue
\* discards from, it is the last one queued or has gone out.  So the client's
\* last value and lastSampledValue agree once the queue is empty.
NewestKept ==
    \A s \in live : \A i \in items[s] :
        LET newest == [item |-> i, no |-> mon[s][i].samples] IN
        newest.no > 0 =>
            IF mon[s][i].queue # <<>> THEN Last(mon[s][i].queue) = newest
            ELSE \E k \in DOMAIN sent[s] : newest \in ToSet(sent[s][k].notes)

\* The retransmission queue holds the messages as they were sent, the newest
\* first and no more than its size; a message that is not in it was
\* acknowledged or is older than all that are.  So Republish can serve the
\* newest messages the client has not acknowledged.
RetransmitsNewest ==
    \A s \in live :
        LET q == sub[s].retransmissionQueue
            kept == {q[k].seq : k \in DOMAIN q}
        IN
        /\ maxRetransmissionQueueSize > 0 => Len(q) <= maxRetransmissionQueueSize
        /\ \A k \in DOMAIN q : q[k] = sent[s][q[k].seq]
        /\ \A k, l \in DOMAIN q : k < l => q[k].seq > q[l].seq
        /\ \A n \in DOMAIN sent[s] \ (kept \cup acked[s]) :
              maxRetransmissionQueueSize > 0 /\ \A k \in kept : n < k

\* A client gets every sample that was not discarded, once and in order, with
\* every publish response it receives or asks for again with Republish.
DeliveryExact == TypeOK /\ DeliveredInOrder /\ RetransmitsNewest

\* Only a late subscription uses up its lifetime, and never more than it has:
\* a response or a service on the subscription starts the count again.
LifetimeWhileLate ==
    \A s \in live :
        /\ sub[s].currentLifetimeCount <= sub[s].lifeTimeCount
        /\ sub[s].currentLifetimeCount > 0 => sub[s].state = "LATE"

\* Every subscription has exactly one publish job and every reporting item one
\* sample job; nothing else has any, so no job outlives what it points at.
TimersMatch ==
    ~OutOfMemory =>
        \A j \in Jobs :
            timers[j] = IF /\ j[1] \in live
                           /\ j[2] # 0 => j[2] \in items[j[1]] /\ mon[j[1]][j[2]].reporting
                        THEN 1 ELSE 0

\* A job that is already taken off the list runs even if a job before it has
\* freed its data: that happens to the sample jobs of a subscription that
\* expired in the same round, and, with memory to spare, to no other job.
StaleOnlyAfterExpiry ==
    ~OutOfMemory => \A j \in stale : j[1] \in expired /\ j[2] # 0

\* The jobs that run, and when a subscription ends by itself, follow the lists
\* of subscriptions and items through every change of their settings.
JobsMatch == TimersMatch /\ StaleOnlyAfterExpiry /\ LifetimeWhileLate

\* Every publish request is stored or answered under its own id and handle, never
\* both, until the session is freed.  Not without memory: a request that finds
\* none is answered with the two numbers exchanged.
RequestsAccounted ==
    ~OutOfMemory /\ session # "freed" /\ fault = "none" =>
        \A r \in 1..requests :
            (r \in ToSet(responseQueue)) # (<<r, Handle(r)>> \in answers)

\* Requests are stored only for a subscription, or for the callback that
\* answers them when the last one is deleted.
NoDanglingRequests ==
    session \in {"listed", "expired"} /\ live = {} /\ responseQueue # <<>> =>
        OutOfMemory \/ missed \/ "answer" \in ToSet(delayed)

\* No publish request is lost, answered twice or left without anything that
\* could answer it.
RequestsExact == RequestsAccounted /\ NoDanglingRequests

\* The stored requests are answered when the last subscription is deleted; the
\* callback does not send on a session that has lost its channel.
DanglingAnswersHaveChannel == fault # "channel"

\* A stored request is answered in the end, with data, a keep-alive or
\* BADNOSUBSCRIPTION, if the session keeps its channel and never times out.
RequestsAnswered ==
    \A r \in 1..MaxRequests :
        r \in ToSet(responseQueue)
            ~> \/ r \notin ToSet(responseQueue)
               \/ channel # "open" \/ session # "listed" \/ missed

=============================================================================
