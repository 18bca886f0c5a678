------------------------ MODULE Subscriptions_proofs ------------------------
(***************************************************************************)
(* Proofs about Subscriptions, for any number of subscriptions, items,     *)
(* requests and jobs and any limits of the configuration: no publish       *)
(* request is lost or answered twice (RequestsExact), the repeated jobs    *)
(* follow the lists of subscriptions and items (JobsMatch), and a client   *)
(* gets the samples of an item once and in order, the newest always        *)
(* (DeliveryExact, NewestKept).                                            *)
(***************************************************************************)
EXTENDS Subscriptions, Numbers_proofs, SequenceTheorems, TLAPS

-----------------------------------------------------------------------------
(* Publish requests.                                                       *)

\* Requests are stored in the order they came.
Stored ==
    /\ requests \in Nat
    /\ responseQueue \in Seq(Nat)
    /\ \A k \in 1..Len(responseQueue) : responseQueue[k] \in 1..requests
    /\ \A k, l \in 1..Len(responseQueue) : k < l => responseQueue[k] < responseQueue[l]

\* With memory to spare an answer carries the numbers of a request that came.
Answered == ~OutOfMemory => answers \subseteq {<<r, Handle(r)>> : r \in 1..requests}

Waiting == delayed \in Seq({"answer", "channel", "session"})

RequestsInv == Stored /\ Answered /\ Waiting /\ RequestsExact

\* The oldest request leaves the queue: it was there once.
LEMMA Dequeued ==
    ASSUME NEW n \in Nat, NEW q \in Seq(Nat), q # <<>>,
           \A k \in 1..Len(q) : q[k] \in 1..n,
           \A k, l \in 1..Len(q) : k < l => q[k] < q[l]
    PROVE  /\ Tail(q) \in Seq(Nat)
           /\ \A k \in 1..Len(Tail(q)) : Tail(q)[k] \in 1..n
           /\ \A k, l \in 1..Len(Tail(q)) : k < l => Tail(q)[k] < Tail(q)[l]
           /\ Head(q) \in 1..n
           /\ ToSet(Tail(q)) = ToSet(q) \ {Head(q)}
<1>1. /\ Tail(q) \in Seq(Nat)
      /\ Len(q) \in Nat \ {0}
      /\ Len(Tail(q)) = Len(q) - 1
      /\ \A k \in 1..Len(Tail(q)) : Tail(q)[k] = q[k + 1]
      /\ Head(q) = q[1]
  OBVIOUS
<1>2. DOMAIN q = 1..Len(q) /\ DOMAIN Tail(q) = 1..Len(Tail(q))
  BY <1>1
<1>3. ASSUME NEW r PROVE r \in ToSet(Tail(q)) <=> r \in ToSet(q) \ {Head(q)}
  <2>1. ASSUME NEW k \in 1..Len(Tail(q)), r = Tail(q)[k] PROVE r \in ToSet(q) \ {Head(q)}
    <3>1. k + 1 \in 1..Len(q) /\ 1 \in 1..Len(q) /\ 1 < k + 1
      BY <1>1
    <3>2. r = q[k + 1] /\ q[1] < q[k + 1] /\ q[1] \in Nat /\ q[k + 1] \in Nat
      BY <1>1, <2>1, <3>1
    <3> QED
      BY <1>1, <1>2, <3>1, <3>2 DEF ToSet
  <2>2. ASSUME NEW k \in 1..Len(q), r = q[k], r # Head(q) PROVE r \in ToSet(Tail(q))
    <3>1. k # 1 /\ k - 1 \in 1..Len(Tail(q)) /\ (k - 1) + 1 = k
      BY <1>1, <2>2
    <3>2. r = Tail(q)[k - 1]
      BY <1>1, <2>2, <3>1
    <3> QED
      BY <1>2, <3>1, <3>2 DEF ToSet
  <2> QED
    BY <1>2, <2>1, <2>2 DEF ToSet
<1>4. \A k \in 1..Len(Tail(q)) : k + 1 \in 1..Len(q)
  BY <1>1
<1>5. \A k, l \in 1..Len(Tail(q)) : k < l => k + 1 < l + 1
  BY <1>1
<1> QED
  BY <1>1, <1>3, <1>4, <1>5

\* A new request is stored behind the others.
LEMMA Enqueued ==
    ASSUME NEW n \in Nat, NEW q \in Seq(Nat),
           \A k \in 1..Len(q) : q[k] \in 1..n,
           \A k, l \in 1..Len(q) : k < l => q[k] < q[l]
    PROVE  LET p == Append(q, n + 1) IN
           /\ p \in Seq(Nat)
           /\ \A k \in 1..Len(p) : p[k] \in 1..(n + 1)
           /\ \A k, l \in 1..Len(p) : k < l => p[k] < p[l]
           /\ ToSet(p) = ToSet(q) \cup {n + 1}
<1> DEFINE p == Append(q, n + 1)
<1>1. /\ p \in Seq(Nat)
      /\ Len(q) \in Nat
      /\ Len(p) = Len(q) + 1
      /\ \A k \in 1..Len(q) : p[k] = q[k]
      /\ p[Len(q) + 1] = n + 1
  OBVIOUS
<1>2. DOMAIN q = 1..Len(q) /\ DOMAIN p = 1..Len(p)
  BY <1>1
<1>3. \A k \in 1..Len(p) : k \in 1..Len(q) \/ k = Len(q) + 1
  BY <1>1
<1>4. \A k \in 1..Len(q) : k \in 1..Len(p)
  BY <1>1
<1>5. Len(q) + 1 \in 1..Len(p)
  BY <1>1
<1> HIDE DEF p
<1>6. ToSet(p) = ToSet(q) \cup {n + 1}
  BY <1>1, <1>2, <1>3, <1>4, <1>5 DEF ToSet
<1>7. \A k \in 1..Len(p) : p[k] \in 1..(n + 1)
  <2>1. \A k \in 1..Len(q) : p[k] \in 1..n
    BY <1>1
  <2>2. 1..n \subseteq 1..(n + 1) /\ n + 1 \in 1..(n + 1)
    OBVIOUS
  <2> QED
    BY <1>1, <1>3, <2>1, <2>2
<1>8. \A k, l \in 1..Len(p) : k < l => p[k] < p[l]
  <2> SUFFICES ASSUME NEW k \in 1..Len(p), NEW l \in 1..Len(p), k < l PROVE p[k] < p[l]
    OBVIOUS
  <2>1. k \in 1..Len(q)
    BY <1>1, <1>3
  <2>2. CASE l \in 1..Len(q)
    BY <1>1, <2>1, <2>2
  <2>3. CASE l = Len(q) + 1
    BY <1>1, <2>1, <2>3
  <2> QED
    BY <1>3, <2>2, <2>3
<1> QED
  BY <1>1, <1>6, <1>7, <1>8 DEF p

\* A delayed callback is put in front of the others and taken from there.
LEMMA Pushed ==
    ASSUME NEW S, NEW q \in Seq(S), NEW x \in S
    PROVE  <<x>> \o q \in Seq(S) /\ ToSet(<<x>> \o q) = {x} \cup ToSet(q)
<1> DEFINE p == <<x>> \o q
<1>1. /\ p \in Seq(S)
      /\ Len(q) \in Nat
      /\ Len(p) = Len(q) + 1
      /\ p[1] = x
      /\ \A k \in 1..Len(q) : p[k + 1] = q[k]
  OBVIOUS
<1>2. DOMAIN q = 1..Len(q) /\ DOMAIN p = 1..Len(p)
  BY <1>1
<1>3. \A k \in 1..Len(q) : k + 1 \in 1..Len(p)
  BY <1>1
<1>4. \A k \in 1..Len(p) : k = 1 \/ (k - 1 \in 1..Len(q) /\ (k - 1) + 1 = k)
  BY <1>1
<1>5. 1 \in 1..Len(p)
  BY <1>1
<1> HIDE DEF p
<1>6. ASSUME NEW r \in ToSet(p) PROVE r \in {x} \cup ToSet(q)
  <2>1. PICK k \in 1..Len(p) : r = p[k]
    BY <1>2, <1>6 DEF ToSet
  <2>2. CASE k = 1
    BY <1>1, <2>1, <2>2
  <2>3. CASE k - 1 \in 1..Len(q) /\ (k - 1) + 1 = k
    <3>1. r = q[k - 1]
      BY <1>1, <2>1, <2>3
    <3> QED
      BY <1>2, <2>3, <3>1 DEF ToSet
  <2> QED
    BY <1>4, <2>2, <2>3
<1>7. x \in ToSet(p) /\ ToSet(q) \subseteq ToSet(p)
  BY <1>1, <1>2, <1>3, <1>5 DEF ToSet
<1> QED
  BY <1>1, <1>6, <1>7 DEF p

\* The latest delayed callback is taken off.
LEMMA Popped ==
    ASSUME NEW S, NEW q \in Seq(S), q # <<>>
    PROVE  Tail(q) \in Seq(S) /\ ToSet(q) = {Head(q)} \cup ToSet(Tail(q))
<1>1. /\ Tail(q) \in Seq(S)
      /\ Head(q) \in S
      /\ q = <<Head(q)>> \o Tail(q)
  OBVIOUS
<1> QED
  BY <1>1, Pushed

\* At first there is no request.
LEMMA InitRequests == Init => RequestsInv
<1> SUFFICES ASSUME Init PROVE RequestsInv
  OBVIOUS
<1>1. Stored /\ Answered /\ Waiting
  BY DEF Init, Stored, Answered, Waiting
<1>2. RequestsExact
  BY DEF Init, RequestsExact, RequestsAccounted, NoDanglingRequests
<1> QED
  BY <1>1, <1>2 DEF RequestsInv

\* Most steps leave the requests alone, and the last subscription does not go
\* without a callback that answers those stored.
LEMMA QuietRequests ==
    ASSUME RequestsInv, UNCHANGED <<requestVars, missed>>, Waiting',
           session' = "freed" <=> session = "freed",
           session' \in {"listed", "expired"} => session \in {"listed", "expired"},
           fault' = "none" => fault = "none",
           "answer" \in ToSet(delayed) => "answer" \in ToSet(delayed'),
           live' = {} => \/ live = {} \/ responseQueue = <<>>
                         \/ OutOfMemory \/ "answer" \in ToSet(delayed')
    PROVE  RequestsInv'
<1>1. Stored' /\ Answered'
  BY DEF RequestsInv, Stored, Answered, Handle, requestVars
<1>2. RequestsAccounted'
  BY DEF RequestsInv, RequestsExact, RequestsAccounted, requestVars, Handle
<1>3. NoDanglingRequests'
  BY DEF RequestsInv, RequestsExact, NoDanglingRequests, requestVars
<1> QED
  BY <1>1, <1>2, <1>3 DEF RequestsInv, RequestsExact

\* An iteration of the loop, and what a service does to the requests.
LEMMA ServeRequests ==
    ASSUME RequestsInv, Serve, UNCHANGED <<requestVars, delayed>>,
           live' # {} \/ live = {}, fault' = "none" => fault = "none"
    PROVE  RequestsInv'
<1>1. Waiting' /\ UNCHANGED missed
  BY DEF RequestsInv, Waiting, Serve
<1>2. /\ session' = "freed" <=> session = "freed"
      /\ session' \in {"listed", "expired"} => session \in {"listed", "expired"}
  BY DEF Serve
<1> QED
  BY <1>1, <1>2, QuietRequests

\* The services on items and the sample callback leave the requests alone.
LEMMA ItemRequests == RequestsInv /\ ItemStep => RequestsInv'
<1> SUFFICES ASSUME RequestsInv, NEW s \in SubIds,
                    \/ Service_CreateMonitoredItems(s) \/ Service_Republish(s)
                    \/ \E i \in ItemIds :
                          \/ Service_ModifyMonitoredItems(s, i) \/ Service_SetMonitoringMode(s, i)
                          \/ Service_DeleteMonitoredItems(s, i)
                          \/ UA_MonitoredItem_SampleCallback(s, i)
             PROVE  RequestsInv'
  BY DEF ItemStep
<1>1. CASE Service_CreateMonitoredItems(s)
  <2>1. fault' = "none" => fault = "none"
    BY <1>1 DEF Service_CreateMonitoredItems, Serve, Idle
  <2> QED
    BY <1>1, <2>1, ServeRequests DEF Service_CreateMonitoredItems
<1>2. CASE ItemService(s)
  BY <1>2, ServeRequests DEF ItemService, faults
<1>3. CASE \E i \in ItemIds : UA_MonitoredItem_SampleCallback(s, i)
  <2>1. /\ UNCHANGED <<live, requestVars, sessionVars, fault>>
    BY <1>3 DEF UA_MonitoredItem_SampleCallback
  <2> QED
    BY <2>1, QuietRequests DEF sessionVars, RequestsInv, Waiting
<1> QED
  BY <1>1, <1>2, <1>3 DEF Service_Republish, Service_ModifyMonitoredItems, Service_SetMonitoringMode,
     Service_DeleteMonitoredItems

\* So do the steps of the main loop.
LEMMA LoopRequests == RequestsInv /\ Loop => RequestsInv'
<1> SUFFICES ASSUME RequestsInv, Loop PROVE RequestsInv'
  OBVIOUS
<1>1. UNCHANGED <<live, requestVars, sessionVars, fault>>
  BY DEF Loop, RoundDone, JobsDone, UA_RepeatedJobsList_process, NoStep, subVars, faults
<1> QED
  BY <1>1, QuietRequests DEF sessionVars, RequestsInv, Waiting

\* A publish callback takes at most the oldest request, and answers it.
LEMMA PublishRequests ==
    ASSUME RequestsInv, NEW s \in SubIds, UA_Subscription_publishCallback(s)
    PROVE  RequestsInv'
<1>1. CASE publishNothing(s) \/ publishLate(s) \/ publishFreed(s)
  <2>1. UNCHANGED <<live, requestVars, sessionVars, fault>>
    BY <1>1 DEF publishNothing, publishLate, publishFreed, NoRequest, subVars, faults
  <2> QED
    BY <2>1, QuietRequests DEF sessionVars, RequestsInv, Waiting
<1>2. CASE publishExpire(s)
  <2>1. UNCHANGED <<requestVars, sessionVars, fault>> /\ responseQueue = <<>>
    BY <1>2 DEF publishExpire, NoRequest, faults
  <2> QED
    BY <2>1, QuietRequests DEF sessionVars, RequestsInv, Waiting
<1>3. CASE publishSend(s)
  <2> DEFINE h == Head(responseQueue)
  <2>1. /\ responseQueue # <<>> /\ responseQueue' = Tail(responseQueue)
        /\ answers' = answers \cup {<<h, Handle(h)>>}
        /\ UNCHANGED <<live, requests, sessionVars, fault>>
    BY <1>3 DEF publishSend, dequeue, faults
  <2>2. /\ Stored' /\ h \in 1..requests
        /\ ToSet(responseQueue') = ToSet(responseQueue) \ {h}
    BY <2>1, Dequeued DEF RequestsInv, Stored
  <2> HIDE DEF h
  <2>3. Answered' /\ Waiting'
    BY <2>1, <2>2 DEF RequestsInv, Answered, Waiting, Handle, sessionVars
  <2>4. RequestsAccounted'
    BY <2>1, <2>2 DEF RequestsInv, RequestsExact, RequestsAccounted, Handle, sessionVars
  <2>5. NoDanglingRequests'
    BY <2>1 DEF RequestsInv, RequestsExact, NoDanglingRequests, sessionVars
  <2> QED
    BY <2>2, <2>3, <2>4, <2>5 DEF RequestsInv, RequestsExact
<1> QED
  BY <1>1, <1>2, <1>3 DEF UA_Subscription_publishCallback

\* A publish request is answered or stored; the answer with the two numbers
\* exchanged is that of a program without memory.
LEMMA RequestRequests ==
    ASSUME RequestsInv, NEW A, Service_Publish(A)
    PROVE  RequestsInv'
<1> DEFINE r == requests + 1
<1>1. /\ requests \in Nat /\ requests' = r /\ session # "freed"
      /\ session' \in {"listed", "expired"} => session \in {"listed", "expired"}
      /\ UNCHANGED <<live, delayed, missed, fault>>
  BY DEF Service_Publish, Serve, RequestsInv, Stored, faults
<1>2. /\ 1..r = 1..requests \cup {r} /\ r \notin 1..requests
  BY <1>1
<1>3. Waiting'
  BY <1>1 DEF RequestsInv, Waiting
<1>4. r \notin ToSet(responseQueue)
  <2>1. DOMAIN responseQueue = 1..Len(responseQueue)
    BY DEF RequestsInv, Stored
  <2> QED
    BY <1>2, <2>1 DEF RequestsInv, Stored, ToSet
<1>5. CASE UNCHANGED responseQueue /\ (live = {} \/ OutOfMemory)
           /\ (OutOfMemory \/ answers' = answers \cup {<<r, Handle(r)>>})
  <2>1. Stored'
    BY <1>1, <1>2, <1>5 DEF RequestsInv, Stored
  <2>2. Answered'
    BY <1>1, <1>2, <1>5 DEF RequestsInv, Answered, Handle
  <2>3. RequestsAccounted'
    BY <1>1, <1>2, <1>4, <1>5 DEF RequestsInv, RequestsExact, RequestsAccounted, Handle
  <2>4. NoDanglingRequests'
    BY <1>1, <1>5 DEF RequestsInv, RequestsExact, NoDanglingRequests
  <2> QED
    BY <1>3, <2>1, <2>2, <2>3, <2>4 DEF RequestsInv, RequestsExact
<1>6. CASE live # {} /\ responseQueue' = Append(responseQueue, r) /\ UNCHANGED answers
  <2>1. Stored' /\ ToSet(responseQueue') = ToSet(responseQueue) \cup {r}
    <3>1. r \in Nat
      BY <1>1
    <3> QED
      BY <1>1, <1>6, <3>1, Enqueued DEF RequestsInv, Stored
  <2>2. Answered'
    BY <1>1, <1>2, <1>6 DEF RequestsInv, Answered, Handle
  <2>3. RequestsAccounted'
    BY <1>1, <1>2, <1>6, <2>1 DEF RequestsInv, Answered, RequestsExact, RequestsAccounted, Handle
  <2>4. NoDanglingRequests'
    BY <1>1, <1>6 DEF NoDanglingRequests
  <2> QED
    BY <1>3, <2>1, <2>2, <2>3, <2>4 DEF RequestsInv, RequestsExact
<1> QED
  BY <1>5, <1>6 DEF Service_Publish

\* The services on subscriptions: the callback that answers is put on the list
\* when the last subscription goes.
LEMMA SubscriptionRequests == RequestsInv /\ SubscriptionStep => RequestsInv'
<1> SUFFICES ASSUME RequestsInv, SubscriptionStep PROVE RequestsInv'
  OBVIOUS
<1>1. CASE Service_CreateSubscription
  BY <1>1, ServeRequests DEF Service_CreateSubscription, faults
<1>2. CASE \E s \in SubIds : Service_ModifySubscription(s) \/ Service_SetPublishingMode(s)
  BY <1>2, ServeRequests DEF Service_ModifySubscription, Service_SetPublishingMode, faults
<1>3. ASSUME NEW D \in SUBSET live, Service_DeleteSubscriptions(D) PROVE RequestsInv'
  <2>1. /\ UNCHANGED <<requestVars, missed, fault>> /\ live' = live \ D
        /\ session' = "freed" <=> session = "freed"
        /\ session' \in {"listed", "expired"} => session \in {"listed", "expired"}
    BY <1>3 DEF Service_DeleteSubscriptions, Serve, UA_Session_deleteSubscriptions, faults
  <2>2. CASE UNCHANGED delayed /\ (D # live \/ OutOfMemory)
    <3>1. Waiting'
      BY <2>2 DEF RequestsInv, Waiting
    <3> QED
      BY <2>1, <2>2, <3>1, QuietRequests
  <2>3. CASE delayed' = <<"answer">> \o delayed
    <3>1. Waiting' /\ ToSet(delayed') = {"answer"} \cup ToSet(delayed)
      BY <2>3, Pushed DEF RequestsInv, Waiting
    <3> QED
      BY <2>1, <3>1, QuietRequests
  <2> QED
    BY <1>3, <2>2, <2>3 DEF Service_DeleteSubscriptions
<1>4. CASE \E A \in Acks : Service_Publish(A)
  BY <1>4, RequestRequests
<1> QED
  BY <1>1, <1>2, <1>3, <1>4 DEF SubscriptionStep

\* The delayed callbacks: only the one that answers, and the end of the
\* session, empty the queue.
LEMMA DelayedRequests ==
    ASSUME RequestsInv, NEW name, DelayedStep(name)
    PROVE  /\ Waiting' /\ Head(delayed) = name
           /\ name # "answer" /\ "answer" \in ToSet(delayed) => "answer" \in ToSet(delayed')
           /\ UNCHANGED requests
  BY Popped DEF DelayedStep, RequestsInv, Waiting

\* The end of the session and of its channel, and the delayed callbacks.
LEMMA SessionRequests == RequestsInv /\ SessionStep => RequestsInv'
<1> SUFFICES ASSUME RequestsInv, SessionStep PROVE RequestsInv'
  OBVIOUS
<1>1. CASE SessionTimeout \/ Service_ActivateSession
  <2>1. /\ UNCHANGED <<live, requestVars, delayed, missed, fault>>
        /\ session' = "freed" <=> session = "freed"
        /\ session' \in {"listed", "expired"} => session \in {"listed", "expired"}
    BY <1>1 DEF SessionTimeout, Service_ActivateSession, Environment, subVars, faults
  <2> QED
    BY <2>1, QuietRequests DEF RequestsInv, Waiting
<1>2. CASE removeSession \/ removeSecureChannel
  <2>1. /\ UNCHANGED <<live, requestVars, missed, fault>>
        /\ session' = "freed" <=> session = "freed"
        /\ session' \in {"listed", "expired"} => session \in {"listed", "expired"}
    BY <1>2 DEF removeSession, removeSecureChannel, Environment, subVars, faults
  <2>2. \E x \in {"session", "channel"} : delayed' = <<x>> \o delayed
    BY <1>2 DEF removeSession, removeSecureChannel
  <2>3. Waiting' /\ ToSet(delayed) \subseteq ToSet(delayed')
    BY <2>2, Pushed DEF RequestsInv, Waiting
  <2> QED
    BY <2>1, <2>3, QuietRequests
<1>3. CASE removeSecureChannelCallback
  <2>1. /\ UNCHANGED <<live, requestVars, session, missed, fault>>
        /\ Waiting' /\ ("answer" \in ToSet(delayed) => "answer" \in ToSet(delayed'))
    BY <1>3, DelayedRequests DEF removeSecureChannelCallback, requestVars
  <2> QED
    BY <2>1, QuietRequests
<1>4. CASE UA_Session_deleteMembersCleanup
  <2>1. /\ responseQueue' = <<>> /\ session' = "freed"
        /\ UNCHANGED <<answers, requests>> /\ Waiting'
    BY <1>4, DelayedRequests DEF UA_Session_deleteMembersCleanup
  <2>2. Stored' /\ Answered'
    BY <2>1 DEF RequestsInv, Stored, Answered, Handle
  <2>3. RequestsExact'
    BY <2>1 DEF RequestsExact, RequestsAccounted, NoDanglingRequests
  <2> QED
    BY <2>1, <2>2, <2>3 DEF RequestsInv
<1>5. CASE UA_Subscription_answerPublishRequestsNoSubscription
  <2>1. Waiting' /\ UNCHANGED <<live, requests, session>>
    BY <1>5, DelayedRequests DEF UA_Subscription_answerPublishRequestsNoSubscription
  <2>2. CASE session # "listed" \/ live # {} \/ responseQueue = <<>>
    <3>1. /\ UNCHANGED <<responseQueue, answers, fault>>
          /\ missed' = (missed \/ (session = "expired" /\ live = {}))
      BY <1>5, <2>2 DEF UA_Subscription_answerPublishRequestsNoSubscription
    <3>2. Stored' /\ Answered'
      BY <2>1, <3>1 DEF RequestsInv, Stored, Answered, Handle
    <3>3. RequestsAccounted'
      BY <2>1, <3>1 DEF RequestsInv, RequestsExact, RequestsAccounted, Handle
    <3>4. NoDanglingRequests'
      BY <2>1, <2>2, <3>1 DEF NoDanglingRequests
    <3> QED
      BY <2>1, <3>2, <3>3, <3>4 DEF RequestsInv, RequestsExact
  <2>3. CASE ~(session # "listed" \/ live # {} \/ responseQueue = <<>>)
    <3>1. /\ responseQueue' = <<>> /\ UNCHANGED missed
          /\ \/ fault' = "channel" /\ UNCHANGED answers
             \/ /\ answers' = answers \cup {<<r, Handle(r)>> : r \in ToSet(responseQueue)}
                /\ UNCHANGED fault
      BY <1>5, <2>3 DEF UA_Subscription_answerPublishRequestsNoSubscription
    <3>2. \A r \in ToSet(responseQueue) : r \in 1..requests
      BY DEF RequestsInv, Stored, ToSet
    <3>3. Stored'
      BY <2>1, <3>1 DEF RequestsInv, Stored
    <3>4. Answered'
      BY <2>1, <3>1, <3>2 DEF RequestsInv, Answered, Handle
    <3>5. ToSet(responseQueue') = {}
      BY <3>1 DEF ToSet
    <3>6. RequestsAccounted'
      BY <2>1, <2>3, <3>1, <3>2, <3>5
         DEF RequestsInv, RequestsExact, RequestsAccounted, Handle
    <3>7. NoDanglingRequests'
      BY <3>1 DEF NoDanglingRequests
    <3> QED
      BY <2>1, <3>3, <3>4, <3>6, <3>7 DEF RequestsInv, RequestsExact
  <2> QED
    BY <2>2, <2>3
<1> QED
  BY <1>1, <1>2, <1>3, <1>4, <1>5 DEF SessionStep

\* The inductive invariant of the publish requests.
THEOREM RequestsInvariance == Spec => []RequestsInv
<1>1. RequestsInv /\ [Next]_vars => RequestsInv'
  <2> SUFFICES ASSUME RequestsInv, [Next]_vars PROVE RequestsInv'
    OBVIOUS
  <2>1. CASE UNCHANGED vars
    BY <2>1, QuietRequests
       DEF vars, subVars, requestVars, sessionVars, faults, RequestsInv, Waiting
  <2> QED
    BY <2>1, ItemRequests, SubscriptionRequests, SessionRequests, LoopRequests, PublishRequests
       DEF Next
<1> QED
  BY <1>1, InitRequests, PTL DEF Spec

\* No publish request is lost, answered twice or left without anything that
\* could answer it: Service_Publish, the publish callback and the callback that
\* answers for a session without subscriptions agree about the stored requests.
THEOREM RequestsStayExact == Spec => []RequestsExact
  BY RequestsInvariance, PTL DEF RequestsInv

-----------------------------------------------------------------------------
(* Jobs.                                                                   *)

\* A subscription has its fields, and a job only with memory it owns.
IsSub(r) ==
    /\ DOMAIN r = DOMAIN NoSub
    /\ r.state \in {"NORMAL", "LATE"}
    /\ r.lifeTimeCount \in Nat /\ r.currentLifetimeCount \in Nat
    /\ r.lastMonitoredItemId \in Nat
    /\ r.publishJobIsRegistered \in BOOLEAN

IsMon(m) ==
    /\ DOMAIN m = DOMAIN NoMon
    /\ m.reporting \in BOOLEAN /\ m.sampleJobIsRegistered \in BOOLEAN

Shapes ==
    /\ live \subseteq 1..lastSub /\ lastSub \in 0..MaxSubs
    /\ DOMAIN sub = SubIds /\ \A s \in SubIds : IsSub(sub[s])
    /\ items \in [SubIds -> SUBSET ItemIds]
    /\ DOMAIN mon = SubIds
    /\ \A s \in SubIds : DOMAIN mon[s] = ItemIds /\ \A i \in ItemIds : IsMon(mon[s][i])
    /\ timers \in [Jobs -> Int]

\* The ids of items are counted up; nothing that is deleted has a job.
Absent ==
    \A s \in SubIds :
        /\ s \notin live => items[s] = {} /\ ~sub[s].publishJobIsRegistered
        /\ \A i \in items[s] : i <= sub[s].lastMonitoredItemId
        /\ \A i \in ItemIds \ items[s] : ~mon[s][i].sampleJobIsRegistered

\* The flags of the jobs, and the number of jobs for each callback.
Flags ==
    ~OutOfMemory =>
        \A s \in SubIds :
            /\ s \in live => sub[s].publishJobIsRegistered
            /\ \A i \in items[s] : mon[s][i].sampleJobIsRegistered = mon[s][i].reporting
            /\ timers[<<s, 0>>] = IF sub[s].publishJobIsRegistered THEN 1 ELSE 0
            /\ \A i \in ItemIds : timers[<<s, i>>] = IF mon[s][i].sampleJobIsRegistered THEN 1 ELSE 0

\* A job of this round has its data, or lost it when its subscription expired.
Rounds ==
    /\ due \subseteq Jobs
    /\ phase # "timer" => due = {}
    /\ calling # 0 => <<calling, 0>> \notin due
    /\ ~OutOfMemory => \A s \in SubIds, i \in 0..MaxItems :
          <<s, i>> \in due => \/ s \in live /\ (i # 0 => i \in items[s])
                              \/ s \in expired /\ i # 0

JobsInv == Shapes /\ Absent /\ Flags /\ Rounds /\ LifetimeWhileLate /\ StaleOnlyAfterExpiry

JobCounts == Shapes /\ Absent /\ Flags

\* At first there is nothing that could have a job.
LEMMA InitJobs == Init => JobsInv
<1> SUFFICES ASSUME Init PROVE JobsInv
  OBVIOUS
<1>1. \A s \in SubIds : sub[s] = NoSub /\ items[s] = {} /\ \A i \in ItemIds : mon[s][i] = NoMon
  BY DEF Init
<1>2. \A j \in Jobs : timers[j] = 0
  BY DEF Init
<1>3. \A s \in SubIds, i \in 0..MaxItems : <<s, i>> \in Jobs
  BY DEF Jobs
<1>4. IsSub(NoSub) /\ ~NoSub.publishJobIsRegistered
  BY DEF IsSub, NoSub
<1>5. IsMon(NoMon) /\ ~NoMon.sampleJobIsRegistered
  BY DEF IsMon, NoMon
<1>6. Shapes
  <2>1. /\ DOMAIN sub = SubIds /\ items \in [SubIds -> SUBSET ItemIds]
        /\ DOMAIN mon = SubIds /\ \A s \in SubIds : DOMAIN mon[s] = ItemIds
        /\ timers \in [Jobs -> Int]
    BY DEF Init
  <2>2. live \subseteq 1..lastSub /\ lastSub \in 0..MaxSubs
    BY BoundAssumption DEF Init
  <2> QED
    BY <1>1, <1>4, <1>5, <2>1, <2>2 DEF Shapes
<1>7. Absent
  BY <1>1, <1>4, <1>5 DEF Absent
<1>8. Flags
  <2>1. 0 \in 0..MaxItems /\ ItemIds \subseteq 0..MaxItems
    BY BoundAssumption DEF ItemIds
  <2>2. live = {}
    BY DEF Init
  <2> QED
    BY <1>1, <1>2, <1>3, <1>4, <1>5, <2>1, <2>2 DEF Flags
<1>9. Rounds /\ LifetimeWhileLate /\ StaleOnlyAfterExpiry
  BY DEF Init, Rounds, LifetimeWhileLate, StaleOnlyAfterExpiry
<1> QED
  BY <1>6, <1>7, <1>8, <1>9 DEF JobsInv

\* A step that changes neither the lists nor the flags of the jobs.
SameSub ==
    /\ DOMAIN sub' = SubIds
    /\ \A s \in SubIds :
          /\ IsSub(sub'[s])
          /\ sub'[s].publishJobIsRegistered = sub[s].publishJobIsRegistered
          /\ sub'[s].lastMonitoredItemId = sub[s].lastMonitoredItemId

SameMon ==
    /\ DOMAIN mon' = SubIds
    /\ \A s \in SubIds :
          /\ DOMAIN mon'[s] = ItemIds
          /\ \A i \in ItemIds :
                /\ IsMon(mon'[s][i])
                /\ mon'[s][i].reporting = mon[s][i].reporting
                /\ mon'[s][i].sampleJobIsRegistered = mon[s][i].sampleJobIsRegistered

\* Such a step keeps the jobs in line with the lists.
LEMMA SameCounts ==
    ASSUME JobCounts, UNCHANGED <<live, lastSub, items, timers>>, SameSub, SameMon
    PROVE  JobCounts'
<1>1. Shapes'
  BY DEF JobCounts, Shapes, SameSub, SameMon
<1>2. Absent'
  BY DEF JobCounts, Shapes, Absent, SameSub, SameMon
<1>3. Flags'
  <2> SUFFICES ASSUME ~OutOfMemory, NEW s \in SubIds PROVE
        /\ s \in live => sub'[s].publishJobIsRegistered
        /\ \A i \in items[s] : mon'[s][i].sampleJobIsRegistered = mon'[s][i].reporting
        /\ timers[<<s, 0>>] = IF sub'[s].publishJobIsRegistered THEN 1 ELSE 0
        /\ \A i \in ItemIds :
              timers[<<s, i>>] = IF mon'[s][i].sampleJobIsRegistered THEN 1 ELSE 0
    BY DEF Flags
  <2>1. items[s] \subseteq ItemIds
    BY DEF JobCounts, Shapes
  <2>2. /\ s \in live => sub'[s].publishJobIsRegistered
        /\ timers[<<s, 0>>] = IF sub'[s].publishJobIsRegistered THEN 1 ELSE 0
    BY DEF JobCounts, Flags, SameSub
  <2>3. ASSUME NEW i \in items[s]
        PROVE  mon'[s][i].sampleJobIsRegistered = mon'[s][i].reporting
    <3>1. mon[s][i].sampleJobIsRegistered = mon[s][i].reporting
      BY DEF JobCounts, Flags
    <3>2. /\ mon'[s][i].sampleJobIsRegistered = mon[s][i].sampleJobIsRegistered
          /\ mon'[s][i].reporting = mon[s][i].reporting
      BY <2>1, Zenon DEF SameMon
    <3> QED
      BY <3>1, <3>2, Zenon
  <2>4. ASSUME NEW i \in ItemIds
        PROVE  timers[<<s, i>>] = IF mon'[s][i].sampleJobIsRegistered THEN 1 ELSE 0
    <3>1. timers[<<s, i>>] = IF mon[s][i].sampleJobIsRegistered THEN 1 ELSE 0
      BY DEF JobCounts, Flags
    <3>2. mon'[s][i].sampleJobIsRegistered = mon[s][i].sampleJobIsRegistered
      BY Zenon DEF SameMon
    <3> QED
      BY <3>1, <3>2, Zenon
  <2> QED
    BY <2>2, <2>3, <2>4
<1> QED
  BY <1>1, <1>2, <1>3 DEF JobCounts

\* A step that does not touch the subscriptions is one of them.
LEMMA UnchangedSub == Shapes /\ UNCHANGED sub => SameSub
  BY DEF Shapes, SameSub

\* And one that does not touch the items.
LEMMA UnchangedMon == Shapes /\ UNCHANGED mon => SameMon
  BY DEF Shapes, SameMon

\* One subscription changes, but for its job and the number of its items.
LEMMA OneSub ==
    ASSUME Shapes, NEW s \in SubIds, NEW r, IsSub(r),
           r.publishJobIsRegistered = sub[s].publishJobIsRegistered,
           r.lastMonitoredItemId = sub[s].lastMonitoredItemId,
           sub' = [sub EXCEPT ![s] = r]
    PROVE  SameSub
  BY DEF Shapes, SameSub

\* One item changes, but for its mode and its job.
LEMMA OneMon ==
    ASSUME Shapes, NEW s \in SubIds, NEW i \in ItemIds, NEW m, IsMon(m),
           m.reporting = mon[s][i].reporting,
           m.sampleJobIsRegistered = mon[s][i].sampleJobIsRegistered,
           mon' = [mon EXCEPT ![s][i] = m]
    PROVE  SameMon
  BY DEF Shapes, SameMon

\* A sample changes neither the mode of the item nor its job.
LEMMA Sampling ==
    ASSUME NEW m, IsMon(m), NEW i, NEW n \in sampleCallbackWithValue(m, i)
    PROVE  IsMon(n) /\ n.reporting = m.reporting
           /\ n.sampleJobIsRegistered = m.sampleJobIsRegistered
  BY DEF sampleCallbackWithValue, sampled, IsMon, NoMon

\* The services that renew a lifetime change nothing else of a subscription.
LEMMA RenewedSub ==
    ASSUME Shapes, NEW s \in SubIds, sub' = Renewed(s)
    PROVE  SameSub
<1> DEFINE r == [sub[s] EXCEPT !.currentLifetimeCount = 0]
<1>1. IsSub(sub[s])
  BY DEF Shapes
<1>2. /\ IsSub(r) /\ r.publishJobIsRegistered = sub[s].publishJobIsRegistered
      /\ r.lastMonitoredItemId = sub[s].lastMonitoredItemId
  BY <1>1 DEF IsSub, NoSub
<1>3. sub' = [sub EXCEPT ![s] = r]
  BY DEF Renewed
<1> QED
  BY <1>2, <1>3, OneSub

\* The jobs are counted by pairs of numbers.
LEMMA Pairs ==
    ASSUME NEW s \in SubIds
    PROVE  /\ <<s, 0>> \in Jobs
           /\ \A i \in ItemIds : <<s, i>> \in Jobs /\ i # 0
  BY BoundAssumption DEF Jobs, SubIds, ItemIds

\* With memory to spare a job ends up registered if and only if it is wanted.
LEMMA Reregistering ==
    ASSUME NEW n \in Int, NEW was \in BOOLEAN, NEW want \in BOOLEAN,
           NEW t \in reregister(n, was, want)
    PROVE  /\ t[1] \in Int /\ t[2] \in BOOLEAN
           /\ ~OutOfMemory /\ n = (IF was THEN 1 ELSE 0)
              => IF want THEN t[2] /\ t[1] = 1 ELSE ~t[2] /\ t[1] = 0
<1> USE BoundAssumption
<1>1. PICK m \in IF was THEN removeRepeatedJob(n) ELSE {n} :
          t \in IF want THEN addRepeatedJob(m) ELSE {<<m, FALSE>>}
  BY DEF reregister
<1>2. /\ m \in Int
      /\ ~OutOfMemory /\ n = (IF was THEN 1 ELSE 0) => m = 0
  BY <1>1 DEF removeRepeatedJob
<1>3. CASE want
  <2>1. t = <<m + 1, TRUE>> \/ (OutOfMemory /\ t = <<m, FALSE>>)
    BY <1>1, <1>3 DEF addRepeatedJob
  <2>2. CASE t = <<m + 1, TRUE>>
    <3>1. t[1] = m + 1 /\ t[2] = TRUE
      BY <2>2
    <3>2. t[1] \in Int /\ (~OutOfMemory /\ n = (IF was THEN 1 ELSE 0) => t[1] = 1)
      BY <1>2, <3>1
    <3>3. t[2] /\ t[2] \in BOOLEAN
      BY <3>1, Zenon
    <3> QED
      BY <1>3, <3>2, <3>3, Zenon
  <2>3. CASE OutOfMemory /\ t = <<m, FALSE>>
    <3>1. t[1] = m /\ t[2] = FALSE
      BY <2>3
    <3> QED
      BY <1>2, <2>3, <3>1
  <2> QED
    BY <2>1, <2>2, <2>3
<1>4. CASE ~want
  <2>1. t = <<m, FALSE>>
    BY <1>1, <1>4, Zenon
  <2>2. t[1] = m /\ t[2] = FALSE
    BY <2>1
  <2> QED
    BY <1>2, <1>4, <2>2
<1> QED
  BY <1>3, <1>4

\* A subscription is created or gets other settings: its job is registered anew.
LEMMA SubJob ==
    ASSUME JobCounts, NEW s \in SubIds, NEW r, NEW n \in Int,
           IsSub(r), s \in live => r.lastMonitoredItemId = sub[s].lastMonitoredItemId,
           ~OutOfMemory => r.publishJobIsRegistered /\ n = 1,
           lastSub' \in 0..MaxSubs, live' \subseteq 1..lastSub', live' = live \cup {s},
           sub' = [sub EXCEPT ![s] = r], timers' = [timers EXCEPT ![<<s, 0>>] = n],
           UNCHANGED <<items, mon>>
    PROVE  JobCounts'
<1>1. /\ sub'[s] = r
      /\ \A t \in SubIds \ {s} : sub'[t] = sub[t]
      /\ DOMAIN sub' = SubIds
  BY DEF JobCounts, Shapes
<1>2. /\ timers'[<<s, 0>>] = n
      /\ \A t \in SubIds \ {s} : timers'[<<t, 0>>] = timers[<<t, 0>>]
      /\ \A t \in SubIds, i \in ItemIds : timers'[<<t, i>>] = timers[<<t, i>>]
      /\ timers' \in [Jobs -> Int]
  BY Pairs DEF JobCounts, Shapes
<1>3. Shapes'
  BY <1>1, <1>2 DEF JobCounts, Shapes
<1>4. Absent'
  BY <1>1 DEF JobCounts, Absent
<1>5. Flags'
  <2> SUFFICES ASSUME ~OutOfMemory, NEW t \in SubIds PROVE
        /\ t \in live' => sub'[t].publishJobIsRegistered
        /\ \A i \in items'[t] : mon'[t][i].sampleJobIsRegistered = mon'[t][i].reporting
        /\ timers'[<<t, 0>>] = IF sub'[t].publishJobIsRegistered THEN 1 ELSE 0
        /\ \A i \in ItemIds :
              timers'[<<t, i>>] = IF mon'[t][i].sampleJobIsRegistered THEN 1 ELSE 0
    BY DEF Flags
  <2>1. \A i \in items[t] : mon[t][i].sampleJobIsRegistered = mon[t][i].reporting
    BY DEF JobCounts, Flags
  <2>2. ASSUME NEW i \in ItemIds
        PROVE  timers'[<<t, i>>] = IF mon[t][i].sampleJobIsRegistered THEN 1 ELSE 0
    <3>1. timers[<<t, i>>] = IF mon[t][i].sampleJobIsRegistered THEN 1 ELSE 0
      BY DEF JobCounts, Flags
    <3> QED
      BY <1>2, <3>1, Zenon
  <2>3. /\ t \in live' => sub'[t].publishJobIsRegistered
        /\ timers'[<<t, 0>>] = IF sub'[t].publishJobIsRegistered THEN 1 ELSE 0
    <3>1. CASE t = s
      BY <1>1, <1>2, <3>1
    <3>2. CASE t # s
      BY <1>1, <1>2, <3>2 DEF JobCounts, Flags
    <3> QED
      BY <3>1, <3>2
  <2> QED
    BY <2>1, <2>2, <2>3, Zenon
<1> QED
  BY <1>3, <1>4, <1>5 DEF JobCounts

\* The settings of a subscription are numbers within the limits.
LEMMA SubSettings ==
    ASSUME NEW r, IsSub(r), NEW registered \in BOOLEAN, NEW want \in SubscriptionSettings
    PROVE  LET n == setSubscriptionSettings(r, registered, want) IN
           /\ IsSub(n)
           /\ n.publishJobIsRegistered = registered
           /\ n.lastMonitoredItemId = r.lastMonitoredItemId
           /\ n.state = r.state /\ n.currentLifetimeCount = r.currentLifetimeCount
<1> DEFINE l == LifeTime(want.lifetime, Bounded(keepAliveCountLimits, want.keepAlives))
<1>1. l \in Nat
  <2>1. /\ Bounded(lifeTimeCountLimits, want.lifetime) \in Nat
        /\ Bounded(keepAliveCountLimits, want.keepAlives) \in Nat
    BY BoundAssumption, ConfigAssumption DEF Bounded, IsRange, SubscriptionSettings
  <2> QED
    BY <2>1 DEF LifeTime
<1> HIDE DEF l
<1> QED
  BY <1>1 DEF IsSub, NoSub, setSubscriptionSettings, l

\* An item is created or changed, and its job registered anew.
LEMMA ItemJob ==
    ASSUME JobCounts, NEW s \in live, NEW i \in ItemIds, NEW m, NEW n \in Int,
           IsMon(m),
           ~OutOfMemory => m.sampleJobIsRegistered = m.reporting
                           /\ n = IF m.sampleJobIsRegistered THEN 1 ELSE 0,
           DOMAIN sub' = SubIds,
           \A t \in SubIds :
               /\ IsSub(sub'[t])
               /\ sub'[t].publishJobIsRegistered = sub[t].publishJobIsRegistered
               /\ sub'[t].lastMonitoredItemId >= sub[t].lastMonitoredItemId,
           i <= sub'[s].lastMonitoredItemId,
           items' = [items EXCEPT ![s] = items[s] \cup {i}],
           mon' = [mon EXCEPT ![s][i] = m],
           timers' = [timers EXCEPT ![<<s, i>>] = n],
           UNCHANGED <<live, lastSub>>
    PROVE  JobCounts'
<1>0. s \in SubIds
  BY BoundAssumption DEF JobCounts, Shapes, SubIds
<1>1. /\ mon'[s][i] = m
      /\ \A t \in SubIds, k \in ItemIds : t # s \/ k # i => mon'[t][k] = mon[t][k]
      /\ DOMAIN mon' = SubIds
      /\ \A t \in SubIds : DOMAIN mon'[t] = ItemIds
  BY <1>0 DEF JobCounts, Shapes
<1>2. /\ timers'[<<s, i>>] = n
      /\ \A t \in SubIds : timers'[<<t, 0>>] = timers[<<t, 0>>]
      /\ \A t \in SubIds, k \in ItemIds : t # s \/ k # i => timers'[<<t, k>>] = timers[<<t, k>>]
      /\ timers' \in [Jobs -> Int]
  BY <1>0, Pairs DEF JobCounts, Shapes
<1>3. /\ items'[s] = items[s] \cup {i}
      /\ \A t \in SubIds \ {s} : items'[t] = items[t]
      /\ items' \in [SubIds -> SUBSET ItemIds]
      /\ \A t \in SubIds : items[t] \subseteq ItemIds
  BY <1>0 DEF JobCounts, Shapes
<1>4. Shapes'
  <2>1. \A t \in SubIds, k \in ItemIds : IsMon(mon'[t][k])
    BY <1>1 DEF JobCounts, Shapes
  <2> QED
    BY <1>1, <1>2, <1>3, <2>1 DEF JobCounts, Shapes
<1>5. Absent'
  <2> SUFFICES ASSUME NEW t \in SubIds PROVE
        /\ t \notin live => items'[t] = {} /\ ~sub'[t].publishJobIsRegistered
        /\ \A k \in items'[t] : k <= sub'[t].lastMonitoredItemId
        /\ \A k \in ItemIds \ items'[t] : ~mon'[t][k].sampleJobIsRegistered
    BY DEF Absent
  <2>1. t \notin live => items'[t] = {} /\ ~sub'[t].publishJobIsRegistered
    BY <1>3 DEF JobCounts, Absent
  <2>2. ASSUME NEW k \in items'[t] PROVE k <= sub'[t].lastMonitoredItemId
    <3>1. k \in items[t] \/ (t = s /\ k = i)
      BY <1>3
    <3>2. k \in items[t] => k \in Nat /\ k <= sub[t].lastMonitoredItemId
      BY <1>3 DEF JobCounts, Absent, ItemIds
    <3>3. sub[t].lastMonitoredItemId \in Nat /\ sub'[t].lastMonitoredItemId \in Nat
      BY DEF JobCounts, Shapes, IsSub
    <3> QED
      BY <3>1, <3>2, <3>3
  <2>3. ASSUME NEW k \in ItemIds \ items'[t] PROVE ~mon'[t][k].sampleJobIsRegistered
    BY <1>1, <1>3 DEF JobCounts, Absent
  <2> QED
    BY <2>1, <2>2, <2>3
<1>6. Flags'
  <2> SUFFICES ASSUME ~OutOfMemory, NEW t \in SubIds PROVE
        /\ t \in live => sub'[t].publishJobIsRegistered
        /\ \A k \in items'[t] : mon'[t][k].sampleJobIsRegistered = mon'[t][k].reporting
        /\ timers'[<<t, 0>>] = IF sub'[t].publishJobIsRegistered THEN 1 ELSE 0
        /\ \A k \in ItemIds :
              timers'[<<t, k>>] = IF mon'[t][k].sampleJobIsRegistered THEN 1 ELSE 0
    BY DEF Flags
  <2>1. /\ t \in live => sub'[t].publishJobIsRegistered
        /\ timers'[<<t, 0>>] = IF sub'[t].publishJobIsRegistered THEN 1 ELSE 0
    BY <1>2 DEF JobCounts, Flags
  <2>2. ASSUME NEW k \in ItemIds
        PROVE  /\ timers'[<<t, k>>] = IF mon'[t][k].sampleJobIsRegistered THEN 1 ELSE 0
               /\ k \in items'[t] => mon'[t][k].sampleJobIsRegistered = mon'[t][k].reporting
    <3>1. CASE t = s /\ k = i
      BY <1>1, <1>2, <3>1, Zenon
    <3>2. CASE t # s \/ k # i
      <4>1. k \in items'[t] => k \in items[t]
        BY <1>3, <3>2
      <4>2. /\ timers[<<t, k>>] = IF mon[t][k].sampleJobIsRegistered THEN 1 ELSE 0
            /\ k \in items[t] => mon[t][k].sampleJobIsRegistered = mon[t][k].reporting
        BY DEF JobCounts, Flags
      <4>3. mon'[t][k] = mon[t][k] /\ timers'[<<t, k>>] = timers[<<t, k>>]
        BY <1>1, <1>2, <3>2
      <4> QED
        BY <4>1, <4>2, <4>3, Zenon
    <3> QED
      BY <3>1, <3>2
  <2>3. items'[t] \subseteq ItemIds
    BY <1>3
  <2> QED
    BY <2>1, <2>2, <2>3, Zenon
<1> QED
  BY <1>4, <1>5, <1>6 DEF JobCounts

\* With memory to spare an item has its job if and only if it reports.
LEMMA ItemFlag ==
    ASSUME Flags, ~OutOfMemory, NEW s \in SubIds, NEW i \in items[s]
    PROVE  mon[s][i].sampleJobIsRegistered = mon[s][i].reporting
  BY DEF Flags

\* The subscriptions D, or the items I of a live subscription, go with their
\* jobs, if these are removed from the list.
LEMMA Gone ==
    ASSUME JobCounts, NEW L \in SUBSET live, live' = L, UNCHANGED lastSub,
           NEW J \in SUBSET Jobs, unregister(J),
           DOMAIN sub' = SubIds, items' \in [SubIds -> SUBSET ItemIds], DOMAIN mon' = SubIds,
           \A s \in SubIds :
               /\ IsSub(sub'[s]) /\ DOMAIN mon'[s] = ItemIds
               /\ s \in live \ L => /\ items'[s] = {} /\ \A k \in 0..MaxItems : <<s, k>> \in J
               /\ items'[s] \subseteq items[s]
               /\ IF <<s, 0>> \in J THEN s \notin L /\ ~sub'[s].publishJobIsRegistered
                  ELSE /\ sub'[s].publishJobIsRegistered = sub[s].publishJobIsRegistered
                       /\ sub'[s].lastMonitoredItemId = sub[s].lastMonitoredItemId
               /\ \A i \in ItemIds :
                     IF <<s, i>> \in J THEN i \notin items'[s] /\ mon'[s][i] = NoMon
                     ELSE mon'[s][i] = mon[s][i] /\ (i \in items[s] => i \in items'[s])
    PROVE  JobCounts'
<1>1. Shapes'
  <2>1. IsMon(NoMon)
    BY DEF IsMon, NoMon
  <2>2. ASSUME NEW s \in SubIds, NEW i \in ItemIds PROVE IsMon(mon'[s][i])
    <3>1. mon'[s][i] = NoMon \/ mon'[s][i] = mon[s][i]
      OBVIOUS
    <3> QED
      BY <2>1, <3>1 DEF JobCounts, Shapes
  <2>3. timers' \in [Jobs -> Int]
    BY DEF JobCounts, Shapes, unregister
  <2> QED
    BY <2>2, <2>3 DEF JobCounts, Shapes
<1>2. Absent'
  <2> SUFFICES ASSUME NEW t \in SubIds PROVE
        /\ t \notin L => items'[t] = {} /\ ~sub'[t].publishJobIsRegistered
        /\ \A k \in items'[t] : k <= sub'[t].lastMonitoredItemId
        /\ \A k \in ItemIds \ items'[t] : ~mon'[t][k].sampleJobIsRegistered
    BY DEF Absent
  <2>0. 0 \in 0..MaxItems
    BY BoundAssumption
  <2>1. t \notin L => items'[t] = {} /\ ~sub'[t].publishJobIsRegistered
    BY <2>0 DEF JobCounts, Absent
  <2>2. ASSUME NEW k \in items'[t] PROVE k <= sub'[t].lastMonitoredItemId
    <3>1. t \in L /\ <<t, 0>> \notin J
      BY <2>1
    <3> QED
      BY <3>1 DEF JobCounts, Absent
  <2>3. ASSUME NEW k \in ItemIds \ items'[t] PROVE ~mon'[t][k].sampleJobIsRegistered
    <3>1. CASE <<t, k>> \in J
      <4>1. mon'[t][k] = NoMon
        BY <3>1
      <4> QED
        BY <4>1 DEF NoMon
    <3>2. CASE <<t, k>> \notin J
      <4>1. mon'[t][k] = mon[t][k] /\ k \notin items[t]
        BY <3>2
      <4> QED
        BY <4>1 DEF JobCounts, Absent
    <3> QED
      BY <3>1, <3>2
  <2> QED
    BY <2>1, <2>2, <2>3
<1>3. Flags'
  <2> SUFFICES ASSUME ~OutOfMemory, NEW t \in SubIds PROVE
        /\ t \in L => sub'[t].publishJobIsRegistered
        /\ \A k \in items'[t] : mon'[t][k].sampleJobIsRegistered = mon'[t][k].reporting
        /\ timers'[<<t, 0>>] = IF sub'[t].publishJobIsRegistered THEN 1 ELSE 0
        /\ \A k \in ItemIds :
              timers'[<<t, k>>] = IF mon'[t][k].sampleJobIsRegistered THEN 1 ELSE 0
    BY DEF Flags
  <2>1. timers' = [j \in Jobs |-> IF j \in J /\ Registered(j) THEN timers[j] - 1 ELSE timers[j]]
    BY DEF unregister
  <2>2. /\ t \in L => sub'[t].publishJobIsRegistered
        /\ timers'[<<t, 0>>] = IF sub'[t].publishJobIsRegistered THEN 1 ELSE 0
    <3>1. Registered(<<t, 0>>) = sub[t].publishJobIsRegistered
      BY DEF Registered
    <3>2. CASE <<t, 0>> \in J
      BY <2>1, <3>1, <3>2, Pairs DEF JobCounts, Flags
    <3>3. CASE <<t, 0>> \notin J
      BY <2>1, <3>3, Pairs DEF JobCounts, Flags
    <3> QED
      BY <3>2, <3>3
  <2>3. ASSUME NEW k \in ItemIds
        PROVE  /\ timers'[<<t, k>>] = IF mon'[t][k].sampleJobIsRegistered THEN 1 ELSE 0
               /\ k \in items'[t] => mon'[t][k].sampleJobIsRegistered = mon'[t][k].reporting
    <3>f. Flags
      BY DEF JobCounts
    <3>0. ASSUME k \in items[t]
          PROVE  mon[t][k].sampleJobIsRegistered = mon[t][k].reporting
      BY <3>f, <3>0, ItemFlag
    <3>1. timers[<<t, k>>] = IF mon[t][k].sampleJobIsRegistered THEN 1 ELSE 0
      BY DEF JobCounts, Flags
    <3>2. CASE <<t, k>> \in J
      <4>1. Registered(<<t, k>>) = mon[t][k].sampleJobIsRegistered
        BY Pairs DEF Registered
      <4>2. mon'[t][k] = NoMon /\ k \notin items'[t]
        BY <3>2
      <4>3. timers'[<<t, k>>] = 0
        BY <2>1, <3>1, <3>2, <4>1, Pairs
      <4> QED
        BY <4>2, <4>3 DEF NoMon
    <3>3. CASE <<t, k>> \notin J
      <4>1. mon'[t][k] = mon[t][k] /\ (k \in items'[t] => k \in items[t])
        BY <3>3
      <4>2. timers'[<<t, k>>] = timers[<<t, k>>]
        BY <2>1, <3>3, Pairs
      <4> QED
        BY <3>0, <3>1, <4>1, <4>2, Zenon
    <3> QED
      BY <3>2, <3>3
  <2>4. items'[t] \subseteq ItemIds
    OBVIOUS
  <2> QED
    BY <2>2, <2>3, <2>4, Zenon
<1> QED
  BY <1>1, <1>2, <1>3 DEF JobCounts

-----------------------------------------------------------------------------
(* Steps: the jobs and the lifetimes.                                      *)

JobsKept == JobCounts /\ LifetimeWhileLate

\* The list holds subscriptions.
LEMMA LiveIds == Shapes => live \subseteq SubIds
  BY BoundAssumption DEF Shapes, SubIds

\* A subscription that changes is not late any longer, or as late as it was.
LEMMA SameLifetime ==
    ASSUME Shapes, Shapes', LifetimeWhileLate,
           \A s \in live' :
               \/ sub'[s].currentLifetimeCount = 0
               \/ /\ s \in live /\ sub'[s].state = sub[s].state
                  /\ sub'[s].currentLifetimeCount = sub[s].currentLifetimeCount
                  /\ sub'[s].lifeTimeCount = sub[s].lifeTimeCount
    PROVE  LifetimeWhileLate'
<1> SUFFICES ASSUME NEW s \in live'
             PROVE  /\ sub'[s].currentLifetimeCount <= sub'[s].lifeTimeCount
                    /\ sub'[s].currentLifetimeCount > 0 => sub'[s].state = "LATE"
  BY DEF LifetimeWhileLate
<1>1. s \in SubIds
  BY BoundAssumption DEF Shapes, SubIds
<1>2. sub'[s].currentLifetimeCount \in Nat /\ sub'[s].lifeTimeCount \in Nat
  BY <1>1 DEF Shapes, IsSub
<1>3. CASE sub'[s].currentLifetimeCount = 0
  BY <1>2, <1>3
<1>4. CASE /\ s \in live /\ sub'[s].state = sub[s].state
           /\ sub'[s].currentLifetimeCount = sub[s].currentLifetimeCount
           /\ sub'[s].lifeTimeCount = sub[s].lifeTimeCount
  BY <1>4 DEF LifetimeWhileLate
<1> QED
  BY <1>3, <1>4

\* The record of one subscription changes, but neither its job nor its items.
LEMMA OneSubKept ==
    ASSUME JobsKept, NEW s \in live, NEW r, IsSub(r),
           r.publishJobIsRegistered = sub[s].publishJobIsRegistered,
           r.lastMonitoredItemId = sub[s].lastMonitoredItemId,
           \/ r.currentLifetimeCount = 0
           \/ /\ r.state = sub[s].state /\ r.lifeTimeCount = sub[s].lifeTimeCount
              /\ r.currentLifetimeCount = sub[s].currentLifetimeCount,
           sub' = [sub EXCEPT ![s] = r],
           SameMon, UNCHANGED <<live, lastSub, items, timers>>
    PROVE  JobsKept'
<1>1. s \in SubIds /\ Shapes
  BY LiveIds DEF JobsKept, JobCounts
<1>2. SameSub
  BY <1>1, OneSub
<1>3. JobCounts'
  BY <1>2, SameCounts DEF JobsKept
<1>4. LifetimeWhileLate'
  <2>1. /\ sub'[s] = r
        /\ \A t \in live \ {s} : sub'[t] = sub[t]
    BY <1>1, LiveIds DEF Shapes
  <2> QED
    BY <1>1, <1>3, <2>1, SameLifetime DEF JobsKept, JobCounts
<1> QED
  BY <1>3, <1>4 DEF JobsKept

\* Nothing changes.
LEMMA UnchangedKept == JobsKept /\ UNCHANGED subVars => JobsKept'
<1> SUFFICES ASSUME JobsKept, UNCHANGED subVars PROVE JobsKept'
  OBVIOUS
<1>1. SameSub /\ SameMon /\ UNCHANGED <<live, lastSub, items, timers, sub>>
  BY UnchangedSub, UnchangedMon DEF JobsKept, JobCounts, subVars
<1> QED
  BY <1>1, SameCounts DEF JobsKept, LifetimeWhileLate

\* A service that only renews a lifetime.
LEMMA RenewedKept ==
    ASSUME JobsKept, NEW s \in live, sub' = Renewed(s),
           UNCHANGED <<live, lastSub, items, timers, mon>>
    PROVE  JobsKept'
<1> DEFINE r == [sub[s] EXCEPT !.currentLifetimeCount = 0]
<1>1. Shapes /\ SameMon /\ s \in SubIds
  BY LiveIds, UnchangedMon DEF JobsKept, JobCounts
<1>2. IsSub(sub[s])
  BY <1>1 DEF Shapes
<1>3. /\ IsSub(r) /\ r.publishJobIsRegistered = sub[s].publishJobIsRegistered
      /\ r.lastMonitoredItemId = sub[s].lastMonitoredItemId /\ r.currentLifetimeCount = 0
  BY <1>2 DEF IsSub, NoSub
<1>4. sub' = [sub EXCEPT ![s] = r]
  BY DEF Renewed
<1> QED
  BY <1>1, <1>3, <1>4, OneSubKept

\* A service on a subscription starts its lifetime again.
LEMMA RenewedLifetime ==
    ASSUME Shapes, Shapes', LifetimeWhileLate, NEW s \in live, sub' = Renewed(s), UNCHANGED live
    PROVE  LifetimeWhileLate'
<1>1. s \in SubIds /\ live \subseteq SubIds /\ DOMAIN sub = SubIds /\ IsSub(sub[s])
  BY LiveIds DEF Shapes
<1>2. sub'[s] = [sub[s] EXCEPT !.currentLifetimeCount = 0]
  BY <1>1 DEF Renewed
<1>3. sub'[s].currentLifetimeCount = 0 /\ \A x \in live \ {s} : sub'[x] = sub[x]
  BY <1>1, <1>2 DEF Renewed, IsSub, NoSub
<1> QED
  BY <1>3, SameLifetime

\* A publish callback that does not end the subscription.  Its lifetime is used up
\* one callback at a time, after the first that made it late.
LEMMA PublishKept ==
    ASSUME JobsKept, NEW s \in SubIds, publishNothing(s) \/ publishLate(s) \/ publishSend(s)
    PROVE  JobsKept'
<1> USE BoundAssumption, ConfigAssumption
<1>1. s \in live /\ Shapes /\ IsSub(sub[s])
  BY DEF publishNothing, publishLate, publishSend, NoRequest, Called, JobsKept, JobCounts, Shapes
<1>2. UNCHANGED <<live, lastSub, items, timers>>
  BY DEF publishNothing, publishLate, publishSend, NoRequest
<1>3. CASE publishNothing(s)
  <2> DEFINE k == KeepAlive(s, countQueuedNotifications(s))
             r == [sub[s] EXCEPT !.currentKeepAliveCount = k]
  <2>1. sub' = [sub EXCEPT ![s] = r] /\ UNCHANGED mon
    BY <1>3 DEF publishNothing
  <2> HIDE DEF k
  <2>2. /\ IsSub(r) /\ r.publishJobIsRegistered = sub[s].publishJobIsRegistered
        /\ r.lastMonitoredItemId = sub[s].lastMonitoredItemId /\ r.state = sub[s].state
        /\ r.lifeTimeCount = sub[s].lifeTimeCount
        /\ r.currentLifetimeCount = sub[s].currentLifetimeCount
    BY <1>1 DEF IsSub, NoSub
  <2> HIDE DEF r
  <2> QED
    BY <1>1, <1>2, <2>1, <2>2, OneSubKept, UnchangedMon
<1>4. CASE publishLate(s)
  <2> DEFINE late == sub[s].state = "LATE"
             k == KeepAlive(s, countQueuedNotifications(s))
             c == sub[s].currentLifetimeCount
             r == [sub[s] EXCEPT !.state = "LATE", !.currentLifetimeCount = IF late THEN c + 1 ELSE c,
                                 !.currentKeepAliveCount = k]
  <2>1. /\ sub' = [sub EXCEPT ![s] = r] /\ UNCHANGED mon
        /\ late => c < sub[s].lifeTimeCount
    BY <1>4 DEF publishLate
  <2> HIDE DEF k
  <2>2. c \in Nat /\ sub[s].lifeTimeCount \in Nat
    BY <1>1 DEF IsSub
  <2>3. /\ IsSub(r) /\ r.publishJobIsRegistered = sub[s].publishJobIsRegistered
        /\ r.lastMonitoredItemId = sub[s].lastMonitoredItemId /\ r.state = "LATE"
        /\ r.lifeTimeCount = sub[s].lifeTimeCount
        /\ r.currentLifetimeCount = IF late THEN c + 1 ELSE c
    BY <1>1, <2>2 DEF IsSub, NoSub
  <2>4. r.currentLifetimeCount <= r.lifeTimeCount
    BY <1>1, <2>1, <2>2, <2>3 DEF JobsKept, LifetimeWhileLate
  <2> HIDE DEF r
  <2>5. SameSub
    BY <1>1, <2>1, <2>3, OneSub
  <2>6. JobCounts'
    BY <1>1, <1>2, <2>1, <2>5, SameCounts, UnchangedMon DEF JobsKept
  <2>7. LifetimeWhileLate'
    <3>1. sub'[s] = r /\ \A t \in SubIds \ {s} : sub'[t] = sub[t]
      BY <1>1, <2>1 DEF Shapes
    <3>2. live' = live /\ live \subseteq SubIds
      BY <1>1, <1>2, LiveIds
    <3> QED
      BY <2>3, <2>4, <3>1, <3>2 DEF JobsKept, LifetimeWhileLate
  <2> QED
    BY <2>6, <2>7 DEF JobsKept
<1>5. CASE publishSend(s)
  <2> DEFINE n == countQueuedNotifications(s)
             m == [seq |-> sub[s].sequenceNumber + 1, notes |-> SubSeq(Pending(s), 1, n)]
             r == SentRecord(sub[s])
             q == UA_Subscription_addRetransmissionMessage(r.retransmissionQueue, m)
             r2 == [r EXCEPT !.sequenceNumber = m.seq, !.retransmissionQueue = q]
  <2>1. \/ sub' = [sub EXCEPT ![s] = r] /\ UNCHANGED mon
        \/ sub' = [sub EXCEPT ![s] = r2] /\ prepareNotificationMessage(s, n)
    BY <1>5 DEF publishSend
  <2> HIDE DEF n, m, q
  <2>2. /\ IsSub(r) /\ r.publishJobIsRegistered = sub[s].publishJobIsRegistered
        /\ r.lastMonitoredItemId = sub[s].lastMonitoredItemId /\ r.currentLifetimeCount = 0
    BY <1>1 DEF IsSub, NoSub, SentRecord
  <2>3. /\ IsSub(r2) /\ r2.publishJobIsRegistered = sub[s].publishJobIsRegistered
        /\ r2.lastMonitoredItemId = sub[s].lastMonitoredItemId /\ r2.currentLifetimeCount = 0
    BY <2>2 DEF IsSub, NoSub
  <2>4. SameMon
    <3>1. CASE UNCHANGED mon
      BY <1>1, <3>1, UnchangedMon
    <3>2. CASE prepareNotificationMessage(s, n)
      <4> DEFINE rest(i) == SubSeq(mon[s][i].queue, LeftFor(s, i, n) + 1, Len(mon[s][i].queue))
      <4>1. mon' = [mon EXCEPT ![s] = [i \in ItemIds |-> [mon[s][i] EXCEPT !.queue = rest(i)]]]
        BY <3>2 DEF prepareNotificationMessage
      <4> HIDE DEF rest
      <4>2. \A t \in SubIds \ {s} : mon'[t] = mon[t]
        BY <1>1, <4>1 DEF Shapes
      <4>3. /\ DOMAIN mon' = SubIds
            /\ mon'[s] = [i \in ItemIds |-> [mon[s][i] EXCEPT !.queue = rest(i)]]
        BY <1>1, <4>1 DEF Shapes
      <4>4. ASSUME NEW i \in ItemIds
            PROVE  /\ IsMon(mon'[s][i])
                   /\ mon'[s][i].reporting = mon[s][i].reporting
                   /\ mon'[s][i].sampleJobIsRegistered = mon[s][i].sampleJobIsRegistered
        <5>1. IsMon(mon[s][i])
          BY <1>1 DEF Shapes
        <5>2. mon'[s][i] = [mon[s][i] EXCEPT !.queue = rest(i)]
          BY <4>3
        <5> QED
          BY <5>1, <5>2 DEF IsMon, NoMon
      <4> QED
        BY <1>1, <4>2, <4>3, <4>4 DEF Shapes, SameMon
    <3> QED
      BY <2>1, <3>1, <3>2
  <2> HIDE DEF r, r2
  <2> QED
    BY <1>1, <1>2, <2>1, <2>2, <2>3, <2>4, OneSubKept
<1> QED
  BY <1>3, <1>4, <1>5

\* The two ways in which the list of subscriptions loses some of them.
LEMMA DeletedKept ==
    ASSUME JobsKept, NEW D \in SUBSET live,
           live' = live \ D, UA_Subscription_deleteMembers(D), UNCHANGED lastSub
    PROVE  JobsKept'
<1> DEFINE J == {j \in Jobs : j[1] \in D}
           L == live \ D
<1>1. Shapes /\ live \subseteq SubIds
  BY LiveIds DEF JobsKept, JobCounts
<1>2. /\ unregister(J)
      /\ sub' = [s \in SubIds |-> IF s \in D THEN NoSub ELSE sub[s]]
      /\ items' = [s \in SubIds |-> IF s \in D THEN {} ELSE items[s]]
      /\ mon' = [s \in SubIds |-> IF s \in D THEN [i \in ItemIds |-> NoMon] ELSE mon[s]]
  BY DEF UA_Subscription_deleteMembers
<1>3. /\ IsSub(NoSub) /\ ~NoSub.publishJobIsRegistered /\ NoSub.currentLifetimeCount = 0
  BY DEF IsSub, NoSub
<1>4. \A s \in SubIds, k \in 0..MaxItems : <<s, k>> \in J <=> s \in D
  BY DEF Jobs
<1>5. /\ 0 \in 0..MaxItems /\ ItemIds \subseteq 0..MaxItems
  BY BoundAssumption DEF ItemIds
<1>6. J \in SUBSET Jobs /\ L \in SUBSET live
  OBVIOUS
<1> HIDE DEF J
<1>7. /\ DOMAIN sub' = SubIds /\ DOMAIN mon' = SubIds
      /\ items' \in [SubIds -> SUBSET ItemIds]
  BY <1>1, <1>2 DEF Shapes
<1>8. ASSUME NEW s \in SubIds
      PROVE  /\ IsSub(sub'[s]) /\ DOMAIN mon'[s] = ItemIds
             /\ s \in live \ L => /\ items'[s] = {} /\ \A k \in 0..MaxItems : <<s, k>> \in J
             /\ items'[s] \subseteq items[s]
             /\ IF <<s, 0>> \in J THEN s \notin L /\ ~sub'[s].publishJobIsRegistered
                ELSE /\ sub'[s].publishJobIsRegistered = sub[s].publishJobIsRegistered
                     /\ sub'[s].lastMonitoredItemId = sub[s].lastMonitoredItemId
             /\ \A i \in ItemIds :
                   IF <<s, i>> \in J THEN i \notin items'[s] /\ mon'[s][i] = NoMon
                   ELSE mon'[s][i] = mon[s][i] /\ (i \in items[s] => i \in items'[s])
  <2>1. CASE s \in D
    <3>1. /\ sub'[s] = NoSub /\ items'[s] = {} /\ mon'[s] = [i \in ItemIds |-> NoMon]
          /\ \A k \in 0..MaxItems : <<s, k>> \in J
      BY <1>2, <1>4, <2>1
    <3> QED
      BY <1>3, <1>5, <2>1, <3>1
  <2>2. CASE s \notin D
    <3>1. /\ sub'[s] = sub[s] /\ items'[s] = items[s] /\ mon'[s] = mon[s]
          /\ \A k \in 0..MaxItems : <<s, k>> \notin J
      BY <1>2, <1>4, <2>2
    <3> QED
      BY <1>1, <1>5, <2>2, <3>1 DEF Shapes
  <2> QED
    BY <2>1, <2>2
<1>9. JobCounts'
  BY <1>2, <1>6, <1>7, <1>8, Gone DEF JobsKept
<1>10. LifetimeWhileLate'
  <2>1. \A s \in live' : s \in live /\ sub'[s] = sub[s]
    BY <1>1, <1>2
  <2> QED
    BY <1>1, <1>9, <2>1, SameLifetime DEF JobsKept, JobCounts
<1> QED
  BY <1>9, <1>10 DEF JobsKept

\* A new subscription has the next number, which no job is registered for.
LEMMA CreatedKept == JobsKept /\ Service_CreateSubscription => JobsKept'
<1> SUFFICES ASSUME JobsKept, Service_CreateSubscription PROVE JobsKept'
  OBVIOUS
<1> DEFINE s == lastSub + 1
<1>1. /\ Shapes /\ s \in SubIds /\ s \notin live /\ lastSub' = s /\ live' = live \cup {s}
      /\ UNCHANGED <<items, mon>>
  BY DEF JobsKept, JobCounts, Shapes, Service_CreateSubscription
<1>2. lastSub' \in 0..MaxSubs /\ live' \subseteq 1..lastSub'
  BY <1>1, BoundAssumption DEF Shapes, SubIds
<1>3. \E on \in BOOLEAN, want \in SubscriptionSettings :
        \E t \in reregister(timers[<<s, 0>>], FALSE, TRUE) :
          LET new == setSubscriptionSettings([NoSub EXCEPT !.publishingEnabled = on], t[2], want) IN
          /\ sub' = [sub EXCEPT ![s] = [new EXCEPT !.currentKeepAliveCount = new.maxKeepAliveCount]]
          /\ timers' = [timers EXCEPT ![<<s, 0>>] = t[1]]
  BY DEF Service_CreateSubscription
<1> DEFINE T == reregister(timers[<<s, 0>>], FALSE, TRUE)
           New(on, want, f) == setSubscriptionSettings([NoSub EXCEPT !.publishingEnabled = on], f, want)
<1>4. PICK on \in BOOLEAN, want \in SubscriptionSettings : \E t \in T :
        LET new == New(on, want, t[2]) IN
          /\ sub' = [sub EXCEPT ![s] = [new EXCEPT !.currentKeepAliveCount = new.maxKeepAliveCount]]
          /\ timers' = [timers EXCEPT ![<<s, 0>>] = t[1]]
  BY <1>3
<1>5. ASSUME NEW t \in T
      PROVE  t[1] \in Int /\ t[2] \in BOOLEAN /\ (~OutOfMemory => t[2] /\ t[1] = 1)
  <2>1. timers[<<s, 0>>] \in Int /\ (~OutOfMemory => timers[<<s, 0>>] = 0)
    BY <1>1, Pairs DEF JobsKept, JobCounts, Shapes, Absent, Flags
  <2> QED
    BY <2>1, Reregistering
<1> HIDE DEF T
<1>6. PICK t \in T :
        LET new == New(on, want, t[2]) IN
          /\ sub' = [sub EXCEPT ![s] = [new EXCEPT !.currentKeepAliveCount = new.maxKeepAliveCount]]
          /\ timers' = [timers EXCEPT ![<<s, 0>>] = t[1]]
  BY <1>4
<1> DEFINE zero == [NoSub EXCEPT !.publishingEnabled = on]
           new == setSubscriptionSettings(zero, t[2], want)
           r == [new EXCEPT !.currentKeepAliveCount = new.maxKeepAliveCount]
<1>7. IsSub(zero) /\ zero.currentLifetimeCount = 0 /\ zero.lastMonitoredItemId = 0
  BY DEF IsSub, NoSub
<1> HIDE DEF zero
<1>8. /\ IsSub(new) /\ new.publishJobIsRegistered = t[2]
      /\ new.lastMonitoredItemId = 0 /\ new.currentLifetimeCount = 0
  <2>1. t[2] \in BOOLEAN
    BY <1>5, <1>6, Zenon
  <2> QED
    BY <1>4, <1>7, <2>1, SubSettings
<1> HIDE DEF new
<1>9. /\ IsSub(r) /\ r.publishJobIsRegistered = t[2]
      /\ r.lastMonitoredItemId = 0 /\ r.currentLifetimeCount = 0
  BY <1>8 DEF IsSub, NoSub
<1>10. sub' = [sub EXCEPT ![s] = r] /\ timers' = [timers EXCEPT ![<<s, 0>>] = t[1]]
  BY <1>6 DEF new, zero
<1> HIDE DEF r, New
<1>11. JobCounts'
  <2>1. /\ t[1] \in Int /\ (~OutOfMemory => r.publishJobIsRegistered /\ t[1] = 1)
    BY <1>5, <1>6, <1>9, Zenon
  <2> QED
    BY <1>1, <1>2, <1>9, <1>10, <2>1, SubJob DEF JobsKept
<1>12. LifetimeWhileLate'
  <2>1. sub'[s] = r /\ \A x \in live : sub'[x] = sub[x]
    BY <1>1, <1>10 DEF Shapes
  <2> QED
    BY <1>1, <1>9, <1>11, <2>1, SameLifetime DEF JobsKept, JobCounts
<1> QED
  BY <1>11, <1>12 DEF JobsKept

\* Other settings of a subscription: the job is taken off and put on again.
LEMMA ModifiedKept ==
    ASSUME JobsKept, NEW s \in SubIds, Service_ModifySubscription(s)
    PROVE  JobsKept'
<1>1. /\ Shapes /\ s \in live /\ UNCHANGED <<live, lastSub, items, mon>>
      /\ lastSub' \in 0..MaxSubs /\ live' \subseteq 1..lastSub' /\ live' = live \cup {s}
  BY DEF JobsKept, JobCounts, Shapes, Service_ModifySubscription
<1> DEFINE was == sub[s].publishJobIsRegistered
           T == reregister(timers[<<s, 0>>], was, TRUE)
           New(want, f) == setSubscriptionSettings(sub[s], f, want)
<1>2. PICK want \in SubscriptionSettings : \E t \in T :
        /\ sub' = [sub EXCEPT ![s] = [New(want, t[2]) EXCEPT !.currentLifetimeCount = 0]]
        /\ timers' = [timers EXCEPT ![<<s, 0>>] = t[1]]
  BY DEF Service_ModifySubscription
<1>3. IsSub(sub[s]) /\ was \in BOOLEAN
  BY <1>1 DEF Shapes, IsSub
<1>4. ASSUME NEW t \in T
      PROVE  t[1] \in Int /\ t[2] \in BOOLEAN /\ (~OutOfMemory => t[2] /\ t[1] = 1)
  <2>1. timers[<<s, 0>>] \in Int /\ (~OutOfMemory => timers[<<s, 0>>] = IF was THEN 1 ELSE 0)
    BY <1>1, Pairs DEF JobsKept, JobCounts, Shapes, Flags
  <2> HIDE DEF was
  <2> QED
    BY <1>3, <2>1, Reregistering
<1> HIDE DEF T
<1>5. PICK t \in T :
        /\ sub' = [sub EXCEPT ![s] = [New(want, t[2]) EXCEPT !.currentLifetimeCount = 0]]
        /\ timers' = [timers EXCEPT ![<<s, 0>>] = t[1]]
  BY <1>2
<1> DEFINE new == New(want, t[2])
           r == [new EXCEPT !.currentLifetimeCount = 0]
<1>6. t[2] \in BOOLEAN /\ t[1] \in Int
  BY <1>4, <1>5, Zenon
<1>7. /\ IsSub(new) /\ new.publishJobIsRegistered = t[2]
      /\ new.lastMonitoredItemId = sub[s].lastMonitoredItemId
  BY <1>2, <1>3, <1>6, SubSettings
<1> HIDE DEF new
<1>8. /\ IsSub(r) /\ r.publishJobIsRegistered = t[2]
      /\ r.lastMonitoredItemId = sub[s].lastMonitoredItemId /\ r.currentLifetimeCount = 0
  BY <1>7 DEF IsSub, NoSub
<1>9. sub' = [sub EXCEPT ![s] = r] /\ timers' = [timers EXCEPT ![<<s, 0>>] = t[1]]
  BY <1>5 DEF new
<1> HIDE DEF r, New
<1>10. JobCounts'
  <2>1. ~OutOfMemory => r.publishJobIsRegistered /\ t[1] = 1
    BY <1>4, <1>5, <1>8, Zenon
  <2> QED
    BY <1>1, <1>6, <1>8, <1>9, <2>1, SubJob DEF JobsKept
<1>11. LifetimeWhileLate'
  <2>1. sub'[s] = r /\ \A x \in live \ {s} : sub'[x] = sub[x]
    BY <1>1, <1>9, LiveIds DEF Shapes
  <2> QED
    BY <1>1, <1>8, <1>10, <2>1, SameLifetime DEF JobsKept, JobCounts
<1> QED
  BY <1>10, <1>11 DEF JobsKept

\* Publishing is switched on or off.
LEMMA ModeKept ==
    ASSUME JobsKept, NEW s \in SubIds, Service_SetPublishingMode(s)
    PROVE  JobsKept'
<1> DEFINE on == ~sub[s].publishingEnabled
           r == [sub[s] EXCEPT !.publishingEnabled = on, !.currentLifetimeCount = 0]
<1>1. /\ s \in live /\ Shapes /\ UNCHANGED <<live, lastSub, items, timers, mon>>
      /\ sub' = [sub EXCEPT ![s] = r]
  BY DEF JobsKept, JobCounts, Service_SetPublishingMode
<1>2. SameMon
  BY <1>1, UnchangedMon
<1>3. IsSub(sub[s])
  BY <1>1 DEF Shapes
<1> HIDE DEF on
<1>4. /\ IsSub(r) /\ r.publishJobIsRegistered = sub[s].publishJobIsRegistered
      /\ r.lastMonitoredItemId = sub[s].lastMonitoredItemId /\ r.currentLifetimeCount = 0
  BY <1>3 DEF IsSub, NoSub
<1> HIDE DEF r
<1> QED
  BY <1>1, <1>2, <1>4, OneSubKept

\* An acknowledgement takes messages from the retransmission queues only.
LEMMA AcknowledgedKept ==
    ASSUME JobsKept, NEW A, Service_Publish(A)
    PROVE  JobsKept'
<1> DEFINE Q(s) == UA_Subscription_removeRetransmissionMessage(sub[s].retransmissionQueue,
                                                               Acknowledged(A, s))
<1>1. /\ Shapes /\ UNCHANGED <<live, lastSub, items, timers, mon>>
      /\ \/ UNCHANGED sub
         \/ sub' = [s \in SubIds |-> [sub[s] EXCEPT !.retransmissionQueue = Q(s)]]
  BY DEF JobsKept, JobCounts, Service_Publish
<1> HIDE DEF Q
<1>2. CASE UNCHANGED sub
  BY <1>1, <1>2, UnchangedKept DEF subVars
<1>3. CASE sub' = [s \in SubIds |-> [sub[s] EXCEPT !.retransmissionQueue = Q(s)]]
  <2>1. ASSUME NEW s \in SubIds
        PROVE  /\ IsSub(sub'[s])
               /\ sub'[s].publishJobIsRegistered = sub[s].publishJobIsRegistered
               /\ sub'[s].lastMonitoredItemId = sub[s].lastMonitoredItemId
               /\ sub'[s].state = sub[s].state /\ sub'[s].lifeTimeCount = sub[s].lifeTimeCount
               /\ sub'[s].currentLifetimeCount = sub[s].currentLifetimeCount
    <3>1. sub'[s] = [sub[s] EXCEPT !.retransmissionQueue = Q(s)] /\ IsSub(sub[s])
      BY <1>1, <1>3 DEF Shapes
    <3> QED
      BY <3>1 DEF IsSub, NoSub
  <2>2. SameSub /\ SameMon
    BY <1>1, <1>3, <2>1, UnchangedMon DEF SameSub
  <2>3. JobCounts'
    BY <1>1, <2>2, SameCounts DEF JobsKept
  <2>4. LifetimeWhileLate'
    BY <1>1, <2>1, <2>3, SameLifetime, LiveIds DEF JobsKept, JobCounts
  <2> QED
    BY <2>3, <2>4 DEF JobsKept
<1> QED
  BY <1>1, <1>2, <1>3

\* The settings of an item leave its mode alone.
LEMMA ItemSetting ==
    ASSUME NEW m, IsMon(m), NEW registered \in BOOLEAN, NEW want
    PROVE  LET n == setMonitoredItemSettings(m, registered, want) IN
           /\ IsMon(n) /\ n.reporting = m.reporting /\ n.sampleJobIsRegistered = registered
  BY DEF IsMon, NoMon, setMonitoredItemSettings

\* The jobs of an item after its settings have changed.
LEMMA ItemJobs ==
    ASSUME JobsKept, NEW s \in live, NEW i \in ItemIds, NEW was \in BOOLEAN,
           was = mon[s][i].sampleJobIsRegistered,
           NEW want \in BOOLEAN, NEW t \in reregister(timers[<<s, i>>], was, want)
    PROVE  /\ t[1] \in Int /\ t[2] \in BOOLEAN
           /\ ~OutOfMemory => t[2] = want /\ t[1] = IF t[2] THEN 1 ELSE 0
<1>1. /\ timers[<<s, i>>] \in Int
      /\ ~OutOfMemory => timers[<<s, i>>] = IF was THEN 1 ELSE 0
  BY LiveIds, Pairs DEF JobsKept, JobCounts, Shapes, Flags
<1>2. /\ t[1] \in Int /\ t[2] \in BOOLEAN
      /\ ~OutOfMemory => IF want THEN t[2] /\ t[1] = 1 ELSE ~t[2] /\ t[1] = 0
  BY <1>1, Reregistering
<1> QED
  BY <1>2, Zenon

\* A sample is taken.
LEMMA SampledKept ==
    ASSUME JobsKept, NEW s \in SubIds, NEW i \in ItemIds, UA_MonitoredItem_SampleCallback(s, i)
    PROVE  JobsKept'
<1>1. Shapes /\ IsMon(mon[s][i]) /\ UNCHANGED <<live, lastSub, items, timers, sub>>
  BY DEF JobsKept, JobCounts, Shapes, UA_MonitoredItem_SampleCallback
<1>2. CASE UNCHANGED mon
  BY <1>1, <1>2, UnchangedKept DEF subVars
<1>3. CASE \E m \in sampleCallbackWithValue(mon[s][i], i) : mon' = [mon EXCEPT ![s][i] = m]
  <2>1. SameMon
    BY <1>1, <1>3, Sampling, OneMon
  <2>2. SameSub
    BY <1>1, UnchangedSub
  <2>3. JobCounts'
    BY <1>1, <2>1, <2>2, SameCounts DEF JobsKept
  <2> QED
    BY <1>1, <2>3 DEF JobsKept, LifetimeWhileLate
<1> QED
  BY <1>2, <1>3 DEF UA_MonitoredItem_SampleCallback

\* The new item is the last one: no item has had its number.
LEMMA NewItemKept ==
    ASSUME JobsKept, NEW s \in live, Service_CreateMonitoredItems_single(s),
           UNCHANGED <<live, lastSub>>
    PROVE  JobsKept'
<1>1. Shapes /\ s \in SubIds /\ IsSub(sub[s])
  BY LiveIds DEF JobsKept, JobCounts, Shapes
<1>2. CASE sub' = Renewed(s) /\ UNCHANGED <<items, mon, timers>>
  BY <1>2, RenewedKept
<1> DEFINE i == sub[s].lastMonitoredItemId + 1
           r == [sub[s] EXCEPT !.currentLifetimeCount = 0, !.lastMonitoredItemId = i]
           New(on, want, f) == setMonitoredItemSettings([NoMon EXCEPT !.reporting = on], f, want)
<1>3. CASE /\ sub' = [Renewed(s) EXCEPT ![s].lastMonitoredItemId = i]
           /\ items' = [items EXCEPT ![s] = @ \cup {i}]
           /\ \E on \in BOOLEAN, want \in ItemSettings :
                \E t \in reregister(timers[<<s, i>>], FALSE, on) :
                  /\ timers' = [timers EXCEPT ![<<s, i>>] = t[1]]
                  /\ \E m \in IF on THEN sampleCallbackWithValue(New(on, want, t[2]), i)
                             ELSE {New(on, want, t[2])} :
                       mon' = [mon EXCEPT ![s][i] = m]
  <2>1. i \in ItemIds /\ i \notin items[s] /\ i \in Nat
    <3>1. i \in ItemIds
      BY DEF Service_CreateMonitoredItems_single
    <3>2. \A k \in items[s] : k \in Nat /\ k <= sub[s].lastMonitoredItemId
      BY <1>1 DEF JobsKept, JobCounts, Absent, Shapes, ItemIds
    <3> QED
      BY <1>1, <3>1, <3>2 DEF IsSub
  <2>2. sub' = [sub EXCEPT ![s] = r]
    BY <1>1, <1>3 DEF Renewed, Shapes
  <2>3. /\ IsSub(r) /\ r.publishJobIsRegistered = sub[s].publishJobIsRegistered
        /\ r.lastMonitoredItemId = i /\ r.currentLifetimeCount = 0
    BY <1>1, <2>1 DEF IsSub, NoSub
  <2>4. PICK on \in BOOLEAN, want \in ItemSettings :
          \E t \in reregister(timers[<<s, i>>], FALSE, on) :
            /\ timers' = [timers EXCEPT ![<<s, i>>] = t[1]]
            /\ \E m \in IF on THEN sampleCallbackWithValue(New(on, want, t[2]), i)
                       ELSE {New(on, want, t[2])} :
                 mon' = [mon EXCEPT ![s][i] = m]
    BY <1>3
  <2> DEFINE T == reregister(timers[<<s, i>>], FALSE, on)
  <2>5. ~mon[s][i].sampleJobIsRegistered /\ mon[s][i].sampleJobIsRegistered \in BOOLEAN
    BY <1>1, <2>1 DEF JobsKept, JobCounts, Absent, Shapes, IsMon
  <2>6. ASSUME NEW t \in T
        PROVE  /\ t[1] \in Int /\ t[2] \in BOOLEAN
               /\ ~OutOfMemory => t[2] = on /\ t[1] = IF t[2] THEN 1 ELSE 0
    <3> DEFINE F == FALSE
    <3>1. F \in BOOLEAN /\ F = mon[s][i].sampleJobIsRegistered
      BY <2>5, Zenon
    <3>2. t \in reregister(timers[<<s, i>>], F, on)
      OBVIOUS
    <3> HIDE DEF F, T, i
    <3> QED
      BY <2>1, <2>4, <3>1, <3>2, ItemJobs
  <2> HIDE DEF T
  <2>7. PICK t \in T :
            /\ timers' = [timers EXCEPT ![<<s, i>>] = t[1]]
            /\ \E m \in IF on THEN sampleCallbackWithValue(New(on, want, t[2]), i)
                       ELSE {New(on, want, t[2])} :
                 mon' = [mon EXCEPT ![s][i] = m]
    BY <2>4 DEF T
  <2> DEFINE new == New(on, want, t[2])
             zero == [NoMon EXCEPT !.reporting = on]
  <2>8. IsMon(zero) /\ zero.reporting = on
    BY <2>4 DEF IsMon, NoMon
  <2> HIDE DEF zero
  <2>9. IsMon(new) /\ new.reporting = on /\ new.sampleJobIsRegistered = t[2]
    <3>1. t[2] \in BOOLEAN
      BY <2>6, <2>7, Zenon
    <3>2. new = setMonitoredItemSettings(zero, t[2], want)
      BY DEF zero
    <3> HIDE DEF new, New
    <3> QED
      BY <2>8, <3>1, <3>2, ItemSetting
  <2>10. PICK m \in IF on THEN sampleCallbackWithValue(new, i) ELSE {new} :
            mon' = [mon EXCEPT ![s][i] = m]
    BY <2>7
  <2> HIDE DEF New, new
  <2>11. IsMon(m) /\ m.reporting = on /\ m.sampleJobIsRegistered = t[2]
    <3>1. CASE on
      <4>1. m \in sampleCallbackWithValue(new, i)
        BY <2>10, <3>1
      <4> QED
        BY <2>9, <4>1, Sampling
    <3>2. CASE ~on
      BY <2>9, <2>10, <3>2
    <3> QED
      BY <3>1, <3>2
  <2>12. /\ ~OutOfMemory => m.sampleJobIsRegistered = m.reporting
                            /\ t[1] = IF m.sampleJobIsRegistered THEN 1 ELSE 0
         /\ t[1] \in Int
    BY <2>6, <2>7, <2>11, Zenon
  <2> HIDE DEF r
  <2>13. /\ DOMAIN sub' = SubIds /\ i <= sub'[s].lastMonitoredItemId
         /\ \A x \in SubIds :
               /\ IsSub(sub'[x])
               /\ sub'[x].publishJobIsRegistered = sub[x].publishJobIsRegistered
               /\ sub'[x].lastMonitoredItemId >= sub[x].lastMonitoredItemId
    <3>1. /\ DOMAIN sub' = SubIds /\ sub'[s] = r /\ \A x \in SubIds \ {s} : sub'[x] = sub[x]
      BY <1>1, <2>2 DEF Shapes
    <3>2. sub[s].lastMonitoredItemId \in Nat /\ i >= sub[s].lastMonitoredItemId /\ i <= i
      BY <1>1 DEF IsSub
    <3> HIDE DEF i
    <3>3. \A x \in SubIds : IsSub(sub[x]) /\ sub[x].lastMonitoredItemId \in Nat
      BY <1>1 DEF Shapes, IsSub
    <3>4. \A x \in SubIds : sub[x].lastMonitoredItemId >= sub[x].lastMonitoredItemId
      BY <3>3
    <3> QED
      BY <2>3, <3>1, <3>2, <3>3, <3>4
  <2>14. items' = [items EXCEPT ![s] = items[s] \cup {i}]
    BY <1>3
  <2>15. timers' = [timers EXCEPT ![<<s, i>>] = t[1]]
    BY <2>7
  <2> HIDE DEF i
  <2>16. JobCounts'
    BY <2>1, <2>10, <2>11, <2>12, <2>13, <2>14, <2>15, ItemJob DEF JobsKept
  <2>17. LifetimeWhileLate'
    <3>1. sub'[s] = r /\ \A x \in live \ {s} : sub'[x] = sub[x]
      BY <1>1, <2>2, LiveIds DEF Shapes
    <3> QED
      BY <1>1, <2>3, <2>16, <3>1, SameLifetime DEF JobsKept, JobCounts
  <2> QED
    BY <2>16, <2>17 DEF JobsKept
<1> QED
  BY <1>2, <1>3 DEF Service_CreateMonitoredItems_single

\* An item that is there already gets another record and another job.
LEMMA ItemChanged ==
    ASSUME JobsKept, NEW s \in live, NEW i \in items[s], NEW m, IsMon(m), NEW n \in Int,
           ~OutOfMemory => m.sampleJobIsRegistered = m.reporting
                           /\ n = IF m.sampleJobIsRegistered THEN 1 ELSE 0,
           SameSub, mon' = [mon EXCEPT ![s][i] = m],
           timers' = [timers EXCEPT ![<<s, i>>] = n], UNCHANGED <<live, lastSub, items>>
    PROVE  JobCounts'
<1>1. s \in SubIds /\ Shapes
  BY LiveIds DEF JobsKept, JobCounts
<1>2. i \in ItemIds /\ items' = [items EXCEPT ![s] = items[s] \cup {i}]
  BY <1>1 DEF Shapes
<1>3. \A x \in SubIds : sub[x].lastMonitoredItemId \in Nat
  BY <1>1 DEF Shapes, IsSub
<1>4. i <= sub[s].lastMonitoredItemId
  BY <1>1 DEF JobsKept, JobCounts, Absent
<1>5. /\ DOMAIN sub' = SubIds /\ i <= sub'[s].lastMonitoredItemId
      /\ \A x \in SubIds :
            /\ IsSub(sub'[x])
            /\ sub'[x].publishJobIsRegistered = sub[x].publishJobIsRegistered
            /\ sub'[x].lastMonitoredItemId >= sub[x].lastMonitoredItemId
  <2>1. sub'[s].lastMonitoredItemId = sub[s].lastMonitoredItemId
    BY <1>1 DEF SameSub
  <2>2. \A x \in SubIds : sub'[x].lastMonitoredItemId >= sub[x].lastMonitoredItemId
    BY <1>3 DEF SameSub
  <2> QED
    BY <1>4, <2>1, <2>2 DEF SameSub
<1> QED
  BY <1>2, <1>5, ItemJob DEF JobsKept

\* Other settings of an item: its job follows its mode.
LEMMA ModifiedItemKept ==
    ASSUME JobsKept, NEW s \in SubIds, NEW i \in ItemIds, Service_ModifyMonitoredItems(s, i)
    PROVE  JobsKept'
<1> DEFINE was == mon[s][i].sampleJobIsRegistered
           on == mon[s][i].reporting
           T == reregister(timers[<<s, i>>], was, on)
           New(want, f) == setMonitoredItemSettings(mon[s][i], f, want)
<1>1. /\ Shapes /\ s \in live /\ i \in items[s] /\ UNCHANGED <<live, lastSub, items>>
      /\ sub' = Renewed(s) /\ IsMon(mon[s][i])
  BY DEF JobsKept, JobCounts, Shapes, Service_ModifyMonitoredItems, ItemService
<1>2. PICK want \in ItemSettings : \E t \in T :
        /\ mon' = [mon EXCEPT ![s][i] = New(want, t[2])]
        /\ timers' = [timers EXCEPT ![<<s, i>>] = t[1]]
  BY <1>1 DEF Service_ModifyMonitoredItems, Shapes
<1>3. was \in BOOLEAN /\ on \in BOOLEAN
  BY <1>1 DEF IsMon
<1>4. ASSUME NEW t \in T
      PROVE  /\ t[1] \in Int /\ t[2] \in BOOLEAN
             /\ ~OutOfMemory => t[2] = on /\ t[1] = IF t[2] THEN 1 ELSE 0
  <2>1. was = mon[s][i].sampleJobIsRegistered /\ t \in reregister(timers[<<s, i>>], was, on)
    OBVIOUS
  <2> HIDE DEF was, on, T
  <2> QED
    BY <1>1, <1>3, <2>1, ItemJobs
<1> HIDE DEF T
<1>5. PICK t \in T : /\ mon' = [mon EXCEPT ![s][i] = New(want, t[2])]
                     /\ timers' = [timers EXCEPT ![<<s, i>>] = t[1]]
  BY <1>2
<1> DEFINE m == New(want, t[2])
<1>6. t[2] \in BOOLEAN /\ t[1] \in Int
  BY <1>4, <1>5, Zenon
<1>7. IsMon(m) /\ m.reporting = on /\ m.sampleJobIsRegistered = t[2]
  BY <1>1, <1>6, ItemSetting
<1>8. mon' = [mon EXCEPT ![s][i] = m] /\ timers' = [timers EXCEPT ![<<s, i>>] = t[1]]
  BY <1>5
<1> HIDE DEF m, New, on, was
<1>9. ~OutOfMemory => m.sampleJobIsRegistered = m.reporting
                      /\ t[1] = IF m.sampleJobIsRegistered THEN 1 ELSE 0
  BY <1>4, <1>5, <1>7, Zenon
<1>10. SameSub
  BY <1>1, RenewedSub
<1>11. JobCounts'
  BY <1>1, <1>6, <1>7, <1>8, <1>9, <1>10, ItemChanged
<1>12. LifetimeWhileLate'
  BY <1>1, <1>11, RenewedLifetime DEF JobsKept, JobCounts
<1> QED
  BY <1>11, <1>12 DEF JobsKept

\* Another mode: the job is registered or taken off.
LEMMA MonitoringKept ==
    ASSUME JobsKept, NEW s \in SubIds, NEW i \in ItemIds, Service_SetMonitoringMode(s, i)
    PROVE  JobsKept'
<1> DEFINE was == mon[s][i].sampleJobIsRegistered
           on == ~mon[s][i].reporting
           T == IF on THEN addRepeatedJob(timers[<<s, i>>])
                ELSE reregister(timers[<<s, i>>], was, FALSE)
           New(f) == [mon[s][i] EXCEPT !.reporting = on, !.sampleJobIsRegistered = f]
<1>1. /\ Shapes /\ s \in live /\ i \in items[s] /\ UNCHANGED <<live, lastSub, items, sub>>
      /\ IsMon(mon[s][i])
  BY DEF JobsKept, JobCounts, Shapes, Service_SetMonitoringMode, ItemService
<1>2. PICK t \in T : /\ mon' = [mon EXCEPT ![s][i] = New(t[2])]
                     /\ timers' = [timers EXCEPT ![<<s, i>>] = t[1]]
  <2>1. PICK t \in T : /\ mon' = [mon EXCEPT ![s][i].reporting = on,
                                              ![s][i].sampleJobIsRegistered = t[2]]
                       /\ timers' = [timers EXCEPT ![<<s, i>>] = t[1]]
    BY DEF Service_SetMonitoringMode
  <2> HIDE DEF T, on
  <2>2. mon' = [mon EXCEPT ![s][i] = New(t[2])]
    BY <1>1, <2>1 DEF Shapes
  <2> QED
    BY <2>1, <2>2
<1>3. was \in BOOLEAN /\ on \in BOOLEAN
  BY <1>1 DEF IsMon
<1>4. ASSUME NEW t2 \in T
      PROVE  /\ t2[1] \in Int /\ t2[2] \in BOOLEAN
             /\ ~OutOfMemory => t2[2] = on /\ t2[1] = IF t2[2] THEN 1 ELSE 0
  <2>0. s \in SubIds /\ i \in ItemIds /\ timers[<<s, i>>] \in Int
    BY <1>1, LiveIds, Pairs DEF Shapes
  <2>1. CASE on
    <3> DEFINE n == timers[<<s, i>>]
               F == FALSE
    <3>1. t2 \in addRepeatedJob(n)
      BY <2>1
    <3>2. ~OutOfMemory => n = 0
      <4>1. Flags
        BY DEF JobsKept, JobCounts
      <4>2. ~OutOfMemory => was = mon[s][i].reporting
        BY <1>1, <2>0, <4>1, ItemFlag
      <4>3. ~OutOfMemory => n = IF was THEN 1 ELSE 0
        BY <2>0, <4>1 DEF Flags
      <4>4. ~mon[s][i].reporting
        BY <2>1
      <4> HIDE DEF was, n, on
      <4>5. ~OutOfMemory => ~was
        BY <4>2, <4>4, Zenon
      <4> QED
        BY <4>3, <4>5
    <3>3. n \in Int /\ F \in BOOLEAN /\ ~F
      BY <2>0
    <3> HIDE DEF T, n, F, on, was
    <3>4. t2 \in reregister(n, F, on)
      BY <2>1, <3>1, <3>3 DEF reregister
    <3>5. /\ t2[1] \in Int /\ t2[2] \in BOOLEAN
          /\ ~OutOfMemory /\ n = (IF F THEN 1 ELSE 0)
             => IF on THEN t2[2] /\ t2[1] = 1 ELSE ~t2[2] /\ t2[1] = 0
      BY <1>3, <3>3, <3>4, Reregistering
    <3>6. ~OutOfMemory => t2[2] /\ t2[1] = 1
      BY <2>1, <3>2, <3>3, <3>5
    <3> QED
      BY <2>1, <3>5, <3>6, Zenon
  <2>2. CASE ~on
    <3> DEFINE F == FALSE
    <3>1. t2 \in reregister(timers[<<s, i>>], was, F) /\ was = mon[s][i].sampleJobIsRegistered
      BY <2>2
    <3>2. F \in BOOLEAN /\ ~F
      OBVIOUS
    <3> HIDE DEF T, F, on, was
    <3>3. /\ t2[1] \in Int /\ t2[2] \in BOOLEAN
          /\ ~OutOfMemory => t2[2] = F /\ t2[1] = IF t2[2] THEN 1 ELSE 0
      BY <1>1, <1>3, <2>0, <3>1, <3>2, ItemJobs
    <3>4. on = F
      BY <1>3, <2>2, <3>2, Zenon
    <3> QED
      BY <3>3, <3>4, Zenon
  <2> QED
    BY <2>1, <2>2
<1> HIDE DEF T, on
<1> DEFINE m == New(t[2])
<1>6. t[2] \in BOOLEAN /\ t[1] \in Int
  BY <1>2, <1>4, Zenon
<1>7. IsMon(m) /\ m.reporting = on /\ m.sampleJobIsRegistered = t[2]
  BY <1>1, <1>3, <1>6 DEF IsMon, NoMon
<1>8. mon' = [mon EXCEPT ![s][i] = m] /\ timers' = [timers EXCEPT ![<<s, i>>] = t[1]]
  BY <1>2
<1> HIDE DEF m, New
<1>9. ~OutOfMemory => m.sampleJobIsRegistered = m.reporting
                      /\ t[1] = IF m.sampleJobIsRegistered THEN 1 ELSE 0
  BY <1>2, <1>4, <1>7, Zenon
<1>10. SameSub
  BY <1>1, UnchangedSub
<1>11. JobCounts'
  BY <1>1, <1>6, <1>7, <1>8, <1>9, <1>10, ItemChanged
<1> QED
  BY <1>1, <1>11 DEF JobsKept, LifetimeWhileLate

\* An item goes with its job.
LEMMA DeletedItemKept ==
    ASSUME JobsKept, NEW s \in SubIds, NEW i \in ItemIds, Service_DeleteMonitoredItems(s, i)
    PROVE  JobsKept'
<1> DEFINE J == {<<s, i>>}
<1>1. /\ Shapes /\ s \in live /\ i \in items[s] /\ UNCHANGED <<live, lastSub>>
      /\ sub' = Renewed(s)
      /\ items' = [items EXCEPT ![s] = items[s] \ {i}]
      /\ mon' = [mon EXCEPT ![s][i] = NoMon]
      /\ unregister(J)
  BY DEF JobsKept, JobCounts, Shapes, Service_DeleteMonitoredItems, ItemService,
         UA_Subscription_deleteMonitoredItem
<1>2. SameSub
  BY <1>1, RenewedSub
<1>3. J \in SUBSET Jobs
  BY Pairs
<1>4. \A x \in SubIds, k \in 0..MaxItems : <<x, k>> \in J <=> x = s /\ k = i
  OBVIOUS
<1>5. /\ 0 \in 0..MaxItems /\ ItemIds \subseteq 0..MaxItems /\ i # 0
  BY BoundAssumption DEF ItemIds
<1> HIDE DEF J
<1>6. /\ DOMAIN sub' = SubIds /\ DOMAIN mon' = SubIds
      /\ items' \in [SubIds -> SUBSET ItemIds]
      /\ \A x \in SubIds : DOMAIN mon'[x] = ItemIds /\ items'[x] \subseteq items[x]
      /\ \A x \in SubIds, k \in ItemIds :
            IF x = s /\ k = i THEN k \notin items'[x] /\ mon'[x][k] = NoMon
            ELSE mon'[x][k] = mon[x][k] /\ (k \in items[x] => k \in items'[x])
  BY <1>1, <1>2 DEF Shapes, SameSub
<1>7. ASSUME NEW x \in SubIds
      PROVE  /\ IsSub(sub'[x]) /\ DOMAIN mon'[x] = ItemIds
             /\ x \in live \ live => /\ items'[x] = {} /\ \A k \in 0..MaxItems : <<x, k>> \in J
             /\ items'[x] \subseteq items[x]
             /\ IF <<x, 0>> \in J THEN x \notin live /\ ~sub'[x].publishJobIsRegistered
                ELSE /\ sub'[x].publishJobIsRegistered = sub[x].publishJobIsRegistered
                     /\ sub'[x].lastMonitoredItemId = sub[x].lastMonitoredItemId
             /\ \A k \in ItemIds :
                   IF <<x, k>> \in J THEN k \notin items'[x] /\ mon'[x][k] = NoMon
                   ELSE mon'[x][k] = mon[x][k] /\ (k \in items[x] => k \in items'[x])
  <2>1. <<x, 0>> \notin J
    BY <1>4, <1>5
  <2>2. /\ IsSub(sub'[x])
        /\ sub'[x].publishJobIsRegistered = sub[x].publishJobIsRegistered
        /\ sub'[x].lastMonitoredItemId = sub[x].lastMonitoredItemId
    BY <1>2 DEF SameSub
  <2>3. \A k \in ItemIds : <<x, k>> \in J <=> x = s /\ k = i
    BY <1>4, <1>5
  <2> QED
    BY <1>6, <2>1, <2>2, <2>3
<1>8. JobCounts'
  BY <1>1, <1>3, <1>6, <1>7, Gone DEF JobsKept
<1>9. LifetimeWhileLate'
  BY <1>1, <1>8, RenewedLifetime DEF JobsKept, JobCounts
<1> QED
  BY <1>8, <1>9 DEF JobsKept

\* Every step keeps the jobs in line with the lists, and the lifetimes in bounds.
LEMMA StepKept == JobsKept /\ [Next]_vars => JobsKept'
<1> SUFFICES ASSUME JobsKept, [Next]_vars PROVE JobsKept'
  OBVIOUS
<1>1. CASE UNCHANGED vars
  BY <1>1, UnchangedKept DEF vars
<1>2. CASE ItemStep
  <2> SUFFICES ASSUME NEW s \in SubIds,
                      \/ Service_CreateMonitoredItems(s) \/ Service_Republish(s)
                      \/ \E i \in ItemIds :
                            \/ Service_ModifyMonitoredItems(s, i) \/ Service_SetMonitoringMode(s, i)
                            \/ Service_DeleteMonitoredItems(s, i)
                            \/ UA_MonitoredItem_SampleCallback(s, i)
               PROVE  JobsKept'
    BY <1>2 DEF ItemStep
  <2>1. CASE Service_CreateMonitoredItems(s)
    <3>1. s \in live /\ UNCHANGED <<live, lastSub>>
      BY <2>1 DEF Service_CreateMonitoredItems
    <3>2. CASE Service_CreateMonitoredItems_single(s)
      BY <3>1, <3>2, NewItemKept
    <3>3. CASE sub' = Renewed(s) /\ UNCHANGED <<items, mon, timers>>
      BY <3>1, <3>3, RenewedKept
    <3> QED
      BY <2>1, <3>2, <3>3 DEF Service_CreateMonitoredItems
  <2>2. CASE Service_Republish(s)
    BY <2>2, RenewedKept DEF Service_Republish, ItemService
  <2> QED
    BY <2>1, <2>2, ModifiedItemKept, MonitoringKept, DeletedItemKept, SampledKept
<1>3. CASE SubscriptionStep
  <2>1. ASSUME NEW D \in SUBSET live, Service_DeleteSubscriptions(D) PROVE JobsKept'
    BY <2>1, DeletedKept DEF Service_DeleteSubscriptions, UA_Session_deleteSubscriptions
  <2> QED
    BY <1>3, <2>1, CreatedKept, ModifiedKept, ModeKept, AcknowledgedKept DEF SubscriptionStep
<1>4. CASE SessionStep
  <2>1. CASE UA_Session_deleteMembersCleanup
    <3>1. live' = live \ live /\ UA_Subscription_deleteMembers(live) /\ UNCHANGED lastSub
      BY <2>1 DEF UA_Session_deleteMembersCleanup, DelayedStep
    <3> QED
      BY <3>1, DeletedKept
  <2>2. CASE ~UA_Session_deleteMembersCleanup
    <3>1. UNCHANGED subVars
      BY <1>4, <2>2 DEF SessionStep, SessionTimeout, removeSession, removeSecureChannel,
         Service_ActivateSession, Environment, removeSecureChannelCallback, DelayedStep,
         UA_Subscription_answerPublishRequestsNoSubscription, subVars
    <3> QED
      BY <3>1, UnchangedKept
  <2> QED
    BY <2>1, <2>2
<1>5. CASE Loop
  BY <1>5, UnchangedKept DEF Loop, RoundDone, JobsDone, UA_RepeatedJobsList_process, NoStep
<1>6. ASSUME NEW s \in SubIds, UA_Subscription_publishCallback(s) PROVE JobsKept'
  <2>1. CASE publishExpire(s)
    BY <2>1, DeletedKept DEF publishExpire, NoRequest, Called, UA_Session_deleteSubscriptions
  <2>2. CASE publishFreed(s)
    BY <2>2, UnchangedKept DEF publishFreed
  <2> QED
    BY <1>6, <2>1, <2>2, PublishKept DEF UA_Subscription_publishCallback
<1> QED
  BY <1>1, <1>2, <1>3, <1>4, <1>5, <1>6 DEF Next

-----------------------------------------------------------------------------
(* Steps: the jobs of a round.                                             *)

RoundsOK == Rounds /\ StaleOnlyAfterExpiry

\* Outside a round there is nothing to run.
LEMMA NoRound ==
    ASSUME RoundsOK, phase # "timer", phase' # "timer", due' = due, stale' = stale,
           expired' = expired
    PROVE  RoundsOK'
  BY DEF RoundsOK, Rounds, StaleOnlyAfterExpiry

\* In a round jobs leave the list, and subscriptions and items stay.
LEMMA InRound ==
    ASSUME RoundsOK, due' \subseteq due, UNCHANGED <<live, items, phase, expired, stale>>,
           calling' # 0 => <<calling', 0>> \notin due'
    PROVE  RoundsOK'
<1>1. StaleOnlyAfterExpiry'
  BY DEF RoundsOK, StaleOnlyAfterExpiry
<1>2. Rounds'
  BY DEF RoundsOK, Rounds
<1> QED
  BY <1>1, <1>2 DEF RoundsOK

\* A service is called between two rounds.
LEMMA ServeRound ==
    ASSUME RoundsOK, Serve, UNCHANGED stale
    PROVE  RoundsOK'
  BY NoRound DEF Serve

\* A publish job leaves the round before its callback can end the subscription.
LEMMA PublishRound ==
    ASSUME RoundsOK, NEW s \in SubIds, s # 0, UA_Subscription_publishCallback(s)
    PROVE  RoundsOK'
<1>1. ASSUME Called(s)
      PROVE  /\ s \in live /\ due' \subseteq due /\ <<s, 0>> \notin due'
  BY <1>1 DEF Called, RoundsOK, Rounds
<1>2. CASE publishNothing(s) \/ publishLate(s) \/ publishSend(s)
  <2>1. /\ Called(s) /\ UNCHANGED <<live, items, phase, expired, stale>>
        /\ calling' \in {0, s}
    BY <1>2 DEF publishNothing, publishLate, publishSend, NoRequest, faults
  <2> QED
    BY <1>1, <2>1, InRound
<1>3. CASE publishExpire(s)
  <2>1. /\ Called(s) /\ calling' = 0 /\ UNCHANGED <<phase, stale>>
        /\ expired' = expired \cup {s} /\ live' = live \ {s}
        /\ items' = [x \in SubIds |-> IF x = s THEN {} ELSE items[x]]
    BY <1>3 DEF publishExpire, NoRequest, faults, UA_Session_deleteSubscriptions,
       UA_Subscription_deleteMembers
  <2>2. StaleOnlyAfterExpiry'
    BY <2>1 DEF RoundsOK, StaleOnlyAfterExpiry
  <2>3. /\ due' \subseteq Jobs /\ (phase' # "timer" => due' = {})
        /\ calling' # 0 => <<calling', 0>> \notin due'
    BY <1>1, <2>1 DEF RoundsOK, Rounds
  <2>4. ASSUME ~OutOfMemory, NEW x \in SubIds, NEW i \in 0..MaxItems, <<x, i>> \in due'
        PROVE  \/ x \in live' /\ (i # 0 => i \in items'[x])
               \/ x \in expired' /\ i # 0
    <3>1. CASE x = s
      <4>1. i # 0
        BY <1>1, <2>1, <2>4, <3>1
      <4> QED
        BY <2>1, <3>1, <4>1
    <3>2. CASE x # s
      <4>1. \/ x \in live /\ (i # 0 => i \in items[x])
            \/ x \in expired /\ i # 0
        BY <1>1, <2>1, <2>4 DEF RoundsOK, Rounds
      <4> QED
        BY <2>1, <3>2, <4>1
    <3> QED
      BY <3>1, <3>2
  <2> QED
    BY <2>2, <2>3, <2>4 DEF RoundsOK, Rounds
<1>4. CASE publishFreed(s)
  <2>1. /\ Idle /\ <<s, 0>> \in due /\ s \notin live /\ due' = due \ {<<s, 0>>}
        /\ stale' = {<<s, 0>>} /\ UNCHANGED <<live, items, phase, expired, calling>>
    BY <1>4 DEF publishFreed, subVars
  <2>2. OutOfMemory
    <3>1. 0 \in 0..MaxItems
      BY BoundAssumption
    <3> QED
      BY <2>1, <3>1, BoundAssumption DEF RoundsOK, Rounds
  <2> QED
    BY <2>1, <2>2 DEF RoundsOK, Rounds, StaleOnlyAfterExpiry
<1> QED
  BY <1>2, <1>3, <1>4 DEF UA_Subscription_publishCallback

\* A sample job finds its data, or its subscription expired in this round.
LEMMA SampleRound ==
    ASSUME RoundsOK, NEW s \in SubIds, NEW i \in ItemIds, UA_MonitoredItem_SampleCallback(s, i)
    PROVE  RoundsOK'
<1>1. /\ Idle /\ <<s, i>> \in due /\ due' = due \ {<<s, i>>}
      /\ UNCHANGED <<live, items, phase, expired, calling>>
      /\ \/ UNCHANGED stale
         \/ stale' = {<<s, i>>} /\ (s \notin live \/ i \notin items[s])
  BY DEF UA_MonitoredItem_SampleCallback
<1>2. calling' # 0 => <<calling', 0>> \notin due'
  BY <1>1 DEF Idle
<1>3. CASE UNCHANGED stale
  BY <1>1, <1>2, <1>3, InRound
<1>4. CASE stale' = {<<s, i>>} /\ (s \notin live \/ i \notin items[s])
  <2>1. Rounds'
    BY <1>1, <1>2 DEF RoundsOK, Rounds
  <2>2. i \in 0..MaxItems /\ i # 0
    BY BoundAssumption DEF ItemIds
  <2>3. ~OutOfMemory => s \in expired /\ i # 0
    BY <1>1, <1>4, <2>2 DEF RoundsOK, Rounds
  <2>4. StaleOnlyAfterExpiry'
    BY <1>1, <1>4, <2>3 DEF StaleOnlyAfterExpiry
  <2> QED
    BY <2>1, <2>4 DEF RoundsOK
<1> QED
  BY <1>1, <1>3, <1>4

\* A new round takes jobs that are registered: their data is there.
LEMMA ProcessRound ==
    ASSUME RoundsOK, JobCounts, NEW D \in SUBSET Jobs, UA_RepeatedJobsList_process(D)
    PROVE  RoundsOK'
<1>1. /\ calling = 0 /\ due' = D /\ \A j \in D : timers[j] > 0
      /\ UNCHANGED <<live, items, expired, calling, stale>> /\ phase' = "timer"
  BY DEF UA_RepeatedJobsList_process, NoStep, Idle, subVars, faults
<1>2. ASSUME ~OutOfMemory, NEW s \in SubIds, NEW i \in 0..MaxItems, <<s, i>> \in D
      PROVE  s \in live /\ (i # 0 => i \in items[s])
  <2>1. timers[<<s, i>>] > 0
    BY <1>1, <1>2
  <2>2. CASE i = 0
    <3>1. sub[s].publishJobIsRegistered
      BY <1>2, <2>1, <2>2 DEF JobCounts, Flags
    <3> QED
      BY <2>2, <3>1 DEF JobCounts, Absent
  <2>3. CASE i # 0
    <3>1. i \in ItemIds
      BY <2>3, BoundAssumption DEF ItemIds
    <3>2. mon[s][i].sampleJobIsRegistered
      <4> DEFINE flag == mon[s][i].sampleJobIsRegistered
      <4>1. timers[<<s, i>>] = IF flag THEN 1 ELSE 0
        BY <1>2, <3>1 DEF JobCounts, Flags
      <4> HIDE DEF flag
      <4>2. flag
        BY <2>1, <4>1
      <4> QED
        BY <4>2 DEF flag
    <3>3. i \in items[s]
      BY <3>1, <3>2 DEF JobCounts, Absent
    <3> QED
      BY <3>3 DEF JobCounts, Absent
  <2> QED
    BY <2>2, <2>3
<1>3. Rounds'
  BY <1>1, <1>2 DEF Rounds
<1> QED
  BY <1>1, <1>3 DEF RoundsOK, StaleOnlyAfterExpiry

\* Every step keeps the jobs of a round in line with the lists.
LEMMA StepRound == RoundsOK /\ JobCounts /\ [Next]_vars => RoundsOK'
<1> SUFFICES ASSUME RoundsOK, JobCounts, [Next]_vars PROVE RoundsOK'
  OBVIOUS
<1>1. CASE UNCHANGED vars
  BY <1>1 DEF vars, subVars, faults, RoundsOK, Rounds, StaleOnlyAfterExpiry
<1>2. CASE ItemStep
  <2>1. CASE \E s \in SubIds, i \in ItemIds : UA_MonitoredItem_SampleCallback(s, i)
    BY <2>1, SampleRound
  <2>2. CASE Serve /\ UNCHANGED stale
    BY <2>2, ServeRound
  <2> QED
    BY <1>2, <2>1, <2>2 DEF ItemStep, Service_CreateMonitoredItems,
       Service_CreateMonitoredItems_single, Service_Republish, Service_ModifyMonitoredItems,
       Service_SetMonitoringMode, Service_DeleteMonitoredItems, ItemService, faults
<1>3. CASE SubscriptionStep
  <2>1. Serve /\ UNCHANGED stale
    BY <1>3 DEF SubscriptionStep, Service_CreateSubscription, Service_ModifySubscription,
       Service_SetPublishingMode, Service_DeleteSubscriptions, Service_Publish, faults
  <2> QED
    BY <2>1, ServeRound
<1>4. CASE SessionStep
  <2>1. CASE SessionTimeout \/ removeSession \/ removeSecureChannel \/ Service_ActivateSession
    <3>1. UNCHANGED <<due, live, items, phase, expired, stale, calling>>
      BY <2>1 DEF SessionTimeout, removeSession, removeSecureChannel, Service_ActivateSession,
         Environment, subVars, faults
    <3> QED
      BY <3>1, InRound DEF RoundsOK, Rounds
  <2>2. CASE \E name \in {"channel", "session", "answer"} : DelayedStep(name)
    <3>1. phase # "timer" /\ phase' # "timer" /\ UNCHANGED <<due, stale, expired>>
      BY <2>2 DEF DelayedStep
    <3> QED
      BY <3>1, NoRound
  <2> QED
    BY <1>4, <2>1, <2>2 DEF SessionStep, removeSecureChannelCallback,
       UA_Session_deleteMembersCleanup, UA_Subscription_answerPublishRequestsNoSubscription
<1>5. CASE Loop
  <2>1. CASE RoundDone \/ JobsDone
    <3>1. /\ due' = due /\ phase' # "timer" /\ (phase # "timer" \/ due = {})
          /\ UNCHANGED <<stale, expired>>
      BY <2>1 DEF RoundDone, JobsDone, NoStep, faults
    <3>2. due' = {}
      BY <3>1 DEF RoundsOK, Rounds
    <3> QED
      BY <3>1, <3>2 DEF RoundsOK, Rounds, StaleOnlyAfterExpiry
  <2> QED
    BY <1>5, <2>1, ProcessRound DEF Loop
<1>6. CASE \E s \in SubIds : UA_Subscription_publishCallback(s)
  <2>1. \A s \in SubIds : s # 0
    BY DEF SubIds
  <2> QED
    BY <1>6, <2>1, PublishRound
<1> QED
  BY <1>1, <1>2, <1>3, <1>4, <1>5, <1>6 DEF Next

-----------------------------------------------------------------------------

\* The flags and the lists give the number of the jobs of every callback.
LEMMA CountsMatch == JobCounts => TimersMatch
<1> SUFFICES ASSUME JobCounts, ~OutOfMemory, NEW j \in Jobs
             PROVE  timers[j] = IF /\ j[1] \in live
                                   /\ j[2] # 0 => j[2] \in items[j[1]] /\ mon[j[1]][j[2]].reporting
                                THEN 1 ELSE 0
  BY DEF TimersMatch
<1> DEFINE s == j[1]
           i == j[2]
<1>1. j = <<s, i>> /\ s \in SubIds /\ i \in 0..MaxItems
  BY DEF Jobs
<1>2. Flags /\ Absent /\ Shapes
  BY DEF JobCounts
<1> HIDE DEF s, i
<1>3. CASE i = 0
  BY <1>1, <1>2, <1>3 DEF Flags, Absent, s, i
<1>4. CASE i # 0
  <2>1. i \in ItemIds
    BY <1>1, <1>4, BoundAssumption DEF ItemIds
  <2> DEFINE flag == mon[s][i].sampleJobIsRegistered
             on == mon[s][i].reporting
  <2>2. timers[<<s, i>>] = IF flag THEN 1 ELSE 0
    BY <1>1, <1>2, <2>1 DEF Flags
  <2>3. i \in items[s] => flag = on
    BY <1>1, <1>2, ItemFlag
  <2>4. i \notin items[s] => ~flag
    BY <1>1, <1>2, <2>1 DEF Absent
  <2>5. i \in items[s] => s \in live
    BY <1>1, <1>2 DEF Absent
  <2> HIDE DEF flag, on
  <2>6. timers[j] = IF s \in live /\ i \in items[s] /\ on THEN 1 ELSE 0
    <3>1. timers[j] = IF flag THEN 1 ELSE 0
      BY <1>1, <2>2, Zenon
    <3>2. CASE i \in items[s]
      <4>1. flag = on /\ s \in live
        BY <2>3, <2>5, <3>2, Zenon
      <4>2. timers[j] = IF on THEN 1 ELSE 0
        BY <3>1, <4>1, Zenon
      <4> QED
        BY <3>2, <4>1, <4>2
    <3>3. CASE i \notin items[s]
      <4>1. timers[j] = 0
        BY <2>4, <3>1, <3>3
      <4> QED
        BY <3>3, <4>1
    <3> QED
      BY <3>2, <3>3
  <2> QED
    BY <1>4, <2>6 DEF s, i, on
<1> QED
  BY <1>3, <1>4

\* The inductive invariant of the jobs.
THEOREM JobsInvariance == Spec => []JobsInv
<1>1. JobsInv /\ [Next]_vars => JobsInv'
  BY StepKept, StepRound DEF JobsInv, JobsKept, JobCounts, RoundsOK
<1> QED
  BY <1>1, InitJobs, PTL DEF Spec

\* Every subscription has its publish job and every reporting item its sample
\* job, no other callback has one, a job that runs on freed memory is the sample
\* job of a subscription that expired in its round, and only a late subscription
\* uses up its lifetime.
THEOREM JobsStayMatched == Spec => []JobsMatch
<1>1. JobsInv => JobsMatch
  BY CountsMatch DEF JobsInv, JobCounts, JobsMatch
<1> QED
  BY <1>1, JobsInvariance, PTL

-----------------------------------------------------------------------------
(* Delivery.                                                               *)

Note == [item : Nat, no : Nat]
Message == [seq : Nat, notes : Seq(Note)]

\* The number q[j] of sample j grows along a queue.
Ascending(q) == \A j, k \in 1..Len(q) : j < k => q[j].no < q[k].no

\* The queue of item i holds some of its samples in order, the newest last.
ItemOK(i, m) ==
    /\ IsMon(m)
    /\ m.samples \in Nat /\ m.queue \in Seq(Note)
    /\ m.maxQueueSize \in queueSizeLimits.min..queueSizeLimits.max
    /\ Len(m.queue) <= queueSizeLimits.max
    /\ \A j \in 1..Len(m.queue) : m.queue[j].item = i /\ m.queue[j].no \in 1..m.samples
    /\ Ascending(m.queue)
    /\ m.queue # <<>> => m.queue[Len(m.queue)].no = m.samples

\* The messages S have told x.
Tells(S, x) == \E k \in 1..Len(S) : \E p \in 1..Len(S[k].notes) : S[k].notes[p] = x

\* In one message, and from one message to a later one, the samples of an item
\* go out in their order.
InOrder(notes) ==
    \A p, r \in 1..Len(notes) : notes[p].item = notes[r].item /\ p < r => notes[p].no < notes[r].no

AllInOrder(S) ==
    /\ \A k \in 1..Len(S) : InOrder(S[k].notes)
    /\ \A k, l \in 1..Len(S) :
          k < l => \A p \in 1..Len(S[k].notes), r \in 1..Len(S[l].notes) :
                      S[k].notes[p].item = S[l].notes[r].item => S[k].notes[p].no < S[l].notes[r].no

\* What was told of an item comes before all it still has queued.
ToldBefore(I, M, S) ==
    \A x \in Note : Tells(S, x) /\ x.item \in I =>
        /\ x.no <= M[x.item].samples
        /\ \A j \in 1..Len(M[x.item].queue) : x.no < M[x.item].queue[j].no

\* An item with nothing queued has told its newest sample.
NewestTold(I, M, S) ==
    \A i \in I : M[i].samples > 0 /\ M[i].queue = <<>> => Tells(S, [item |-> i, no |-> M[i].samples])

\* A subscription that has numbered its items up to top, with the items I and
\* their fields M, and its messages S: nothing is told of an item to come.
Delivers(top, I, M, S) ==
    /\ I \subseteq ItemIds /\ I \subseteq 1..top
    /\ \A i \in ItemIds : IF i \in I THEN ItemOK(i, M[i]) ELSE M[i] = NoMon
    /\ S \in Seq(Message) /\ AllInOrder(S)
    /\ \A x \in Note : Tells(S, x) => x.item <= top
    /\ ToldBefore(I, M, S) /\ NewestTold(I, M, S)

\* The retransmission queue q of a subscription that has sent the messages S,
\* of which those numbered A are acknowledged.
Retransmits(q, S, A) ==
    /\ q \in Seq(Message)
    /\ \A k \in 1..Len(S) : S[k].seq = k
    /\ maxRetransmissionQueueSize > 0 => Len(q) <= maxRetransmissionQueueSize
    /\ \A k \in 1..Len(q) : q[k].seq \in 1..Len(S) /\ q[k] = S[q[k].seq]
    /\ \A k, l \in 1..Len(q) : k < l => q[k].seq > q[l].seq
    /\ \A n \in 1..Len(S) :
          \/ \E k \in 1..Len(q) : q[k].seq = n
          \/ n \in A
          \/ maxRetransmissionQueueSize > 0 /\ \A k \in 1..Len(q) : n < q[k].seq

\* The settings of a subscription.
Settings(r) ==
    /\ r.maxKeepAliveCount \in keepAliveCountLimits.min..keepAliveCountLimits.max
    /\ r.lifeTimeCount >= 3 * r.maxKeepAliveCount
    /\ r.notificationsPerPublish \in 1..maxNotificationsPerPublish
    /\ r.publishingEnabled \in BOOLEAN

Subscribed(s) ==
    /\ Settings(sub[s]) /\ sub[s].sequenceNumber = Len(sent[s])
    /\ Delivers(sub[s].lastMonitoredItemId, items[s], mon[s], sent[s])
    /\ Retransmits(sub[s].retransmissionQueue, sent[s], acked[s])

\* Nothing is left of a subscription that is gone, and nothing sent for one to come.
Unsubscribed(s) ==
    /\ sub[s] = NoSub /\ items[s] = {}
    /\ \A i \in ItemIds : mon[s][i] = NoMon
    /\ s > lastSub => sent[s] = <<>>

EverySub ==
    /\ DOMAIN sent = SubIds /\ DOMAIN acked = SubIds
    /\ \A s \in SubIds : IF s \in live THEN Subscribed(s) ELSE Unsubscribed(s)

\* A job that is flagged as registered is on the list, even without memory.
Counted ==
    \A s \in SubIds :
        /\ timers[<<s, 0>>] >= IF sub[s].publishJobIsRegistered THEN 1 ELSE 0
        /\ \A i \in ItemIds :
              timers[<<s, i>>] >= IF mon[s][i].sampleJobIsRegistered THEN 1 ELSE 0

Modes ==
    /\ requests \in 0..MaxRequests
    /\ channel \in {"open", "closing", "none"}
    /\ session \in {"listed", "expired", "removed", "freed"}
    /\ phase \in {"timer", "jobs", "delayed"}
    /\ calling \in live \cup {0}
    /\ fault \in {"none", "channel", "unlinked"}

DeliveryInv == EverySub /\ Counted /\ Modes

-----------------------------------------------------------------------------
(* The queue of an item.                                                   *)

\* t is what remains of q from place d + 1 on.
Window(t, q, d) == t \in Seq(Note) /\ \A j \in 1..Len(t) : j + d \in 1..Len(q) /\ t[j] = q[j + d]

\* n follows m: whatever is queued was queued before or sampled since, and a queue
\* does not become empty.
Follows(n, m) ==
    /\ n.samples \in Nat /\ m.samples \in Nat /\ n.samples >= m.samples
    /\ \A j \in 1..Len(n.queue) : \/ \E k \in 1..Len(m.queue) : n.queue[j] = m.queue[k]
                                  \/ n.queue[j].no > m.samples
    /\ n.queue = <<>> => m.queue = <<>> /\ n.samples = m.samples

\* All but the last.
LEMMA Fronts ==
    ASSUME NEW S, NEW q \in Seq(S), q # <<>>
    PROVE  /\ Front(q) \in Seq(S) /\ Len(Front(q)) = Len(q) - 1
           /\ \A j \in 1..Len(Front(q)) : Front(q)[j] = q[j]
<1> DEFINE l == Len(q)
           t == SubSeq(q, 1, l - 1)
<1>1. l \in Nat /\ l >= 1 /\ \A j \in 1..l : q[j] \in S
  OBVIOUS
<1> HIDE DEF l
<1>2. /\ 1 \in Int /\ l - 1 \in Int /\ (l - 1) - 1 + 1 = l - 1 /\ (1 <= l - 1 \/ l - 1 = 0)
      /\ \A j \in 1..(l - 1) : q[j] \in S /\ 1 + j - 1 = j
  BY <1>1
<1>3. /\ t \in Seq(S) /\ Len(t) = IF 1 <= l - 1 THEN (l - 1) - 1 + 1 ELSE 0
      /\ \A j \in 1..((l - 1) - 1 + 1) : t[j] = q[1 + j - 1]
  BY <1>2, SubSeqProperties
<1> HIDE DEF t
<1>4. t \in Seq(S) /\ Len(t) = l - 1 /\ \A j \in 1..Len(t) : t[j] = q[j]
  BY <1>2, <1>3
<1> QED
  BY <1>4 DEF Front, t, l

\* The limits leave room for one value.
LEMMA Limits ==
    /\ queueSizeLimits.min \in Nat \ {0} /\ queueSizeLimits.max \in Nat
    /\ queueSizeLimits.min <= queueSizeLimits.max
  BY ConfigAssumption DEF IsRange

\* A queue that makes room loses its first or its last value, if any.
LEMMA Room ==
    ASSUME NEW i, NEW m, ItemOK(i, m)
    PROVE  LET t == ensureSpaceInMonitoredItemQueue(m) IN
           Len(t) < queueSizeLimits.max /\ \E d \in {0, 1} : Window(t, m.queue, d)
<1> DEFINE q == m.queue
           n == m.maxQueueSize
           t == ensureSpaceInMonitoredItemQueue(m)
<1>1. /\ q \in Seq(Note) /\ Len(q) \in Nat /\ Len(q) <= queueSizeLimits.max
      /\ n \in Nat \ {0} /\ n <= queueSizeLimits.max
  BY Limits DEF ItemOK
<1>2. CASE Len(q) < n
  <2>1. t = q
    BY <1>2 DEF ensureSpaceInMonitoredItemQueue
  <2>2. Window(q, q, 0)
    BY <1>1 DEF Window
  <2> QED
    BY <1>1, <1>2, <2>1, <2>2, Limits
<1>3. CASE ~(Len(q) < n)
  <2>1. q # <<>> /\ Len(q) >= 1
    BY <1>1, <1>3
  <2>2. CASE t = Tail(q)
    <3>1. /\ Tail(q) \in Seq(Note) /\ Len(Tail(q)) = Len(q) - 1
          /\ \A j \in 1..Len(Tail(q)) : Tail(q)[j] = q[j + 1]
      BY <1>1, <2>1
    <3>2. Window(t, q, 1)
      BY <1>1, <2>2, <3>1 DEF Window
    <3> QED
      BY <1>1, <2>2, <3>1, <3>2, Limits
  <2>3. CASE t = Front(q)
    <3>1. \A j \in 1..(Len(q) - 1) : j \in 1..Len(q)
      BY <1>1
    <3>2. /\ Front(q) \in Seq(Note) /\ Len(Front(q)) = Len(q) - 1
          /\ \A j \in 1..Len(Front(q)) : Front(q)[j] = q[j]
      BY <1>1, <2>1, Fronts
    <3>3. Window(t, q, 0)
      BY <1>1, <2>3, <3>1, <3>2 DEF Window
    <3> QED
      BY <1>1, <2>3, <3>2, <3>3, Limits
  <2> QED
    BY <1>3, <2>2, <2>3 DEF ensureSpaceInMonitoredItemQueue
<1> HIDE DEF t
<1> QED
  BY <1>2, <1>3 DEF t

\* A part of the queue of an item is in order too.
LEMMA Remaining ==
    ASSUME NEW i, NEW m, ItemOK(i, m), NEW d \in Nat, NEW t, Window(t, m.queue, d)
    PROVE  /\ Len(t) \in Nat
           /\ \A j \in 1..Len(t) : t[j].item = i /\ t[j].no \in 1..m.samples
           /\ Ascending(t)
<1>1. /\ t \in Seq(Note) /\ Len(t) \in Nat
      /\ \A j \in 1..Len(t) : j + d \in 1..Len(m.queue) /\ t[j] = m.queue[j + d]
  BY DEF Window
<1>2. /\ \A j \in 1..Len(m.queue) : m.queue[j].item = i /\ m.queue[j].no \in 1..m.samples
      /\ \A j, k \in 1..Len(m.queue) : j < k => m.queue[j].no < m.queue[k].no
  BY DEF ItemOK, Ascending
<1>3. \A j, k \in 1..Len(t) : j < k => j + d < k + d
  BY <1>1
<1> QED
  BY <1>1, <1>2, <1>3 DEF Ascending

\* A sample is queued behind the others, whichever of them makes room for it.
LEMMA SampledItem ==
    ASSUME NEW i \in Nat, NEW m, ItemOK(i, m), NEW v
    PROVE  ItemOK(i, sampled(m, i, v)) /\ Follows(sampled(m, i, v), m)
<1> DEFINE t == ensureSpaceInMonitoredItemQueue(m)
           c == m.samples + 1
           x == [item |-> i, no |-> c]
           q == Append(t, x)
           n == sampled(m, i, v)
<1>1. PICK d \in {0, 1} : Window(t, m.queue, d)
  BY Room
<1>2. Len(t) < queueSizeLimits.max /\ d \in Nat
  BY Room
<1> HIDE DEF t
<1>3. /\ t \in Seq(Note) /\ Len(t) \in Nat
      /\ \A j \in 1..Len(t) : t[j].item = i /\ t[j].no \in 1..m.samples
      /\ \A j, k \in 1..Len(t) : j < k => t[j].no < t[k].no
      /\ \A j \in 1..Len(t) : j + d \in 1..Len(m.queue) /\ t[j] = m.queue[j + d]
  <2>1. /\ Len(t) \in Nat /\ Ascending(t)
        /\ \A j \in 1..Len(t) : t[j].item = i /\ t[j].no \in 1..m.samples
    BY <1>1, <1>2, Remaining
  <2> QED
    BY <1>1, <2>1 DEF Window, Ascending
<1>4. /\ DOMAIN m = DOMAIN NoMon /\ m.reporting \in BOOLEAN
      /\ m.sampleJobIsRegistered \in BOOLEAN
      /\ m.maxQueueSize \in queueSizeLimits.min..queueSizeLimits.max
      /\ m.samples \in Nat
  BY DEF ItemOK, IsMon
<1>5. x \in Note /\ c \in Nat /\ c \in 1..c /\ c > m.samples /\ 1..m.samples \subseteq 1..c
  BY <1>4 DEF Note
<1> HIDE DEF c
<1>6. /\ q \in Seq(Note) /\ Len(q) = Len(t) + 1 /\ q # <<>>
      /\ \A j \in 1..Len(t) : q[j] = t[j]
      /\ q[Len(t) + 1] = x
  BY <1>3, <1>5, AppendProperties
<1> HIDE DEF q
<1>7. /\ n.queue = q /\ n.samples = c /\ DOMAIN n = DOMAIN NoMon
      /\ n.reporting = m.reporting /\ n.sampleJobIsRegistered = m.sampleJobIsRegistered
      /\ n.maxQueueSize = m.maxQueueSize
  BY <1>4 DEF sampled, NoMon, q, t, c
<1> HIDE DEF n
<1>8. \A j \in 1..Len(q) : j \in 1..Len(t) \/ j = Len(t) + 1
  BY <1>3, <1>6
<1>9. \A j \in 1..Len(q) : q[j].item = i /\ q[j].no \in 1..c
  BY <1>3, <1>5, <1>6, <1>8
<1>10. Ascending(q)
  <2> SUFFICES ASSUME NEW j \in 1..Len(q), NEW k \in 1..Len(q), j < k PROVE q[j].no < q[k].no
    BY DEF Ascending
  <2>1. j \in 1..Len(t)
    BY <1>3, <1>6
  <2>2. CASE k \in 1..Len(t)
    BY <1>3, <1>6, <2>1, <2>2
  <2>3. CASE k = Len(t) + 1
    <3>1. t[j].no \in 1..m.samples /\ q[k].no = c
      BY <1>3, <1>6, <2>1, <2>3
    <3> QED
      BY <1>4, <1>5, <1>6, <2>1, <3>1
  <2> QED
    BY <1>8, <2>2, <2>3
<1>11. Len(q) <= queueSizeLimits.max /\ q[Len(q)].no = c
  BY <1>2, <1>3, <1>6, Limits
<1>12. ItemOK(i, n)
  BY <1>4, <1>5, <1>6, <1>7, <1>9, <1>10, <1>11 DEF ItemOK, IsMon
<1>13. Follows(n, m)
  <2>1. ASSUME NEW j \in 1..Len(q)
        PROVE  (\E k \in 1..Len(m.queue) : q[j] = m.queue[k]) \/ q[j].no > m.samples
    <3>1. CASE j \in 1..Len(t)
      BY <1>3, <1>6, <3>1
    <3>2. CASE j = Len(t) + 1
      BY <1>5, <1>6, <3>2
    <3> QED
      BY <1>8, <3>1, <3>2
  <2> QED
    BY <1>4, <1>5, <1>6, <1>7, <2>1 DEF Follows
<1> QED
  BY <1>12, <1>13 DEF n

\* So a sample callback keeps the queue in order.
LEMMA SampleFollows ==
    ASSUME NEW i \in Nat, NEW m, ItemOK(i, m), NEW n \in sampleCallbackWithValue(m, i)
    PROVE  ItemOK(i, n) /\ Follows(n, m)
<1>1. CASE n = m
  BY <1>1 DEF ItemOK, Follows
<1>2. CASE \E v \in Values : n = sampled(m, i, v)
  BY <1>2, SampledItem
<1> QED
  BY <1>1, <1>2 DEF sampleCallbackWithValue

-----------------------------------------------------------------------------
(* What a message takes from the queues.                                   *)

Queues(s) == \A i \in ItemIds : mon[s][i].queue \in Seq(Note)

\* The queues are put one after the other.
LEMMA QueuedRuns ==
    ASSUME NEW s, Queues(s)
    PROVE  LET g == QueuedUpTo(s) IN
           /\ g \in [0..MaxItems -> Seq(Note)] /\ g[0] = <<>>
           /\ \A k \in ItemIds : g[k] = mon[s][k].queue \o g[k-1]
<1> DEFINE T == Seq(Note)
           body(k, t) == mon[s][k].queue \o t
           Runs(g) == g = [k \in 0..MaxItems |-> IF k = 0 THEN <<>> ELSE body(k, g[k-1])]
           upto == CHOOSE g : Runs(g)
           F == [k \in 1..MaxItems |-> [t \in T |-> body(k, t)]]
<1>1. MaxItems \in Nat /\ <<>> \in T
  BY BoundAssumption
<1>2. QueuedUpTo(s) = upto
  BY DEF QueuedUpTo
<1>3. \A k \in 1..MaxItems : \A t \in T : body(k, t) \in T
  BY DEF Queues, ItemIds
<1>4. \E g : Computes(g, MaxItems, T, <<>>, F)
  <2>1. F \in Bodies(MaxItems, T)
    BY <1>3 DEF Bodies
  <2> HIDE DEF F, T
  <2> QED
    BY <1>1, <2>1, Looped
<1>5. \E g \in [0..MaxItems -> T] : Runs(g)
  <2>1. PICK g : Computes(g, MaxItems, T, <<>>, F)
    BY <1>4
  <2>2. g \in [0..MaxItems -> T] /\ g[0] = <<>>
    BY <2>1 DEF Computes
  <2>3. ASSUME NEW k \in 1..MaxItems PROVE g[k] = body(k, g[k-1])
    <3>1. k - 1 \in 0..MaxItems
      BY <1>1
    <3>2. g[k-1] \in T
      BY <2>2, <3>1
    <3>3. g[k] = F[k][g[k-1]]
      BY <2>1 DEF Computes
    <3> HIDE DEF T
    <3> QED
      BY <3>2, <3>3
  <2>4. \A k \in 0..MaxItems : k = 0 \/ k \in 1..MaxItems
    BY <1>1
  <2> QED
    BY <2>2, <2>3, <2>4
<1>6. Runs(upto)
  BY <1>5
<1> HIDE DEF upto
<1>7. /\ upto[0] = <<>>
      /\ \A k \in 1..MaxItems : upto[k] = body(k, upto[k-1])
  <2>1. 0 \in 0..MaxItems /\ \A k \in 1..MaxItems : k \in 0..MaxItems /\ k # 0
    BY <1>1
  <2> QED
    BY <1>6, <2>1
<1> DEFINE P == {k \in 0..MaxItems : upto[k] \in T}
<1>8. P = 0..MaxItems
  <2>0. P \in SUBSET (0..MaxItems)
    OBVIOUS
  <2>1. 0 \in P
    <3>1. 0 \in 0..MaxItems
      BY <1>1
    <3> HIDE DEF T
    <3> QED
      BY <1>1, <1>7, <3>1
  <2>2. ASSUME NEW k \in 1..MaxItems, k - 1 \in P PROVE k \in P
    <3>1. k \in 0..MaxItems /\ upto[k-1] \in T
      BY <2>2
    <3>2. upto[k] = body(k, upto[k-1])
      BY <1>7
    <3> HIDE DEF T
    <3> QED
      BY <1>3, <3>1, <3>2
  <2> HIDE DEF P
  <2> QED
    BY <1>1, <2>0, <2>1, <2>2, UpTo
<1>9. upto \in [0..MaxItems -> T]
  <2>1. DOMAIN upto = 0..MaxItems /\ upto = [k \in 0..MaxItems |-> upto[k]]
    BY <1>6
  <2> QED
    BY <1>8, <2>1
<1> QED
  BY <1>2, <1>7, <1>9 DEF ItemIds

\* Every value queued for the items up to k has its place in what goes out of
\* them, and every place has such a value.
Layout(s, g, k) ==
    /\ \A i \in 1..k :
          /\ Len(g[i]) <= Len(g[k])
          /\ \A j \in 1..Len(mon[s][i].queue) :
                /\ Len(g[k]) - Len(g[i]) + j <= Len(g[k])
                /\ g[k][Len(g[k]) - Len(g[i]) + j] = mon[s][i].queue[j]
    /\ \A p \in 1..Len(g[k]) :
          \E i \in 1..k : \E j \in 1..Len(mon[s][i].queue) : p = Len(g[k]) - Len(g[i]) + j

\* One sequence behind another.
LEMMA Joined ==
    ASSUME NEW S, NEW q \in Seq(S), NEW h \in Seq(S), NEW g, g = q \o h
    PROVE  /\ Len(g) = Len(q) + Len(h)
           /\ \A p \in 1..Len(q) : g[p] = q[p]
           /\ \A p \in 1..Len(h) : g[Len(q) + p] = h[p]
  OBVIOUS

\* One item more goes in front of the others.
LEMMA LaidOut ==
    ASSUME NEW s, NEW k \in ItemIds, NEW g \in [0..MaxItems -> Seq(Note)],
           Queues(s), g[k] = mon[s][k].queue \o g[k-1], Layout(s, g, k - 1)
    PROVE  Layout(s, g, k)
<1> DEFINE q == mon[s][k].queue
           L(i) == Len(g[i])
           W(i) == Len(mon[s][i].queue)
<1>1. MaxItems \in Nat /\ k \in 1..MaxItems /\ k - 1 \in 0..MaxItems /\ k \in 0..MaxItems
  BY BoundAssumption DEF ItemIds
<1>2. q \in Seq(Note) /\ g[k-1] \in Seq(Note)
  BY <1>1 DEF Queues
<1>3. /\ L(k) = W(k) + L(k-1)
      /\ \A p \in 1..W(k) : g[k][p] = q[p]
      /\ \A p \in 1..L(k-1) : g[k][W(k) + p] = g[k-1][p]
  <2> DEFINE h == g[k-1]
             f == g[k]
  <2>1. q \in Seq(Note) /\ h \in Seq(Note) /\ f = q \o h
    BY <1>2
  <2> HIDE DEF q, h, f
  <2>2. /\ Len(f) = Len(q) + Len(h)
        /\ \A p \in 1..Len(q) : f[p] = q[p]
        /\ \A p \in 1..Len(h) : f[Len(q) + p] = h[p]
    BY <2>1, Joined
  <2> QED
    BY <2>2 DEF f, h, q
<1>4. \A i \in 0..k : L(i) \in Nat
  BY <1>1
<1>5. \A i \in 1..k : W(i) \in Nat
  BY <1>1 DEF Queues, ItemIds
<1>6. \A i \in 1..k : i \in 0..k /\ (i = k \/ i \in 1..(k-1))
  BY <1>1
<1>7. \A i \in 1..(k-1) :
         /\ L(i) <= L(k-1)
         /\ \A j \in 1..W(i) : /\ L(k-1) - L(i) + j <= L(k-1)
                              /\ g[k-1][L(k-1) - L(i) + j] = mon[s][i].queue[j]
  BY DEF Layout
<1>8. \A p \in 1..L(k-1) : \E i \in 1..(k-1) : \E j \in 1..W(i) : p = L(k-1) - L(i) + j
  BY DEF Layout
<1>9. W(k) \in Nat /\ L(k) \in Nat /\ L(k-1) \in Nat /\ k \in 1..k
      /\ \A i \in 1..(k-1) : i \in 1..k
  <2>1. k \in 0..k /\ k - 1 \in 0..k /\ k \in 1..k /\ \A i \in 1..(k-1) : i \in 1..k
    BY <1>1
  <2> HIDE DEF L, W
  <2> QED
    BY <1>4, <1>5, <2>1
<1> HIDE DEF L, W, q
<1>10. ASSUME NEW i \in 1..k
       PROVE  /\ L(i) <= L(k)
              /\ \A j \in 1..W(i) : /\ L(k) - L(i) + j <= L(k)
                                   /\ g[k][L(k) - L(i) + j] = mon[s][i].queue[j]
  <2>1. CASE i = k
    <3>1. \A j \in 1..W(k) : L(k) - L(k) + j = j /\ j <= L(k)
      BY <1>3, <1>9
    <3>2. \A j \in 1..W(k) : g[k][L(k) - L(k) + j] = mon[s][k].queue[j]
      BY <1>3, <3>1 DEF q
    <3>3. L(k) <= L(k) /\ \A j \in 1..W(k) : L(k) - L(k) + j <= L(k)
      BY <1>9, <3>1
    <3> QED
      BY <2>1, <3>2, <3>3
  <2>2. CASE i \in 1..(k-1)
    <3>1. L(i) <= L(k-1) /\ L(i) \in Nat /\ W(i) \in Nat
      BY <1>4, <1>5, <1>6, <1>7, <2>2
    <3>2. ASSUME NEW j \in 1..W(i)
          PROVE  /\ L(k) - L(i) + j <= L(k)
                 /\ g[k][L(k) - L(i) + j] = mon[s][i].queue[j]
      <4> DEFINE p == L(k-1) - L(i) + j
      <4>1. p <= L(k-1) /\ g[k-1][p] = mon[s][i].queue[j]
        BY <1>7, <2>2
      <4>2. p \in 1..L(k-1) /\ L(k) - L(i) + j = W(k) + p /\ W(k) + p <= L(k)
        BY <1>3, <1>9, <3>1, <4>1
      <4> HIDE DEF p
      <4> QED
        BY <1>3, <4>1, <4>2
    <3>3. L(i) <= L(k)
      BY <1>3, <1>9, <3>1
    <3> QED
      BY <3>2, <3>3
  <2> QED
    BY <1>6, <2>1, <2>2
<1>11. ASSUME NEW p \in 1..L(k)
       PROVE  \E i \in 1..k : \E j \in 1..W(i) : p = L(k) - L(i) + j
  <2>1. CASE p \in 1..W(k)
    <3>1. p = L(k) - L(k) + p
      BY <1>9, <2>1
    <3> QED
      BY <1>9, <2>1, <3>1
  <2>2. CASE p - W(k) \in 1..L(k-1)
    <3>1. PICK i \in 1..(k-1) : \E j \in 1..W(i) : p - W(k) = L(k-1) - L(i) + j
      BY <1>8, <2>2
    <3>2. PICK j \in 1..W(i) : p - W(k) = L(k-1) - L(i) + j
      BY <3>1
    <3>3. i \in 1..k /\ L(i) \in Nat /\ W(i) \in Nat
      BY <1>4, <1>5, <1>6, <1>9
    <3>4. p \in Int /\ j \in Int /\ L(k) = W(k) + L(k-1)
      BY <1>3, <1>9, <3>3
    <3>5. p = L(k) - L(i) + j
      <4> DEFINE a == W(k)
                 b == L(k-1)
                 c == L(i)
                 d == L(k)
      <4>1. /\ a \in Nat /\ b \in Nat /\ c \in Nat /\ d = a + b /\ p \in Int /\ j \in Int
            /\ p - a = b - c + j
        BY <1>9, <3>2, <3>3, <3>4
      <4> HIDE DEF a, b, c, d
      <4>2. p = d - c + j
        BY <4>1
      <4> QED
        BY <4>2 DEF c, d
    <3> QED
      BY <3>3, <3>5
  <2> QED
    BY <1>3, <1>9, <2>1, <2>2
<1> QED
  BY <1>10, <1>11 DEF Layout, L, W

\* The layout of all that is queued.
LEMMA AllLaidOut ==
    ASSUME NEW s, Queues(s)
    PROVE  Layout(s, QueuedUpTo(s), MaxItems)
<1> DEFINE g == QueuedUpTo(s)
           P == {k \in 0..MaxItems : Layout(s, g, k)}
<1>1. /\ g \in [0..MaxItems -> Seq(Note)] /\ g[0] = <<>>
      /\ \A k \in ItemIds : g[k] = mon[s][k].queue \o g[k-1]
  BY QueuedRuns
<1> HIDE DEF g
<1>2. MaxItems \in Nat /\ 0 \in 0..MaxItems
  BY BoundAssumption
<1>3. 0 \in P
  <2>1. Layout(s, g, 0)
    BY <1>1 DEF Layout
  <2> QED
    BY <1>2, <2>1
<1>4. ASSUME NEW k \in 1..MaxItems, k - 1 \in P PROVE k \in P
  <2>1. k \in ItemIds /\ k \in 0..MaxItems /\ Layout(s, g, k - 1)
    BY <1>2, <1>4 DEF ItemIds
  <2>2. Layout(s, g, k)
    BY <1>1, <2>1, LaidOut
  <2> QED
    BY <2>1, <2>2
<1>5. P = 0..MaxItems
  <2>1. P \in SUBSET (0..MaxItems)
    OBVIOUS
  <2> HIDE DEF P
  <2> QED
    BY <1>2, <1>3, <1>4, <2>1, UpTo
<1> QED
  BY <1>2, <1>5 DEF g

\* The item and the place in its queue of every notification of a message, and
\* the place in the message of every notification that leaves its queue.
TakenFrom(s, n, notes) ==
    /\ notes \in Seq(Note) /\ Len(notes) = n
    /\ \A i \in ItemIds : LeftFor(s, i, n) \in Nat /\ Ahead(s, i) \in Int
    /\ \A p \in 1..n : \E i \in ItemIds : \E j \in 1..Len(mon[s][i].queue) :
          p = Ahead(s, i) + j /\ j <= LeftFor(s, i, n) /\ notes[p] = mon[s][i].queue[j]
    /\ \A i \in ItemIds : \A j \in 1..Len(mon[s][i].queue) :
          j <= LeftFor(s, i, n) => \E p \in 1..n : notes[p] = mon[s][i].queue[j]

\* The first n notifications are taken so.
LEMMA Taken ==
    ASSUME NEW s, Queues(s), NEW n \in Nat, n <= Len(Queued(s))
    PROVE  TakenFrom(s, n, SubSeq(Queued(s), 1, n))
<1> DEFINE g == QueuedUpTo(s)
           q == Queued(s)
           W(i) == Len(mon[s][i].queue)
           A(i) == Ahead(s, i)
           notes == SubSeq(q, 1, n)
<1>1. /\ g \in [0..MaxItems -> Seq(Note)] /\ MaxItems \in Nat /\ q = g[MaxItems]
      /\ Layout(s, g, MaxItems)
  BY BoundAssumption, QueuedRuns, AllLaidOut DEF Queued
<1>2. /\ q \in Seq(Note) /\ Len(q) \in Nat
      /\ \A i \in ItemIds : Len(g[i]) \in Nat /\ W(i) \in Nat
  <2>1. MaxItems \in 0..MaxItems /\ \A i \in ItemIds : i \in 0..MaxItems
    BY <1>1 DEF ItemIds
  <2> HIDE DEF g, q
  <2> QED
    BY <1>1, <2>1 DEF Queues
<1>3. \A i \in ItemIds : A(i) = Len(q) - Len(g[i]) /\ A(i) \in Nat
  <2>1. \A i \in ItemIds : Len(g[i]) <= Len(q)
    BY <1>1 DEF Layout, ItemIds
  <2>2. \A i \in ItemIds : A(i) = Len(q) - Len(g[i])
    BY DEF Ahead
  <2> HIDE DEF g, q, A
  <2> QED
    BY <1>2, <2>1, <2>2
<1>4. \A i \in ItemIds : \A j \in 1..W(i) : A(i) + j <= Len(q) /\ q[A(i) + j] = mon[s][i].queue[j]
  <2>1. \A i \in ItemIds : \A j \in 1..W(i) :
           /\ Len(q) - Len(g[i]) + j <= Len(q)
           /\ q[Len(q) - Len(g[i]) + j] = mon[s][i].queue[j]
    BY <1>1 DEF Layout, ItemIds
  <2> HIDE DEF g, q, A, W
  <2> QED
    BY <1>3, <2>1
<1>5. \A p \in 1..Len(q) : \E i \in ItemIds : \E j \in 1..W(i) : p = A(i) + j
  <2>1. \A p \in 1..Len(q) : \E i \in ItemIds : \E j \in 1..W(i) : p = Len(q) - Len(g[i]) + j
    <3> HIDE DEF g, q
    <3> QED
      BY <1>1, Zenon DEF Layout, ItemIds
  <2> HIDE DEF g, q, A, W
  <2> QED
    BY <1>3, <2>1
<1>6. n <= Len(q) /\ notes = SubSeq(q, 1, n)
  OBVIOUS
<1>7. \A i \in ItemIds : LeftFor(s, i, n) = IF n > A(i) THEN n - A(i) ELSE 0
  BY DEF LeftFor
<1> HIDE DEF g, q, A, W, notes
<1>8. /\ notes \in Seq(Note) /\ Len(notes) = n
      /\ \A p \in 1..n : p \in 1..Len(q) /\ notes[p] = q[p]
  <2>1. /\ \A p \in 1..n : p \in 1..Len(q) /\ q[p] \in Note /\ 1 + p - 1 = p
        /\ 1 \in Int /\ n \in Int
    BY <1>2, <1>6
  <2>2. /\ notes \in Seq(Note) /\ Len(notes) = IF 1 <= n THEN n - 1 + 1 ELSE 0
        /\ \A p \in 1..(n - 1 + 1) : notes[p] = q[1 + p - 1]
    BY <1>6, <2>1, SubSeqProperties
  <2>3. n - 1 + 1 = n /\ (1 <= n \/ n = 0)
    OBVIOUS
  <2> QED
    BY <2>1, <2>2, <2>3
<1>9. \A i \in ItemIds : LeftFor(s, i, n) \in Nat /\ A(i) \in Int
  BY <1>3, <1>7
<1>10. ASSUME NEW p \in 1..n
       PROVE  \E i \in ItemIds : \E j \in 1..W(i) :
                 p = A(i) + j /\ j <= LeftFor(s, i, n) /\ notes[p] = mon[s][i].queue[j]
  <2>1. PICK i \in ItemIds : \E j \in 1..W(i) : p = A(i) + j
    BY <1>5, <1>8
  <2>2. PICK j \in 1..W(i) : p = A(i) + j
    BY <2>1
  <2>3. j <= LeftFor(s, i, n)
    BY <1>2, <1>3, <1>7, <2>2
  <2>4. notes[p] = mon[s][i].queue[j]
    BY <1>4, <1>8, <2>2
  <2> QED
    BY <2>2, <2>3, <2>4
<1>11. ASSUME NEW i \in ItemIds, NEW j \in 1..W(i), j <= LeftFor(s, i, n)
       PROVE  \E p \in 1..n : notes[p] = mon[s][i].queue[j]
  <2>1. A(i) + j \in 1..n
    BY <1>2, <1>3, <1>7, <1>11
  <2> QED
    BY <1>4, <1>8, <2>1
<1> QED
  BY <1>8, <1>9, <1>10, <1>11 DEF A, W, q, notes, TakenFrom

-----------------------------------------------------------------------------
(* What is told and what waits.                                            *)

\* A message more.
LEMMA TellsMore ==
    ASSUME NEW S \in Seq(Message), NEW m \in Message
    PROVE  /\ Append(S, m) \in Seq(Message)
           /\ \A x : Tells(Append(S, m), x)
                    <=> Tells(S, x) \/ \E p \in 1..Len(m.notes) : m.notes[p] = x
<1> DEFINE T == Append(S, m)
<1>1. /\ T \in Seq(Message) /\ Len(T) = Len(S) + 1 /\ Len(S) \in Nat
      /\ \A k \in 1..Len(S) : T[k] = S[k]
      /\ T[Len(S) + 1] = m
  BY AppendProperties
<1> HIDE DEF T
<1>2. \A k \in 1..Len(T) : k \in 1..Len(S) \/ k = Len(S) + 1
  BY <1>1
<1>3. /\ \A k \in 1..Len(S) : k \in 1..Len(T)
      /\ Len(S) + 1 \in 1..Len(T)
  BY <1>1
<1>4. ASSUME NEW x
      PROVE  Tells(T, x) <=> Tells(S, x) \/ \E p \in 1..Len(m.notes) : m.notes[p] = x
  BY <1>1, <1>2, <1>3, Zenon DEF Tells
<1> QED
  BY <1>1, <1>4 DEF T

\* It keeps the order if it is in order and tells nothing older than was told.
LEMMA OrderKept ==
    ASSUME NEW S \in Seq(Message), NEW m \in Message, AllInOrder(S), InOrder(m.notes),
           \A x \in Note : Tells(S, x) =>
               \A r \in 1..Len(m.notes) : m.notes[r].item = x.item => x.no < m.notes[r].no
    PROVE  AllInOrder(Append(S, m))
<1> DEFINE T == Append(S, m)
<1>1. /\ Len(T) = Len(S) + 1 /\ Len(S) \in Nat
      /\ \A k \in 1..Len(S) : T[k] = S[k]
      /\ T[Len(S) + 1] = m
  BY AppendProperties
<1> HIDE DEF T
<1>2. \A k \in 1..Len(T) : k \in 1..Len(S) \/ k = Len(S) + 1
  BY <1>1
<1>3. \A k \in 1..Len(T) : InOrder(T[k].notes)
  BY <1>1, <1>2 DEF AllInOrder
<1>4. ASSUME NEW k \in 1..Len(T), NEW l \in 1..Len(T), k < l,
             NEW p \in 1..Len(T[k].notes), NEW r \in 1..Len(T[l].notes),
             T[k].notes[p].item = T[l].notes[r].item
      PROVE  T[k].notes[p].no < T[l].notes[r].no
  <2>1. k \in 1..Len(S)
    BY <1>1, <1>4
  <2>2. CASE l \in 1..Len(S)
    BY <1>1, <1>4, <2>1, <2>2 DEF AllInOrder
  <2>3. CASE l = Len(S) + 1
    <3>1. T[k].notes = S[k].notes /\ T[l].notes = m.notes
      BY <1>1, <2>1, <2>3
    <3>2. S[k].notes[p] \in Note
      <4>1. S[k] \in Message
        BY <1>1, <2>1
      <4>2. S[k].notes \in Seq(Note)
        BY <4>1 DEF Message
      <4> QED
        BY <3>1, <4>2
    <3>3. Tells(S, S[k].notes[p])
      BY <2>1, <3>1 DEF Tells
    <3> QED
      BY <1>4, <3>1, <3>2, <3>3
  <2> QED
    BY <1>2, <2>2, <2>3
<1> QED
  BY <1>3, <1>4 DEF AllInOrder, T

\* What is left of a queue q after the first c.
LEMMA LeftOver ==
    ASSUME NEW q \in Seq(Note), NEW c \in Nat
    PROVE  LET t == SubSeq(q, c + 1, Len(q)) IN
           /\ Window(t, q, c) /\ Len(q) \in Nat
           /\ Len(t) = IF c < Len(q) THEN Len(q) - c ELSE 0
<1> DEFINE l == Len(q)
           t == SubSeq(q, c + 1, l)
<1>1. l \in Nat /\ \A j \in (c + 1)..l : q[j] \in Note
  OBVIOUS
<1> HIDE DEF l
<1>2. c + 1 \in Int /\ l \in Int
  BY <1>1
<1>3. /\ t \in Seq(Note) /\ Len(t) = IF c + 1 <= l THEN l - (c + 1) + 1 ELSE 0
      /\ \A j \in 1..(l - (c + 1) + 1) : t[j] = q[c + 1 + j - 1]
  BY <1>1, <1>2, SubSeqProperties
<1> HIDE DEF t
<1>4. Len(t) = IF c < l THEN l - c ELSE 0
  BY <1>1, <1>3
<1>5. ASSUME NEW j \in 1..Len(t) PROVE j + c \in 1..l /\ t[j] = q[j + c]
  <2>1. j \in 1..(l - (c + 1) + 1) /\ c + 1 + j - 1 = j + c /\ j + c \in 1..l
    BY <1>1, <1>4
  <2> QED
    BY <1>3, <2>1
<1> QED
  BY <1>1, <1>3, <1>4, <1>5 DEF Window, l, t

\* What a message of n notifications leaves of the items.
Leaves(s, n, M) ==
    \A i \in ItemIds :
        M[i] = [mon[s][i] EXCEPT !.queue = SubSeq(@, LeftFor(s, i, n) + 1, Len(@))]

\* A message of a subscription whose items are numbered up to top, and the queues
\* it leaves.
LEMMA Publishing ==
    ASSUME NEW s, NEW top \in Nat, NEW I, NEW S, Delivers(top, I, mon[s], S),
           NEW n \in Nat, n <= Len(Queued(s)), NEW c \in Nat,
           NEW M, Leaves(s, n, M)
    PROVE  LET m == [seq |-> c, notes |-> SubSeq(Queued(s), 1, n)] IN
           m \in Message /\ Delivers(top, I, M, Append(S, m))
<1> DEFINE left(i) == LeftFor(s, i, n)
           was(i) == mon[s][i].queue
           rest(i) == SubSeq(was(i), left(i) + 1, Len(was(i)))
           notes == SubSeq(Queued(s), 1, n)
           at(i) == Ahead(s, i)
           m == [seq |-> c, notes |-> notes]
<1>1. /\ I \subseteq ItemIds /\ I \subseteq 1..top
      /\ \A i \in ItemIds : IF i \in I THEN ItemOK(i, mon[s][i]) ELSE mon[s][i] = NoMon
      /\ S \in Seq(Message) /\ AllInOrder(S)
      /\ \A x \in Note : Tells(S, x) => x.item <= top
      /\ ToldBefore(I, mon[s], S) /\ NewestTold(I, mon[s], S)
  BY DEF Delivers
<1>2. \A i \in ItemIds : was(i) \in Seq(Note) /\ (i \notin I => was(i) = <<>>)
  <2> SUFFICES ASSUME NEW i \in ItemIds
               PROVE  was(i) \in Seq(Note) /\ (i \notin I => was(i) = <<>>)
    OBVIOUS
  <2>1. CASE i \in I
    <3>1. ItemOK(i, mon[s][i])
      BY <1>1, <2>1
    <3> QED
      BY <2>1, <3>1 DEF ItemOK
  <2>2. CASE i \notin I
    <3>1. mon[s][i] = NoMon
      BY <1>1, <2>2
    <3> QED
      BY <2>2, <3>1 DEF NoMon
  <2> QED
    BY <2>1, <2>2
<1>3. Queues(s)
  BY <1>2 DEF Queues
<1>4. \A i \in I : /\ \A j \in 1..Len(was(i)) :
                           was(i)[j].item = i /\ was(i)[j].no \in 1..mon[s][i].samples
                   /\ Ascending(was(i))
                   /\ was(i) # <<>> => was(i)[Len(was(i))].no = mon[s][i].samples
                   /\ mon[s][i].samples \in Nat
  <2> SUFFICES ASSUME NEW i \in I
               PROVE  /\ \A j \in 1..Len(was(i)) :
                            was(i)[j].item = i /\ was(i)[j].no \in 1..mon[s][i].samples
                      /\ Ascending(was(i))
                      /\ was(i) # <<>> => was(i)[Len(was(i))].no = mon[s][i].samples
                      /\ mon[s][i].samples \in Nat
    OBVIOUS
  <2>1. ItemOK(i, mon[s][i])
    BY <1>1
  <2> QED
    BY <2>1 DEF ItemOK
<1>5. \A i \in ItemIds : \A j \in 1..Len(was(i)) : i \in I
  BY <1>2
<1>6. /\ notes \in Seq(Note) /\ Len(notes) = n
      /\ \A i \in ItemIds : left(i) \in Nat /\ at(i) \in Int
      /\ \A p \in 1..n : \E i \in ItemIds : \E j \in 1..Len(was(i)) :
            p = at(i) + j /\ j <= left(i) /\ notes[p] = was(i)[j]
      /\ \A i \in ItemIds : \A j \in 1..Len(was(i)) :
            j <= left(i) => \E p \in 1..n : notes[p] = was(i)[j]
  <2>1. TakenFrom(s, n, notes)
    BY <1>3, Taken
  <2> HIDE DEF notes
  <2> QED
    BY <2>1 DEF TakenFrom
<1>7. m = [seq |-> c, notes |-> notes] /\ m.notes = notes
  OBVIOUS
<1>8. \A i \in ItemIds : M[i] = [mon[s][i] EXCEPT !.queue = rest(i)]
  BY DEF Leaves
<1> HIDE DEF left, at, was, notes, m
<1>9. m \in Message
  BY <1>6, <1>7 DEF Message
<1>10. \A i \in ItemIds :
          /\ Window(rest(i), was(i), left(i)) /\ Len(was(i)) \in Nat
          /\ Len(rest(i)) = IF left(i) < Len(was(i)) THEN Len(was(i)) - left(i) ELSE 0
  BY <1>2, <1>6, LeftOver
<1> HIDE DEF rest
<1>11. ASSUME NEW i \in ItemIds
       PROVE  /\ M[i].queue = rest(i) /\ M[i].samples = mon[s][i].samples
              /\ IF i \in I THEN ItemOK(i, M[i]) ELSE M[i] = NoMon
  <2>1. CASE i \in I
    <3>1. ItemOK(i, mon[s][i])
      BY <1>1, <2>1
    <3>2. /\ DOMAIN M[i] = DOMAIN NoMon /\ M[i].queue = rest(i)
          /\ M[i].samples = mon[s][i].samples /\ M[i].maxQueueSize = mon[s][i].maxQueueSize
          /\ M[i].reporting = mon[s][i].reporting
          /\ M[i].sampleJobIsRegistered = mon[s][i].sampleJobIsRegistered
      BY <1>8, <3>1 DEF ItemOK, IsMon, NoMon
    <3>3. /\ Len(rest(i)) \in Nat
          /\ \A j \in 1..Len(rest(i)) :
                rest(i)[j].item = i /\ rest(i)[j].no \in 1..mon[s][i].samples
          /\ Ascending(rest(i))
      BY <1>6, <1>10, <3>1, Remaining DEF was
    <3>4. /\ rest(i) \in Seq(Note) /\ Len(rest(i)) <= Len(was(i))
          /\ rest(i) # <<>> => rest(i)[Len(rest(i))] = was(i)[Len(was(i))] /\ was(i) # <<>>
      <4>1. /\ rest(i) \in Seq(Note) /\ left(i) \in Nat /\ Len(was(i)) \in Nat
            /\ Len(rest(i)) = IF left(i) < Len(was(i)) THEN Len(was(i)) - left(i) ELSE 0
            /\ \A j \in 1..Len(rest(i)) : rest(i)[j] = was(i)[j + left(i)]
        BY <1>6, <1>10 DEF Window
      <4>2. rest(i) # <<>> => Len(rest(i)) > 0
        BY <4>1
      <4>3. was(i) = <<>> => Len(was(i)) = 0
        OBVIOUS
      <4>4. ASSUME rest(i) # <<>> PROVE rest(i)[Len(rest(i))] = was(i)[Len(was(i))]
        <5>1. Len(rest(i)) \in 1..Len(rest(i)) /\ Len(rest(i)) + left(i) = Len(was(i))
          BY <4>1, <4>2, <4>4
        <5> QED
          BY <4>1, <5>1
      <4> QED
        BY <4>1, <4>2, <4>3, <4>4
    <3>5. /\ Len(was(i)) \in Nat /\ Len(was(i)) <= queueSizeLimits.max
          /\ was(i) # <<>> => was(i)[Len(was(i))].no = mon[s][i].samples
      BY <1>10, <3>1 DEF ItemOK, was
    <3>6. Len(rest(i)) <= queueSizeLimits.max
      BY <3>3, <3>4, <3>5, Limits
    <3> QED
      BY <2>1, <3>1, <3>2, <3>3, <3>4, <3>5, <3>6 DEF ItemOK, IsMon
  <2>2. CASE i \notin I
    <3>1. mon[s][i] = NoMon /\ was(i) = <<>>
      BY <1>1, <1>2, <2>2
    <3>2. Len(rest(i)) = 0 /\ rest(i) \in Seq(Note)
      BY <1>6, <1>10, <3>1 DEF Window
    <3>3. rest(i) = <<>>
      BY <3>2
    <3> QED
      BY <1>8, <2>2, <3>1, <3>3 DEF NoMon
  <2> QED
    BY <2>1, <2>2
\* A notification of the message, and where it was queued.
<1>13. ASSUME NEW p \in 1..n
       PROVE  LET i == notes[p].item IN
              /\ i \in I /\ notes[p] \in Note
              /\ \E j \in 1..Len(was(i)) : p = at(i) + j /\ j <= left(i) /\ notes[p] = was(i)[j]
  <2>1. PICK i \in ItemIds : \E j \in 1..Len(was(i)) :
            p = at(i) + j /\ j <= left(i) /\ notes[p] = was(i)[j]
    BY <1>6
  <2>2. i \in I /\ notes[p].item = i
    BY <1>4, <1>5, <2>1
  <2>3. notes[p] \in Note
    BY <1>6
  <2> QED
    BY <2>1, <2>2, <2>3
<1>14. InOrder(notes)
  <2> SUFFICES ASSUME NEW p \in 1..n, NEW r \in 1..n, notes[p].item = notes[r].item, p < r
               PROVE  notes[p].no < notes[r].no
    BY <1>6 DEF InOrder
  <2> DEFINE i == notes[p].item
  <2>1. i \in I /\ at(i) \in Int
    BY <1>1, <1>6, <1>13
  <2>2. PICK j \in 1..Len(was(i)) : p = at(i) + j /\ notes[p] = was(i)[j]
    BY <1>13
  <2>3. PICK k \in 1..Len(was(i)) : r = at(i) + k /\ notes[r] = was(i)[k]
    BY <1>13
  <2> HIDE DEF i
  <2>4. j < k
    BY <2>1, <2>2, <2>3
  <2> QED
    BY <1>4, <2>1, <2>2, <2>3, <2>4 DEF Ascending
<1>15. \A x \in Note : Tells(S, x) =>
          \A r \in 1..n : notes[r].item = x.item => x.no < notes[r].no
  <2> SUFFICES ASSUME NEW x \in Note, Tells(S, x), NEW r \in 1..n, notes[r].item = x.item
               PROVE  x.no < notes[r].no
    OBVIOUS
  <2> DEFINE i == x.item
  <2>1. i \in I /\ \E j \in 1..Len(was(i)) : notes[r] = was(i)[j]
    BY <1>13
  <2> HIDE DEF i
  <2>2. \A j \in 1..Len(was(i)) : x.no < was(i)[j].no
    BY <1>1, <2>1 DEF ToldBefore, was, i
  <2> QED
    BY <2>1, <2>2
<1> DEFINE T == Append(S, m)
<1>16. /\ T \in Seq(Message)
       /\ \A x : Tells(T, x) <=> Tells(S, x) \/ \E p \in 1..n : notes[p] = x
  <2>1. /\ T \in Seq(Message)
        /\ \A x : Tells(T, x) <=> Tells(S, x) \/ \E p \in 1..Len(m.notes) : m.notes[p] = x
    BY <1>1, <1>9, TellsMore
  <2>2. 1..Len(m.notes) = 1..n
    BY <1>6, <1>7
  <2> HIDE DEF T
  <2> QED
    BY <1>7, <2>1, <2>2, Zenon
<1>17. AllInOrder(T)
  BY <1>1, <1>6, <1>7, <1>9, <1>14, <1>15, OrderKept
<1> HIDE DEF T
<1>18. \A x \in Note : Tells(T, x) => x.item <= top
  <2>1. ASSUME NEW p \in 1..n PROVE notes[p].item <= top
    <3>1. notes[p].item \in I
      BY <1>13
    <3>2. notes[p].item \in 1..top
      BY <1>1, <3>1
    <3> QED
      BY <3>2
  <2> QED
    BY <1>1, <1>16, <2>1
<1>19. ToldBefore(I, M, T)
  <2> SUFFICES ASSUME NEW x \in Note, Tells(T, x), x.item \in I
               PROVE  /\ x.no <= M[x.item].samples
                      /\ \A j \in 1..Len(M[x.item].queue) : x.no < M[x.item].queue[j].no
    BY DEF ToldBefore
  <2> DEFINE i == x.item
  <2>1. /\ i \in I /\ i \in ItemIds /\ M[i].queue = rest(i) /\ M[i].samples = mon[s][i].samples
        /\ left(i) \in Nat
    BY <1>1, <1>6, <1>11
  <2>2. /\ \A j \in 1..Len(rest(i)) :
              j + left(i) \in 1..Len(was(i)) /\ rest(i)[j] = was(i)[j + left(i)]
        /\ Len(rest(i)) \in Nat
    BY <1>10, <2>1 DEF Window
  <2>3. CASE Tells(S, x)
    <3>1. /\ x.no <= mon[s][i].samples
          /\ \A j \in 1..Len(was(i)) : x.no < was(i)[j].no
      BY <1>1, <2>1, <2>3 DEF ToldBefore, was
    <3> HIDE DEF i
    <3>2. \A j \in 1..Len(rest(i)) : x.no < rest(i)[j].no
      BY <2>2, <3>1
    <3> QED
      BY <2>1, <3>1, <3>2 DEF i
  <2>4. CASE \E p \in 1..n : notes[p] = x
    <3>1. PICK j \in 1..Len(was(i)) : j <= left(i) /\ x = was(i)[j]
      BY <1>13, <2>4
    <3> HIDE DEF i
    <3>2. x.no <= mon[s][i].samples
      BY <1>4, <2>1, <3>1
    <3>3. ASSUME NEW k \in 1..Len(rest(i)) PROVE x.no < rest(i)[k].no
      <4>1. k + left(i) \in 1..Len(was(i)) /\ rest(i)[k] = was(i)[k + left(i)]
        BY <2>2
      <4>2. j < k + left(i)
        BY <2>1, <2>2, <3>1
      <4> QED
        BY <1>4, <2>1, <3>1, <4>1, <4>2 DEF Ascending
    <3> QED
      BY <2>1, <3>2, <3>3 DEF i
  <2> QED
    BY <1>16, <2>3, <2>4
<1>20. NewestTold(I, M, T)
  <2> SUFFICES ASSUME NEW i \in I, M[i].samples > 0, M[i].queue = <<>>
               PROVE  Tells(T, [item |-> i, no |-> M[i].samples])
    BY DEF NewestTold
  <2> DEFINE x == [item |-> i, no |-> mon[s][i].samples]
  <2>1. /\ i \in ItemIds /\ M[i].queue = rest(i) /\ M[i].samples = mon[s][i].samples
        /\ mon[s][i].samples > 0 /\ left(i) \in Nat
    BY <1>1, <1>6, <1>11
  <2>2. CASE was(i) = <<>>
    <3>1. Tells(S, x)
      BY <1>1, <2>1, <2>2 DEF NewestTold, was
    <3> QED
      BY <1>16, <2>1, <3>1
  <2>3. CASE was(i) # <<>>
    <3>1. Len(was(i)) \in 1..Len(was(i)) /\ Len(was(i)) <= left(i)
      <4>1. was(i) \in Seq(Note) /\ Len(was(i)) \in Nat /\ Len(was(i)) # 0
        BY <1>2, <2>1, <2>3
      <4>2. Len(rest(i)) = 0
        BY <2>1
      <4>3. ~(left(i) < Len(was(i)))
        BY <1>10, <2>1, <4>1, <4>2
      <4> QED
        BY <2>1, <4>1, <4>3
    <3> DEFINE y == was(i)[Len(was(i))]
    <3>2. \E p \in 1..n : notes[p] = y
      BY <1>6, <2>1, <3>1
    <3>3. y.item = i /\ y.no = mon[s][i].samples /\ y \in Note
      BY <1>2, <1>4, <2>1, <2>3, <3>1
    <3> HIDE DEF y
    <3>4. y = x
      BY <3>3 DEF Note
    <3> QED
      BY <1>16, <2>1, <3>2, <3>4
  <2> QED
    BY <2>2, <2>3
<1> QED
  BY <1>1, <1>9, <1>11, <1>16, <1>17, <1>18, <1>19, <1>20 DEF Delivers, T, m, notes

\* Item i is sampled or changed, and keeps or adds to what it has queued.
LEMMA ItemFollows ==
    ASSUME NEW top \in Nat, NEW I, NEW M, NEW S, Delivers(top, I, M, S),
           NEW i \in I, NEW N, \A k \in ItemIds : k # i => N[k] = M[k],
           ItemOK(i, N[i]), Follows(N[i], M[i])
    PROVE  Delivers(top, I, N, S)
<1>1. /\ I \subseteq ItemIds /\ I \subseteq 1..top
      /\ \A k \in ItemIds : IF k \in I THEN ItemOK(k, M[k]) ELSE M[k] = NoMon
      /\ S \in Seq(Message) /\ AllInOrder(S)
      /\ \A x \in Note : Tells(S, x) => x.item <= top
      /\ ToldBefore(I, M, S) /\ NewestTold(I, M, S)
  BY DEF Delivers
<1>2. \A k \in ItemIds : IF k \in I THEN ItemOK(k, N[k]) ELSE N[k] = NoMon
  BY <1>1
<1>3. ToldBefore(I, N, S)
  <2> SUFFICES ASSUME NEW x \in Note, Tells(S, x), x.item \in I
               PROVE  /\ x.no <= N[x.item].samples
                      /\ \A j \in 1..Len(N[x.item].queue) : x.no < N[x.item].queue[j].no
    BY DEF ToldBefore
  <2>1. /\ x.no <= M[x.item].samples /\ x.no \in Nat
        /\ \A j \in 1..Len(M[x.item].queue) : x.no < M[x.item].queue[j].no
    BY <1>1 DEF ToldBefore, Note
  <2>2. CASE x.item # i
    <3>1. N[x.item] = M[x.item]
      BY <1>1, <2>2
    <3> QED
      BY <2>1, <3>1
  <2>3. CASE x.item = i
    <3>1. x.no <= N[i].samples
      BY <2>1, <2>3 DEF Follows
    <3>2. ASSUME NEW j \in 1..Len(N[i].queue) PROVE x.no < N[i].queue[j].no
      <4>1. CASE \E k \in 1..Len(M[i].queue) : N[i].queue[j] = M[i].queue[k]
        BY <2>1, <2>3, <4>1
      <4>2. CASE N[i].queue[j].no > M[i].samples
        <5>1. N[i].queue[j].no \in Nat /\ M[i].samples \in Nat
          BY <3>2 DEF ItemOK, Follows
        <5> QED
          BY <2>1, <2>3, <4>2, <5>1
      <4> QED
        BY <3>2, <4>1, <4>2 DEF Follows
    <3> QED
      BY <2>3, <3>1, <3>2
  <2> QED
    BY <2>2, <2>3
<1>4. NewestTold(I, N, S)
  <2> SUFFICES ASSUME NEW k \in I, N[k].samples > 0, N[k].queue = <<>>
               PROVE  Tells(S, [item |-> k, no |-> N[k].samples])
    BY DEF NewestTold
  <2>1. M[k].samples = N[k].samples /\ M[k].queue = <<>>
    BY <1>1 DEF Follows
  <2> QED
    BY <1>1, <2>1 DEF NewestTold
<1> QED
  BY <1>1, <1>2, <1>3, <1>4 DEF Delivers

\* An item more, of which nothing has been told.
LEMMA ItemAdded ==
    ASSUME NEW top \in Nat, NEW I, NEW M, NEW S, Delivers(top, I, M, S),
           NEW i \in ItemIds, i = top + 1,
           NEW N, \A k \in ItemIds : k # i => N[k] = M[k],
           ItemOK(i, N[i]), N[i].queue = <<>> => N[i].samples = 0
    PROVE  Delivers(i, I \cup {i}, N, S)
<1>1. /\ I \subseteq ItemIds /\ I \subseteq 1..top
      /\ \A k \in ItemIds : IF k \in I THEN ItemOK(k, M[k]) ELSE M[k] = NoMon
      /\ S \in Seq(Message) /\ AllInOrder(S)
      /\ \A x \in Note : Tells(S, x) => x.item <= top
      /\ ToldBefore(I, M, S) /\ NewestTold(I, M, S)
  BY DEF Delivers
<1>2. \A k \in ItemIds : IF k \in I \cup {i} THEN ItemOK(k, N[k]) ELSE N[k] = NoMon
  BY <1>1
<1>3. \A x \in Note : Tells(S, x) => x.item \in Nat /\ x.item # i /\ x.item <= i
  BY <1>1 DEF Note
<1>4. \A k \in I : k # i /\ N[k] = M[k]
  BY <1>1
<1>5. ToldBefore(I \cup {i}, N, S)
  <2> SUFFICES ASSUME NEW x \in Note, Tells(S, x), x.item \in I \cup {i}
               PROVE  /\ x.no <= N[x.item].samples
                      /\ \A j \in 1..Len(N[x.item].queue) : x.no < N[x.item].queue[j].no
    BY DEF ToldBefore
  <2>1. x.item \in I /\ N[x.item] = M[x.item]
    BY <1>3, <1>4
  <2> QED
    BY <1>1, <2>1 DEF ToldBefore
<1>6. NewestTold(I \cup {i}, N, S)
  BY <1>1, <1>4 DEF NewestTold
<1>7. I \cup {i} \subseteq ItemIds /\ I \cup {i} \subseteq 1..i
  BY <1>1
<1> QED
  BY <1>1, <1>2, <1>3, <1>5, <1>6, <1>7 DEF Delivers

\* An item less; what was told of it stays.
LEMMA ItemDeleted ==
    ASSUME NEW top \in Nat, NEW I, NEW M, NEW S, Delivers(top, I, M, S),
           NEW i \in I, NEW N, \A k \in ItemIds : k # i => N[k] = M[k], N[i] = NoMon
    PROVE  Delivers(top, I \ {i}, N, S)
<1>1. /\ I \subseteq ItemIds /\ I \subseteq 1..top
      /\ \A k \in ItemIds : IF k \in I THEN ItemOK(k, M[k]) ELSE M[k] = NoMon
      /\ S \in Seq(Message) /\ AllInOrder(S)
      /\ \A x \in Note : Tells(S, x) => x.item <= top
      /\ ToldBefore(I, M, S) /\ NewestTold(I, M, S)
  BY DEF Delivers
<1>2. \A k \in ItemIds : IF k \in I \ {i} THEN ItemOK(k, N[k]) ELSE N[k] = NoMon
  BY <1>1
<1>3. \A k \in I \ {i} : N[k] = M[k]
  BY <1>1
<1>4. ToldBefore(I \ {i}, N, S) /\ NewestTold(I \ {i}, N, S)
  <2>1. ToldBefore(I \ {i}, M, S) /\ NewestTold(I \ {i}, M, S)
    BY <1>1 DEF ToldBefore, NewestTold
  <2> QED
    BY <1>3, <2>1 DEF ToldBefore, NewestTold
<1>5. I \ {i} \subseteq ItemIds /\ I \ {i} \subseteq 1..top
  BY <1>1
<1> QED
  BY <1>1, <1>2, <1>4, <1>5 DEF Delivers

\* The settings of an item leave its queue alone.
LEMMA ItemSet ==
    ASSUME NEW i, NEW m, ItemOK(i, m), NEW n, IsMon(n),
           n.samples = m.samples, n.queue = m.queue,
           n.maxQueueSize \in queueSizeLimits.min..queueSizeLimits.max
    PROVE  ItemOK(i, n) /\ Follows(n, m)
  BY DEF ItemOK, Follows

\* The messages of a subscription with no items.
LEMMA NothingTold ==
    ASSUME NEW M, \A i \in ItemIds : M[i] = NoMon
    PROVE  Delivers(0, {}, M, <<>>)
  BY DEF Delivers, AllInOrder, Tells, ToldBefore, NewestTold

-----------------------------------------------------------------------------
(* The retransmission queue.                                               *)

\* A message more at the head; the last one makes room.
LEMMA Added ==
    ASSUME NEW q, NEW S \in Seq(Message), NEW A, Retransmits(q, S, A),
           NEW m \in Message, m.seq = Len(S) + 1
    PROVE  Retransmits(UA_Subscription_addRetransmissionMessage(q, m), Append(S, m), A)
<1> DEFINE full == maxRetransmissionQueueSize > 0 /\ Len(q) >= maxRetransmissionQueueSize
           c == IF full THEN Len(q) - 1 ELSE Len(q)
           f == IF full THEN Front(q) ELSE q
           p == UA_Subscription_addRetransmissionMessage(q, m)
           T == Append(S, m)
<1>1. /\ q \in Seq(Message) /\ \A k \in 1..Len(S) : S[k].seq = k
      /\ maxRetransmissionQueueSize > 0 => Len(q) <= maxRetransmissionQueueSize
      /\ \A k \in 1..Len(q) : q[k].seq \in 1..Len(S) /\ q[k] = S[q[k].seq]
      /\ \A k, l \in 1..Len(q) : k < l => q[k].seq > q[l].seq
      /\ \A n \in 1..Len(S) :
            \/ \E k \in 1..Len(q) : q[k].seq = n
            \/ n \in A
            \/ maxRetransmissionQueueSize > 0 /\ \A k \in 1..Len(q) : n < q[k].seq
  BY DEF Retransmits
<1>2. /\ T \in Seq(Message) /\ Len(T) = Len(S) + 1 /\ Len(S) \in Nat
      /\ \A k \in 1..Len(S) : T[k] = S[k]
      /\ T[Len(S) + 1] = m
  BY AppendProperties
<1>3. Len(q) \in Nat /\ maxRetransmissionQueueSize \in Nat
  BY <1>1, ConfigAssumption
<1>4. f \in Seq(Message) /\ Len(f) = c /\ \A k \in 1..c : k \in 1..Len(q) /\ f[k] = q[k]
  <2>1. CASE full
    <3>1. q # <<>> /\ Len(q) >= 1
      BY <1>3, <2>1
    <3>2. \A j \in 1..(Len(q) - 1) : j \in 1..Len(q)
      BY <1>3
    <3>3. /\ Front(q) \in Seq(Message) /\ Len(Front(q)) = Len(q) - 1
          /\ \A j \in 1..Len(Front(q)) : Front(q)[j] = q[j]
      BY <1>1, <3>1, Fronts
    <3> QED
      BY <2>1, <3>2, <3>3
  <2>2. CASE ~full
    BY <1>1, <2>2
  <2> QED
    BY <2>1, <2>2
<1>5. p = <<m>> \o f
  BY DEF UA_Subscription_addRetransmissionMessage
<1>6. /\ c \in Nat /\ c <= Len(q)
      /\ maxRetransmissionQueueSize > 0 => c + 1 <= maxRetransmissionQueueSize
  BY <1>1, <1>3
<1>7. \A k \in 1..Len(q) : k \in 1..c \/ (full /\ k = Len(q))
  BY <1>3
<1> HIDE DEF p, T, f, c
<1>8. /\ p \in Seq(Message) /\ Len(p) = c + 1 /\ p[1] = m
      /\ \A k \in 1..c : p[k + 1] = q[k]
  <2>1. /\ p \in Seq(Message) /\ Len(p) = Len(f) + 1 /\ p[1] = m
        /\ \A k \in 1..Len(f) : p[k + 1] = f[k]
    BY <1>4, <1>5
  <2> QED
    BY <1>4, <2>1
<1>9. \A k \in 1..Len(p) : k = 1 \/ (k - 1 \in 1..c /\ (k - 1) + 1 = k)
  BY <1>6, <1>8
<1>10. /\ 1 \in 1..Len(p) /\ \A k \in 1..c : k + 1 \in 1..Len(p)
       /\ \A k \in 1..Len(S) : k \in 1..Len(T)
       /\ \A k \in 1..Len(T) : k \in 1..Len(S) \/ k = Len(S) + 1
       /\ Len(S) + 1 \in 1..Len(T)
  BY <1>2, <1>6, <1>8
<1>11. \A k \in 1..c : q[k].seq \in 1..Len(S) /\ q[k] = S[q[k].seq] /\ q[k].seq \in Nat
  BY <1>1, <1>4
<1>12. \A k \in 1..Len(T) : T[k].seq = k
  BY <1>1, <1>2, <1>10
<1>13. ASSUME NEW k \in 1..Len(p) PROVE p[k].seq \in 1..Len(T) /\ p[k] = T[p[k].seq]
  <2>1. CASE k = 1
    BY <1>2, <1>8, <1>10, <2>1
  <2>2. CASE k - 1 \in 1..c /\ (k - 1) + 1 = k
    <3>1. p[k] = q[k - 1]
      BY <1>8, <2>2
    <3> QED
      BY <1>2, <1>10, <1>11, <2>2, <3>1
  <2> QED
    BY <1>9, <2>1, <2>2
<1>14. ASSUME NEW k \in 1..Len(p), NEW l \in 1..Len(p), k < l PROVE p[k].seq > p[l].seq
  <2>1. l - 1 \in 1..c /\ p[l] = q[l - 1]
    <3>1. l # 1
      BY <1>14
    <3> QED
      BY <1>8, <1>9, <3>1
  <2>2. CASE k = 1
    <3>1. p[l].seq \in 1..Len(S) /\ p[k].seq = Len(S) + 1
      BY <1>8, <1>11, <2>1, <2>2
    <3> QED
      BY <1>2, <3>1
  <2>3. CASE k - 1 \in 1..c /\ (k - 1) + 1 = k
    <3>1. p[k] = q[k - 1] /\ k - 1 \in 1..Len(q) /\ l - 1 \in 1..Len(q)
      BY <1>4, <1>8, <2>1, <2>3
    <3>2. k - 1 < l - 1
      BY <1>14
    <3> QED
      BY <1>1, <2>1, <3>1, <3>2
  <2> QED
    BY <1>9, <2>2, <2>3
<1>15. ASSUME NEW n \in 1..Len(T), n \notin A, ~\E k \in 1..Len(p) : p[k].seq = n
       PROVE  maxRetransmissionQueueSize > 0 /\ \A k \in 1..Len(p) : n < p[k].seq
  <2>1. n # Len(S) + 1 /\ n \in 1..Len(S)
    BY <1>8, <1>10, <1>15
  <2>2. \A k \in 1..c : q[k].seq # n
    BY <1>8, <1>10, <1>15
  <2>3. maxRetransmissionQueueSize > 0 /\ \A k \in 1..c : n < q[k].seq
    <3>1. CASE \E k \in 1..Len(q) : q[k].seq = n
      <4>1. PICK k \in 1..Len(q) : q[k].seq = n
        BY <3>1
      <4>2. full /\ k = Len(q)
        BY <1>7, <2>2, <4>1
      <4>3. \A l \in 1..c : l \in 1..Len(q) /\ l < k
        BY <1>3, <1>4, <4>2 DEF c
      <4> QED
        BY <1>1, <4>1, <4>2, <4>3
    <3>2. CASE ~\E k \in 1..Len(q) : q[k].seq = n
      BY <1>1, <1>4, <1>15, <2>1, <3>2
    <3> QED
      BY <3>1, <3>2
  <2>4. n < m.seq
    BY <1>2, <2>1
  <2>5. ASSUME NEW k \in 1..Len(p) PROVE n < p[k].seq
    <3>1. CASE k = 1
      BY <1>8, <2>4, <3>1
    <3>2. CASE k - 1 \in 1..c /\ (k - 1) + 1 = k
      <4>1. p[k] = q[k - 1]
        BY <1>8, <3>2
      <4> QED
        BY <2>3, <3>2, <4>1
    <3> QED
      BY <1>9, <3>1, <3>2
  <2> QED
    BY <2>3, <2>5
<1>16. maxRetransmissionQueueSize > 0 => Len(p) <= maxRetransmissionQueueSize
  BY <1>6, <1>8
<1> QED
  BY <1>8, <1>12, <1>13, <1>14, <1>15, <1>16 DEF Retransmits, T, p

\* The first message numbered in N leaves the queue, if there is one.
LEMMA Removed ==
    ASSUME NEW q \in Seq(Message), NEW N
    PROVE  LET p == UA_Subscription_removeRetransmissionMessage(q, N) IN
           \/ p = q
           \/ \E r \in 1..Len(q) :
                 /\ q[r].seq \in N
                 /\ p \in Seq(Message) /\ Len(p) = Len(q) - 1
                 /\ \A k \in 1..Len(p) : p[k] = q[IF k < r THEN k ELSE k + 1]
<1> DEFINE D == {i \in 1..Len(q) : q[i].seq \in N}
           p == UA_Subscription_removeRetransmissionMessage(q, N)
<1>1. Len(q) \in Nat /\ D \in SUBSET (0..Len(q))
  OBVIOUS
<1>2. p = IF \E i \in 1..Len(q) : q[i].seq \in N THEN RemoveAt(q, Min(D)) ELSE q
  BY Zenon DEF UA_Subscription_removeRetransmissionMessage, RemoveFirstMatch, SelectInSeq
<1> HIDE DEF p
<1>3. CASE D = {}
  BY <1>2, <1>3 DEF p
<1>4. CASE D # {}
  <2> DEFINE r == Min(D)
  <2>1. r \in D
    <3> HIDE DEF D
    <3>1. \E x \in D : \A y \in D : x <= y
      BY <1>1, <1>4, LeastNumber
    <3>2. r = CHOOSE x \in D : \A y \in D : x <= y
      BY DEF Min
    <3> QED
      BY <3>1, <3>2
  <2> HIDE DEF r
  <2>2. r \in 1..Len(q) /\ q[r].seq \in N /\ p = RemoveAt(q, r)
    BY <1>2, <2>1 DEF r
  <2>3. Len(q) - 1 \in Nat /\ \A k \in 1..(Len(q) - 1) :
           /\ (IF k < r THEN k ELSE k + 1) \in 1..Len(q)
           /\ k \in Nat
    BY <1>1, <2>2
  <2>4. p = SubSeq(q, 1, r - 1) \o SubSeq(q, r + 1, Len(q))
    BY <2>2 DEF RemoveAt
  <2> DEFINE a == SubSeq(q, 1, r - 1)
             b == SubSeq(q, r + 1, Len(q))
  <2>5. a \in Seq(Message) /\ Len(a) = r - 1 /\ \A k \in 1..(r - 1) : a[k] = q[k]
    <3>1. /\ r \in Int /\ 1 \in Int /\ r - 1 \in Int
          /\ \A k \in 1..(r - 1) : k \in 1..Len(q) /\ 1 + k - 1 = k
      BY <1>1, <2>2
    <3>2. /\ a \in Seq(Message) /\ Len(a) = IF 1 <= r - 1 THEN (r - 1) - 1 + 1 ELSE 0
          /\ \A k \in 1..((r - 1) - 1 + 1) : a[k] = q[1 + k - 1]
      BY <3>1, SubSeqProperties
    <3>3. (r - 1) - 1 + 1 = r - 1 /\ (1 <= r - 1 \/ r - 1 = 0)
      BY <2>2
    <3> QED
      BY <3>1, <3>2, <3>3
  <2>6. b \in Seq(Message) /\ Len(b) = Len(q) - r /\ \A k \in 1..(Len(q) - r) : b[k] = q[r + k]
    <3> DEFINE l == Len(q)
    <3>1. r \in Nat /\ l \in Nat /\ r <= l /\ \A k \in (r + 1)..l : k \in 1..l /\ q[k] \in Message
      BY <1>1, <2>2
    <3> HIDE DEF l
    <3>2. r + 1 \in Int /\ l \in Int /\ \A k \in 1..(l - r) : (r + 1) + k - 1 = r + k
      BY <3>1
    <3>3. SubSeq(q, r + 1, l) \in Seq(Message)
      BY <3>1, <3>2, SubSeqProperties DEF l
    <3>4. Len(SubSeq(q, r + 1, l)) = IF r + 1 <= l THEN l - (r + 1) + 1 ELSE 0
      BY <3>1, <3>2, SubSeqProperties DEF l
    <3>5. \A k \in 1..(l - (r + 1) + 1) : SubSeq(q, r + 1, l)[k] = q[(r + 1) + k - 1]
      BY <3>1, <3>2, SubSeqProperties DEF l
    <3>6. l - (r + 1) + 1 = l - r /\ (r + 1 <= l \/ l - r = 0)
      BY <3>1
    <3> QED
      BY <3>2, <3>3, <3>4, <3>5, <3>6 DEF l
  <2> HIDE DEF a, b
  <2>7. p = a \o b
    BY <2>4 DEF a, b
  <2>8. /\ p \in Seq(Message) /\ Len(p) = Len(a) + Len(b)
        /\ \A k \in 1..Len(a) : p[k] = a[k]
        /\ \A k \in 1..Len(b) : p[Len(a) + k] = b[k]
    <3>1. a \in Seq(Message) /\ b \in Seq(Message)
      BY <2>5, <2>6
    <3>2. p \in Seq(Message)
      BY <2>7, <3>1
    <3>3. /\ Len(p) = Len(a) + Len(b)
          /\ \A k \in 1..Len(a) : p[k] = a[k]
          /\ \A k \in 1..Len(b) : p[Len(a) + k] = b[k]
      BY <2>7, <3>1, Joined
    <3> QED
      BY <3>2, <3>3
  <2>9. Len(p) = Len(q) - 1
    BY <1>1, <2>2, <2>5, <2>6, <2>8
  <2>10. ASSUME NEW k \in 1..Len(p) PROVE p[k] = q[IF k < r THEN k ELSE k + 1]
    <3>1. CASE k < r
      BY <1>1, <2>2, <2>5, <2>8, <2>9, <3>1
    <3>2. CASE ~(k < r)
      <4> DEFINE j == k - (r - 1)
      <4>1. j \in 1..(Len(q) - r) /\ Len(a) + j = k /\ r + j = k + 1 /\ j \in 1..Len(b)
        BY <1>1, <2>2, <2>5, <2>6, <2>9, <3>2
      <4> HIDE DEF j
      <4> QED
        BY <2>6, <2>8, <3>2, <4>1
    <3> QED
      BY <3>1, <3>2
  <2> QED
    BY <2>2, <2>8, <2>9, <2>10 DEF p
<1> QED
  BY <1>3, <1>4 DEF p

\* What is removed is acknowledged.
LEMMA Kept ==
    ASSUME NEW q, NEW S, NEW A, Retransmits(q, S, A), NEW N
    PROVE  Retransmits(UA_Subscription_removeRetransmissionMessage(q, N), S, A \cup N)
<1> DEFINE p == UA_Subscription_removeRetransmissionMessage(q, N)
<1>1. /\ q \in Seq(Message) /\ \A k \in 1..Len(S) : S[k].seq = k
      /\ maxRetransmissionQueueSize > 0 => Len(q) <= maxRetransmissionQueueSize
      /\ \A k \in 1..Len(q) : q[k].seq \in 1..Len(S) /\ q[k] = S[q[k].seq]
      /\ \A k, l \in 1..Len(q) : k < l => q[k].seq > q[l].seq
      /\ \A n \in 1..Len(S) :
            \/ \E k \in 1..Len(q) : q[k].seq = n
            \/ n \in A
            \/ maxRetransmissionQueueSize > 0 /\ \A k \in 1..Len(q) : n < q[k].seq
  BY DEF Retransmits
<1>2. Len(q) \in Nat /\ maxRetransmissionQueueSize \in Nat
  BY <1>1, ConfigAssumption
<1>3. CASE p = q
  BY <1>1, <1>3 DEF Retransmits
<1>4. CASE p # q
  <2>1. PICK r \in 1..Len(q) :
             /\ q[r].seq \in N
             /\ p \in Seq(Message) /\ Len(p) = Len(q) - 1
             /\ \A k \in 1..Len(p) : p[k] = q[IF k < r THEN k ELSE k + 1]
    BY <1>1, <1>4, Removed
  <2> HIDE DEF p
  <2> DEFINE at(k) == IF k < r THEN k ELSE k + 1
  <2>2. \A k \in 1..Len(p) : at(k) \in 1..Len(q) /\ p[k] = q[at(k)]
    BY <1>2, <2>1
  <2>3. \A k, l \in 1..Len(p) : k < l => at(k) < at(l)
    BY <1>2, <2>1
  <2>4. \A k \in 1..Len(q) : k = r \/ \E j \in 1..Len(p) : at(j) = k
    <3> SUFFICES ASSUME NEW k \in 1..Len(q), k # r PROVE \E j \in 1..Len(p) : at(j) = k
      OBVIOUS
    <3>1. CASE k < r
      <4>1. k \in 1..Len(p) /\ at(k) = k
        BY <1>2, <2>1, <3>1
      <4> QED
        BY <4>1
    <3>2. CASE k > r
      <4>1. k - 1 \in 1..Len(p) /\ at(k - 1) = k
        BY <1>2, <2>1, <3>2
      <4> QED
        BY <4>1
    <3> QED
      BY <3>1, <3>2
  <2> HIDE DEF at
  <2>5. /\ \A k \in 1..Len(p) : p[k].seq \in 1..Len(S) /\ p[k] = S[p[k].seq]
        /\ \A k, l \in 1..Len(p) : k < l => p[k].seq > p[l].seq
    BY <1>1, <2>2, <2>3
  <2>6. ASSUME NEW n \in 1..Len(S), n \notin A \cup N, ~\E k \in 1..Len(p) : p[k].seq = n
        PROVE  maxRetransmissionQueueSize > 0 /\ \A k \in 1..Len(p) : n < p[k].seq
    <3>1. ASSUME NEW k \in 1..Len(q) PROVE q[k].seq # n
      <4>1. CASE k = r
        BY <2>1, <2>6, <4>1
      <4>2. CASE \E j \in 1..Len(p) : at(j) = k
        BY <2>2, <2>6, <4>2
      <4> QED
        BY <2>4, <4>1, <4>2
    <3>2. maxRetransmissionQueueSize > 0 /\ \A k \in 1..Len(q) : n < q[k].seq
      BY <1>1, <2>6, <3>1
    <3> QED
      BY <2>2, <3>2
  <2>7. maxRetransmissionQueueSize > 0 => Len(p) <= maxRetransmissionQueueSize
    BY <1>1, <1>2, <2>1
  <2> QED
    BY <1>1, <2>1, <2>5, <2>6, <2>7 DEF Retransmits, p
<1> QED
  BY <1>3, <1>4

-----------------------------------------------------------------------------
(* Steps: delivery.                                                        *)

\* The record of s may change, but neither its messages nor the numbers of its
\* items, and its settings stay in their limits.
SubKept(s) ==
    /\ \A x \in SubIds \ {s} : sub'[x] = sub[x]
    /\ Settings(sub[s]) => Settings(sub'[s])
    /\ sub'[s].sequenceNumber = sub[s].sequenceNumber
    /\ sub'[s].lastMonitoredItemId = sub[s].lastMonitoredItemId
    /\ sub'[s].retransmissionQueue = sub[s].retransmissionQueue

\* Only the subscription s changes; what it has and has sent is in order.
LEMMA OneDelivery ==
    ASSUME Shapes, EverySub, NEW s \in SubIds,
           \A x \in SubIds \ {s} :
              /\ x \in live' <=> x \in live
              /\ sub'[x] = sub[x] /\ items'[x] = items[x] /\ mon'[x] = mon[x]
              /\ sent'[x] = sent[x] /\ acked'[x] = acked[x],
           DOMAIN sent' = SubIds, DOMAIN acked' = SubIds,
           lastSub' = lastSub \/ lastSub' = lastSub + 1,
           s \in live', Subscribed(s)'
    PROVE  EverySub'
<1> SUFFICES ASSUME NEW x \in SubIds
             PROVE  IF x \in live' THEN Subscribed(x)' ELSE Unsubscribed(x)'
  BY DEF EverySub
<1>1. x \in Int /\ lastSub \in Int
  BY BoundAssumption DEF Shapes, SubIds
<1>2. CASE x = s
  BY <1>2
<1>3. CASE x # s
  <2>1. /\ x \in live' <=> x \in live
        /\ sub'[x] = sub[x] /\ items'[x] = items[x] /\ mon'[x] = mon[x]
        /\ sent'[x] = sent[x] /\ acked'[x] = acked[x]
    BY <1>3
  <2>2. CASE x \in live
    <3>1. Subscribed(x)
      BY <2>2 DEF EverySub
    <3>2. Subscribed(x)'
      BY <2>1, <3>1 DEF Subscribed
    <3> QED
      BY <2>1, <2>2, <3>2
  <2>3. CASE x \notin live
    <3>1. Unsubscribed(x)
      BY <2>3 DEF EverySub
    <3>2. x > lastSub' => x > lastSub
      BY <1>1
    <3>3. Unsubscribed(x)'
      BY <2>1, <3>1, <3>2 DEF Unsubscribed
    <3> QED
      BY <2>1, <2>3, <3>3
  <2> QED
    BY <2>2, <2>3
<1> QED
  BY <1>2, <1>3

\* Nothing changes.
LEMMA UnchangedDelivery == EverySub /\ UNCHANGED <<subVars, messages>> => EverySub'
<1> SUFFICES ASSUME EverySub, UNCHANGED <<subVars, messages>> PROVE EverySub'
  OBVIOUS
<1>1. /\ live' = live /\ sub' = sub /\ items' = items /\ mon' = mon /\ lastSub' = lastSub
      /\ sent' = sent /\ acked' = acked
  BY DEF subVars, messages
<1>2. ASSUME NEW x \in SubIds PROVE IF x \in live' THEN Subscribed(x)' ELSE Unsubscribed(x)'
  <2>1. IF x \in live THEN Subscribed(x) ELSE Unsubscribed(x)
    BY DEF EverySub
  <2> QED
    BY <1>1, <2>1 DEF Subscribed, Unsubscribed
<1> QED
  BY <1>1, <1>2 DEF EverySub

\* The services on items renew a lifetime, or do not touch the subscription.
LEMMA RenewedData ==
    ASSUME Shapes, NEW s \in SubIds, UNCHANGED sub \/ sub' = Renewed(s)
    PROVE  SubKept(s)
<1>1. IsSub(sub[s]) /\ DOMAIN sub = SubIds
  BY DEF Shapes
<1>2. CASE UNCHANGED sub
  BY <1>2 DEF SubKept
<1>3. CASE sub' = Renewed(s)
  <2> DEFINE r == [sub[s] EXCEPT !.currentLifetimeCount = 0]
  <2>1. sub'[s] = r /\ \A x \in SubIds \ {s} : sub'[x] = sub[x]
    BY <1>1, <1>3 DEF Renewed
  <2>2. /\ Settings(sub[s]) => Settings(r)
        /\ r.sequenceNumber = sub[s].sequenceNumber
        /\ r.lastMonitoredItemId = sub[s].lastMonitoredItemId
        /\ r.retransmissionQueue = sub[s].retransmissionQueue
    BY <1>1 DEF IsSub, NoSub, Settings
  <2> QED
    BY <2>1, <2>2 DEF SubKept
<1> QED
  BY <1>2, <1>3

\* A step that keeps the records, and the items and messages altogether.
LEMMA SubDelivery ==
    ASSUME Shapes, EverySub, NEW s \in live, SubKept(s),
           UNCHANGED <<live, lastSub, items, mon, sent, acked>>
    PROVE  EverySub'
<1>1. s \in SubIds
  BY LiveIds
<1>2. Subscribed(s) /\ DOMAIN sent = SubIds /\ DOMAIN acked = SubIds
  BY <1>1 DEF EverySub
<1>3. Subscribed(s)'
  BY <1>2 DEF Subscribed, SubKept
<1> QED
  BY <1>1, <1>2, <1>3, OneDelivery DEF SubKept

\* One item of s changes and keeps, or adds to, what it has queued.
LEMMA ItemDelivery ==
    ASSUME Shapes, EverySub, NEW s \in live, NEW i \in items[s], SubKept(s),
           NEW m, ItemOK(i, m), Follows(m, mon[s][i]), mon' = [mon EXCEPT ![s][i] = m],
           UNCHANGED <<live, lastSub, items, sent, acked>>
    PROVE  EverySub'
<1>1. s \in SubIds /\ DOMAIN mon = SubIds /\ DOMAIN mon[s] = ItemIds /\ i \in ItemIds
  BY LiveIds DEF Shapes
<1>2. Subscribed(s) /\ DOMAIN sent = SubIds /\ DOMAIN acked = SubIds
  BY <1>1 DEF EverySub
<1>3. /\ \A x \in SubIds \ {s} : mon'[x] = mon[x]
      /\ mon'[s][i] = m /\ \A k \in ItemIds : k # i => mon'[s][k] = mon[s][k]
  BY <1>1
<1> DEFINE top == sub[s].lastMonitoredItemId
           N == mon'[s]
<1>4. Delivers(top, items[s], mon[s], sent[s]) /\ top \in Nat
  BY <1>1, <1>2 DEF Subscribed, Shapes, IsSub
<1> HIDE DEF top, N
<1>5. Delivers(top, items[s], N, sent[s])
  <2>1. /\ \A k \in ItemIds : k # i => N[k] = mon[s][k]
        /\ ItemOK(i, N[i]) /\ Follows(N[i], mon[s][i])
    BY <1>3 DEF N
  <2> QED
    BY <1>4, <2>1, ItemFollows
<1>6. Subscribed(s)'
  BY <1>2, <1>5 DEF Subscribed, SubKept, top, N
<1> QED
  BY <1>1, <1>2, <1>3, <1>6, OneDelivery DEF SubKept

\* The items of a subscription are in order.
LEMMA ItemInOrder ==
    ASSUME Shapes, EverySub, NEW s \in live, NEW i \in items[s]
    PROVE  ItemOK(i, mon[s][i]) /\ i \in ItemIds /\ i \in Nat
<1>1. s \in SubIds /\ i \in ItemIds
  BY LiveIds DEF Shapes
<1>2. Subscribed(s)
  BY <1>1 DEF EverySub
<1> QED
  BY <1>1, <1>2 DEF Subscribed, Delivers, ItemIds

\* A sample callback.
LEMMA SampleDelivery ==
    ASSUME Shapes, EverySub, NEW s \in SubIds, NEW i \in ItemIds,
           UA_MonitoredItem_SampleCallback(s, i)
    PROVE  EverySub'
<1>1. UNCHANGED <<live, lastSub, sub, items, timers, sent, acked>>
  BY DEF UA_MonitoredItem_SampleCallback, messages
<1>2. CASE s \in live /\ i \in items[s]
  <2>1. PICK m \in sampleCallbackWithValue(mon[s][i], i) : mon' = [mon EXCEPT ![s][i] = m]
    BY <1>2 DEF UA_MonitoredItem_SampleCallback
  <2>2. ItemOK(i, mon[s][i]) /\ i \in Nat
    BY <1>2, ItemInOrder
  <2>3. ItemOK(i, m) /\ Follows(m, mon[s][i])
    BY <2>2, SampleFollows
  <2>4. SubKept(s)
    BY <1>1, RenewedData
  <2> QED
    BY <1>1, <1>2, <2>1, <2>3, <2>4, ItemDelivery
<1>3. CASE ~(s \in live /\ i \in items[s])
  <2>1. UNCHANGED mon
    BY <1>3 DEF UA_MonitoredItem_SampleCallback
  <2> QED
    BY <1>1, <2>1, UnchangedDelivery DEF subVars, messages
<1> QED
  BY <1>2, <1>3

\* The size of a queue is within its limits.
LEMMA SizeBounded ==
    ASSUME NEW v \in Nat
    PROVE  Bounded(queueSizeLimits, v) \in queueSizeLimits.min..queueSizeLimits.max
  BY Limits DEF Bounded

\* Other settings of an item.
LEMMA ModifiedItemDelivery ==
    ASSUME Shapes, Shapes', EverySub, NEW s \in SubIds, NEW i \in ItemIds,
           Service_ModifyMonitoredItems(s, i)
    PROVE  EverySub'
<1>1. /\ s \in live /\ i \in items[s] /\ sub' = Renewed(s)
      /\ UNCHANGED <<live, lastSub, items, sent, acked>>
  BY DEF Service_ModifyMonitoredItems, ItemService, messages
<1>0. PICK want \in ItemSettings :
          \E f : mon' = [mon EXCEPT ![s][i] = setMonitoredItemSettings(@, f, want)]
  BY DEF Service_ModifyMonitoredItems
<1>2. PICK f : mon' = [mon EXCEPT ![s][i] = setMonitoredItemSettings(@, f, want)]
  BY <1>0
<1> DEFINE m == setMonitoredItemSettings(mon[s][i], f, want)
<1>3. mon' = [mon EXCEPT ![s][i] = m]
  BY <1>2 DEF Shapes
<1>4. mon'[s][i] = m /\ IsMon(m)
  BY <1>3 DEF Shapes
<1>5. ItemOK(i, mon[s][i])
  BY <1>1, ItemInOrder
<1>6. Bounded(queueSizeLimits, want.queueSize) \in queueSizeLimits.min..queueSizeLimits.max
  BY SizeBounded, BoundAssumption DEF ItemSettings
<1>7. /\ m.samples = mon[s][i].samples /\ m.queue = mon[s][i].queue
      /\ m.maxQueueSize \in queueSizeLimits.min..queueSizeLimits.max
  BY <1>5, <1>6 DEF ItemOK, IsMon, NoMon, setMonitoredItemSettings
<1> HIDE DEF m
<1>8. ItemOK(i, m) /\ Follows(m, mon[s][i])
  BY <1>4, <1>5, <1>7, ItemSet
<1> QED
  BY <1>1, <1>3, <1>8, RenewedData, ItemDelivery

\* Another mode.
LEMMA MonitoringDelivery ==
    ASSUME Shapes, Shapes', EverySub, NEW s \in SubIds, NEW i \in ItemIds,
           Service_SetMonitoringMode(s, i)
    PROVE  EverySub'
<1>1. /\ s \in live /\ i \in items[s]
      /\ UNCHANGED <<live, lastSub, items, sub, sent, acked>>
  BY DEF Service_SetMonitoringMode, ItemService, messages
<1> DEFINE on == ~mon[s][i].reporting
<1>2. PICK f : mon' = [mon EXCEPT ![s][i].reporting = on, ![s][i].sampleJobIsRegistered = f]
  BY DEF Service_SetMonitoringMode
<1> HIDE DEF on
<1> DEFINE m == [mon[s][i] EXCEPT !.reporting = on, !.sampleJobIsRegistered = f]
<1>3. mon' = [mon EXCEPT ![s][i] = m]
  <2>1. DOMAIN mon = SubIds /\ DOMAIN mon[s] = ItemIds /\ DOMAIN mon[s][i] = DOMAIN NoMon
    BY DEF Shapes, IsMon
  <2> QED
    BY <1>2, <2>1 DEF NoMon
<1>4. mon'[s][i] = m /\ IsMon(m)
  BY <1>3 DEF Shapes
<1>5. ItemOK(i, mon[s][i])
  BY <1>1, ItemInOrder
<1>6. /\ m.samples = mon[s][i].samples /\ m.queue = mon[s][i].queue
      /\ m.maxQueueSize \in queueSizeLimits.min..queueSizeLimits.max
  BY <1>5 DEF ItemOK, IsMon, NoMon
<1> HIDE DEF m
<1>7. ItemOK(i, m) /\ Follows(m, mon[s][i])
  BY <1>4, <1>5, <1>6, ItemSet
<1> QED
  BY <1>1, <1>3, <1>7, RenewedData, ItemDelivery

\* An item goes.
LEMMA DeletedItemDelivery ==
    ASSUME Shapes, EverySub, NEW s \in SubIds, NEW i \in ItemIds, Service_DeleteMonitoredItems(s, i)
    PROVE  EverySub'
<1>1. /\ s \in live /\ i \in items[s] /\ sub' = Renewed(s)
      /\ items' = [items EXCEPT ![s] = @ \ {i}] /\ mon' = [mon EXCEPT ![s][i] = NoMon]
      /\ UNCHANGED <<live, lastSub, sent, acked>>
  BY DEF Service_DeleteMonitoredItems, UA_Subscription_deleteMonitoredItem, ItemService, messages
<1>2. SubKept(s)
  BY <1>1, RenewedData
<1>3. Subscribed(s) /\ DOMAIN sent = SubIds /\ DOMAIN acked = SubIds
  BY <1>1 DEF EverySub
<1>4. /\ \A x \in SubIds \ {s} : mon'[x] = mon[x] /\ items'[x] = items[x]
      /\ items'[s] = items[s] \ {i}
      /\ mon'[s][i] = NoMon /\ \A k \in ItemIds : k # i => mon'[s][k] = mon[s][k]
  BY <1>1 DEF Shapes
<1> DEFINE top == sub[s].lastMonitoredItemId
           N == mon'[s]
<1>5. Delivers(top, items[s], mon[s], sent[s]) /\ top \in Nat
  BY <1>1, <1>3 DEF Subscribed, Shapes, IsSub
<1> HIDE DEF top, N
<1>6. Delivers(top, items[s] \ {i}, N, sent[s])
  <2>1. /\ \A k \in ItemIds : k # i => N[k] = mon[s][k]
        /\ N[i] = NoMon
    BY <1>4 DEF N
  <2> QED
    BY <1>1, <1>5, <2>1, ItemDeleted
<1>7. Subscribed(s)'
  BY <1>1, <1>2, <1>3, <1>4, <1>6 DEF Subscribed, SubKept, top, N
<1> QED
  BY <1>1, <1>2, <1>3, <1>4, <1>7, OneDelivery DEF SubKept

\* An item more, with its first sample if it is read at once.
LEMMA NewItemDelivery ==
    ASSUME Shapes, Shapes', EverySub, NEW s \in live, Service_CreateMonitoredItems_single(s),
           UNCHANGED <<live, lastSub, sent, acked>>
    PROVE  EverySub'
<1> DEFINE i == sub[s].lastMonitoredItemId + 1
           r == [sub[s] EXCEPT !.currentLifetimeCount = 0, !.lastMonitoredItemId = i]
           New(on, want, f) == setMonitoredItemSettings([NoMon EXCEPT !.reporting = on], f, want)
<1>1. s \in SubIds /\ IsSub(sub[s]) /\ DOMAIN sub = SubIds /\ i \in ItemIds
  BY LiveIds DEF Shapes, Service_CreateMonitoredItems_single
<1>2. Subscribed(s) /\ DOMAIN sent = SubIds /\ DOMAIN acked = SubIds
  BY <1>1 DEF EverySub
<1>3. CASE sub' = Renewed(s) /\ UNCHANGED <<items, mon>>
  BY <1>1, <1>3, RenewedData, SubDelivery
<1>4. CASE /\ sub' = [Renewed(s) EXCEPT ![s].lastMonitoredItemId = i]
           /\ items' = [items EXCEPT ![s] = @ \cup {i}]
           /\ \E on \in BOOLEAN, want \in ItemSettings : \E f :
                \E m \in IF on THEN sampleCallbackWithValue(New(on, want, f), i)
                         ELSE {New(on, want, f)} :
                   mon' = [mon EXCEPT ![s][i] = m]
  <2>0. PICK on \in BOOLEAN, want \in ItemSettings : \E f :
           \E m \in IF on THEN sampleCallbackWithValue(New(on, want, f), i)
                    ELSE {New(on, want, f)} :
              mon' = [mon EXCEPT ![s][i] = m]
    BY <1>4
  <2>1. PICK f :
           \E m \in IF on THEN sampleCallbackWithValue(New(on, want, f), i)
                    ELSE {New(on, want, f)} :
              mon' = [mon EXCEPT ![s][i] = m]
    BY <2>0
  <2> DEFINE new == New(on, want, f)
  <2>2. PICK m \in IF on THEN sampleCallbackWithValue(new, i) ELSE {new} :
           mon' = [mon EXCEPT ![s][i] = m]
    BY <2>1
  <2>3. sub' = [sub EXCEPT ![s] = r]
    BY <1>1, <1>4 DEF Renewed
  <2> HIDE DEF i
  <2> HIDE DEF new, r
  <2>4. /\ mon'[s][i] = m /\ IsMon(m) /\ i \in Nat
        /\ \A k \in ItemIds : k # i => mon'[s][k] = mon[s][k]
        /\ \A x \in SubIds \ {s} : mon'[x] = mon[x] /\ items'[x] = items[x] /\ sub'[x] = sub[x]
        /\ items'[s] = items[s] \cup {i} /\ sub'[s] = r
    <3>1. i \in Nat
      BY <1>1 DEF ItemIds
    <3>2. /\ mon'[s][i] = m /\ \A k \in ItemIds : k # i => mon'[s][k] = mon[s][k]
          /\ \A x \in SubIds \ {s} : mon'[x] = mon[x]
      BY <1>1, <2>2 DEF Shapes
    <3>3. IsMon(m)
      BY <1>1, <3>2 DEF Shapes
    <3>4. /\ items'[s] = items[s] \cup {i} /\ \A x \in SubIds \ {s} : items'[x] = items[x]
      BY <1>1, <1>4 DEF Shapes
    <3>5. sub'[s] = r /\ \A x \in SubIds \ {s} : sub'[x] = sub[x]
      BY <1>1, <2>3
    <3> QED
      BY <3>1, <3>2, <3>3, <3>4, <3>5
  <2> USE DEF r
  <2>5. /\ Settings(r) /\ r.sequenceNumber = sub[s].sequenceNumber
        /\ r.lastMonitoredItemId = i /\ r.retransmissionQueue = sub[s].retransmissionQueue
    BY <1>1, <1>2 DEF IsSub, NoSub, Settings, Subscribed
  <2> HIDE DEF r
  <2> USE DEF new
  <2>6. Bounded(queueSizeLimits, want.queueSize) \in queueSizeLimits.min..queueSizeLimits.max
    BY <2>0, SizeBounded, BoundAssumption DEF ItemSettings
  <2>7. /\ new.samples = 0 /\ new.queue = <<>>
        /\ new.maxQueueSize \in queueSizeLimits.min..queueSizeLimits.max
        /\ DOMAIN new = DOMAIN NoMon /\ new.reporting = on /\ new.sampleJobIsRegistered = f
        /\ new.lastSampledValue = None
    BY <2>6 DEF NoMon, setMonitoredItemSettings
  <2> HIDE DEF new, New
  <2>8. new.sampleJobIsRegistered \in BOOLEAN
    <3>1. m.sampleJobIsRegistered = new.sampleJobIsRegistered
      <4>1. CASE m = new
        BY <4>1
      <4>2. CASE m \in sampleCallbackWithValue(new, i)
        BY <2>7, <4>2 DEF sampleCallbackWithValue, sampled, NoMon
      <4> QED
        BY <2>2, <4>1, <4>2
    <3> QED
      BY <2>4, <3>1 DEF IsMon
  <2>9. ItemOK(i, new)
    BY <2>0, <2>7, <2>8, Limits DEF ItemOK, IsMon, Ascending
  <2>10. ItemOK(i, m) /\ (m.queue = <<>> => m.samples = 0)
    <3>1. CASE m = new
      BY <2>7, <2>9, <3>1
    <3>2. CASE m \in sampleCallbackWithValue(new, i)
      <4>1. ItemOK(i, m) /\ Follows(m, new)
        BY <2>4, <2>9, <3>2, SampleFollows
      <4> QED
        BY <2>7, <4>1 DEF Follows
    <3> QED
      BY <2>2, <3>1, <3>2
  <2> DEFINE top == sub[s].lastMonitoredItemId
             N == mon'[s]
  <2>11. Delivers(top, items[s], mon[s], sent[s]) /\ top \in Nat /\ i = top + 1
    BY <1>1, <1>2 DEF Subscribed, IsSub, i
  <2> HIDE DEF top, N
  <2>12. Delivers(i, items[s] \cup {i}, N, sent[s])
    <3>1. /\ \A k \in ItemIds : k # i => N[k] = mon[s][k]
          /\ ItemOK(i, N[i]) /\ (N[i].queue = <<>> => N[i].samples = 0)
      BY <2>4, <2>10 DEF N
    <3> QED
      BY <1>1, <2>11, <3>1, ItemAdded
  <2>13. Subscribed(s)'
    BY <1>2, <2>4, <2>5, <2>12 DEF Subscribed, N
  <2>14. \A x \in SubIds \ {s} :
            /\ x \in live' <=> x \in live
            /\ sub'[x] = sub[x] /\ items'[x] = items[x] /\ mon'[x] = mon[x]
            /\ sent'[x] = sent[x] /\ acked'[x] = acked[x]
    BY <2>4
  <2>15. /\ s \in SubIds /\ s \in live' /\ lastSub' = lastSub
         /\ DOMAIN sent' = SubIds /\ DOMAIN acked' = SubIds
    BY <1>1, <1>2
  <2> QED
    BY <2>13, <2>14, <2>15, OneDelivery
<1> QED
  <2>1. \/ sub' = Renewed(s) /\ UNCHANGED <<items, mon>>
        \/ /\ sub' = [Renewed(s) EXCEPT ![s].lastMonitoredItemId = i]
           /\ items' = [items EXCEPT ![s] = @ \cup {i}]
           /\ \E on \in BOOLEAN, want \in ItemSettings :
                \E t \in reregister(timers[<<s, i>>], FALSE, on) :
                  \E m \in IF on THEN sampleCallbackWithValue(New(on, want, t[2]), i)
                           ELSE {New(on, want, t[2])} :
                     mon' = [mon EXCEPT ![s][i] = m]
    BY Zenon DEF Service_CreateMonitoredItems_single
  <2> HIDE DEF New, i
  <2> QED
    BY <1>3, <1>4, <2>1, Zenon

\* The settings of a subscription are within their limits.
LEMMA SettingsBounded ==
    ASSUME NEW r, IsSub(r), r.publishingEnabled \in BOOLEAN,
           NEW f, NEW want \in SubscriptionSettings
    PROVE  LET n == setSubscriptionSettings(r, f, want) IN
           /\ Settings(n) /\ DOMAIN n = DOMAIN NoSub
           /\ n.sequenceNumber = r.sequenceNumber
           /\ n.lastMonitoredItemId = r.lastMonitoredItemId
           /\ n.retransmissionQueue = r.retransmissionQueue
<1> DEFINE k == Bounded(keepAliveCountLimits, want.keepAlives)
           l == LifeTime(want.lifetime, k)
           n == setSubscriptionSettings(r, f, want)
<1>1. want.keepAlives \in Nat /\ want.lifetime \in Nat /\ want.notifications \in Nat
  BY BoundAssumption DEF SubscriptionSettings
<1>2. k \in keepAliveCountLimits.min..keepAliveCountLimits.max /\ k \in Nat
  BY <1>1, ConfigAssumption DEF Bounded, IsRange
<1>3. l \in Nat /\ l >= 3 * k
  <2> HIDE DEF k
  <2>1. Bounded(lifeTimeCountLimits, want.lifetime) \in Nat
    BY <1>1, ConfigAssumption DEF Bounded, IsRange
  <2> QED
    BY <1>2, <2>1 DEF LifeTime
<1>4. /\ n.maxKeepAliveCount = k /\ n.lifeTimeCount = l
      /\ n.publishingEnabled = r.publishingEnabled
      /\ n.notificationsPerPublish =
            IF want.notifications = 0 \/ want.notifications > maxNotificationsPerPublish
            THEN maxNotificationsPerPublish ELSE want.notifications
      /\ DOMAIN n = DOMAIN NoSub
      /\ n.sequenceNumber = r.sequenceNumber
      /\ n.lastMonitoredItemId = r.lastMonitoredItemId
      /\ n.retransmissionQueue = r.retransmissionQueue
  <2> HIDE DEF k, l
  <2> QED
    BY DEF setSubscriptionSettings, IsSub, NoSub, k, l
<1> HIDE DEF k, l, n
<1>5. n.notificationsPerPublish \in 1..maxNotificationsPerPublish
  BY <1>1, <1>4, ConfigAssumption
<1>6. Settings(n)
  BY <1>2, <1>3, <1>4, <1>5 DEF Settings
<1> QED
  BY <1>4, <1>6 DEF n

\* A new subscription has nothing to deliver yet.
LEMMA CreatedDelivery ==
    ASSUME Shapes, EverySub, Service_CreateSubscription
    PROVE  EverySub'
<1> DEFINE zero(on) == [NoSub EXCEPT !.publishingEnabled = on]
           New(on, want, f) == setSubscriptionSettings(zero(on), f, want)
<1>1. PICK s \in SubIds :
         /\ s = lastSub + 1 /\ s \notin live /\ lastSub' = s /\ live' = live \cup {s}
         /\ UNCHANGED <<items, mon, sent, acked>> /\ lastSub \in Int
  BY DEF Shapes, Service_CreateSubscription, messages
<1>0. PICK on \in BOOLEAN, want \in SubscriptionSettings : \E f :
         sub' = [sub EXCEPT ![s] = [New(on, want, f) EXCEPT
                    !.currentKeepAliveCount = New(on, want, f).maxKeepAliveCount]]
  BY <1>1 DEF Service_CreateSubscription
<1>2. PICK f :
         sub' = [sub EXCEPT ![s] = [New(on, want, f) EXCEPT
                    !.currentKeepAliveCount = New(on, want, f).maxKeepAliveCount]]
  BY <1>0
<1> DEFINE new == New(on, want, f)
           r == [new EXCEPT !.currentKeepAliveCount = new.maxKeepAliveCount]
<1>3. sub'[s] = r /\ \A x \in SubIds \ {s} : sub'[x] = sub[x]
  BY <1>1, <1>2 DEF Shapes
<1>4. /\ IsSub(zero(on)) /\ zero(on).publishingEnabled \in BOOLEAN /\ zero(on).sequenceNumber = 0
      /\ zero(on).lastMonitoredItemId = 0 /\ zero(on).retransmissionQueue = <<>>
  BY <1>0 DEF IsSub, NoSub
<1> HIDE DEF zero
<1>5. /\ Settings(new) /\ new.sequenceNumber = 0 /\ DOMAIN new = DOMAIN NoSub
      /\ new.lastMonitoredItemId = 0 /\ new.retransmissionQueue = <<>>
  BY <1>2, <1>4, SettingsBounded
<1> HIDE DEF new
<1>6. /\ Settings(r) /\ r.sequenceNumber = 0
      /\ r.lastMonitoredItemId = 0 /\ r.retransmissionQueue = <<>>
  BY <1>5 DEF Settings, NoSub
<1> HIDE DEF r, New
<1>7. /\ Unsubscribed(s) /\ DOMAIN sent = SubIds /\ DOMAIN acked = SubIds
  BY <1>1 DEF EverySub
<1>8. /\ sent[s] = <<>> /\ items[s] = {} /\ \A i \in ItemIds : mon[s][i] = NoMon
  BY <1>1, <1>7 DEF Unsubscribed
<1>9. Delivers(0, {}, mon[s], <<>>)
  BY <1>8, NothingTold
<1>10. Retransmits(<<>>, <<>>, acked[s])
  BY ConfigAssumption DEF Retransmits
<1>11. Subscribed(s)'
  BY <1>1, <1>3, <1>6, <1>8, <1>9, <1>10 DEF Subscribed
<1> QED
  BY <1>1, <1>3, <1>7, <1>11, OneDelivery

\* Other settings of a subscription.
LEMMA ModifiedDelivery ==
    ASSUME Shapes, EverySub, NEW s \in SubIds,
           Service_ModifySubscription(s) \/ Service_SetPublishingMode(s)
    PROVE  EverySub'
<1>1. s \in live /\ UNCHANGED <<live, lastSub, items, mon, sent, acked>>
  BY DEF Service_ModifySubscription, Service_SetPublishingMode, messages
<1>2. IsSub(sub[s]) /\ DOMAIN sub = SubIds /\ Settings(sub[s])
  BY <1>1 DEF Shapes, EverySub, Subscribed
<1>3. CASE Service_ModifySubscription(s)
  <2>0. PICK want \in SubscriptionSettings : \E f :
           sub' = [sub EXCEPT ![s] = [setSubscriptionSettings(sub[s], f, want) EXCEPT
                                         !.currentLifetimeCount = 0]]
    BY <1>3 DEF Service_ModifySubscription
  <2>1. PICK f : sub' = [sub EXCEPT ![s] = [setSubscriptionSettings(sub[s], f, want) EXCEPT
                                              !.currentLifetimeCount = 0]]
    BY <2>0
  <2> DEFINE n == setSubscriptionSettings(sub[s], f, want)
             r == [n EXCEPT !.currentLifetimeCount = 0]
  <2>2. sub'[s] = r /\ \A x \in SubIds \ {s} : sub'[x] = sub[x]
    BY <1>2, <2>1
  <2>3. /\ Settings(n) /\ DOMAIN n = DOMAIN NoSub
        /\ n.sequenceNumber = sub[s].sequenceNumber
        /\ n.lastMonitoredItemId = sub[s].lastMonitoredItemId
        /\ n.retransmissionQueue = sub[s].retransmissionQueue
    BY <1>2, SettingsBounded DEF Settings
  <2> HIDE DEF n
  <2>4. /\ Settings(r) /\ r.sequenceNumber = sub[s].sequenceNumber
        /\ r.lastMonitoredItemId = sub[s].lastMonitoredItemId
        /\ r.retransmissionQueue = sub[s].retransmissionQueue
    BY <2>3 DEF Settings, NoSub
  <2>5. SubKept(s)
    BY <2>2, <2>4 DEF SubKept
  <2> QED
    BY <1>1, <2>5, SubDelivery
<1>4. CASE Service_SetPublishingMode(s)
  <2> DEFINE on == ~sub[s].publishingEnabled
             r == [sub[s] EXCEPT !.publishingEnabled = on, !.currentLifetimeCount = 0]
  <2>1. sub' = [sub EXCEPT ![s].publishingEnabled = on, ![s].currentLifetimeCount = 0]
    BY <1>4 DEF Service_SetPublishingMode
  <2>2. on \in BOOLEAN
    OBVIOUS
  <2> HIDE DEF on
  <2>3. sub'[s] = r /\ \A x \in SubIds \ {s} : sub'[x] = sub[x]
    BY <1>2, <2>1
  <2>4. /\ Settings(r) /\ r.sequenceNumber = sub[s].sequenceNumber
        /\ r.lastMonitoredItemId = sub[s].lastMonitoredItemId
        /\ r.retransmissionQueue = sub[s].retransmissionQueue
    BY <1>2, <2>2 DEF IsSub, NoSub, Settings
  <2>5. SubKept(s)
    BY <2>3, <2>4 DEF SubKept
  <2> QED
    BY <1>1, <2>5, SubDelivery
<1> QED
  BY <1>3, <1>4

\* The subscriptions D are deleted.
LEMMA DeletedDelivery ==
    ASSUME Shapes, EverySub, NEW D \in SUBSET live, live' = live \ D,
           UA_Subscription_deleteMembers(D), UNCHANGED <<lastSub, sent, acked>>
    PROVE  EverySub'
<1>1. live \subseteq SubIds /\ live \subseteq 1..lastSub /\ lastSub \in Int
  BY LiveIds DEF Shapes
<1>2. /\ sub' = [s \in SubIds |-> IF s \in D THEN NoSub ELSE sub[s]]
      /\ items' = [s \in SubIds |-> IF s \in D THEN {} ELSE items[s]]
      /\ mon' = [s \in SubIds |-> IF s \in D THEN [i \in ItemIds |-> NoMon] ELSE mon[s]]
  BY DEF UA_Subscription_deleteMembers
<1>3. ASSUME NEW x \in SubIds PROVE IF x \in live' THEN Subscribed(x)' ELSE Unsubscribed(x)'
  <2>0. IF x \in live THEN Subscribed(x) ELSE Unsubscribed(x)
    BY DEF EverySub
  <2>1. CASE x \in D
    <3>0. x \in 1..lastSub /\ lastSub' = lastSub /\ x \notin live'
      BY <1>1, <2>1
    <3>1. /\ sub'[x] = NoSub /\ items'[x] = {} /\ mon'[x] = [i \in ItemIds |-> NoMon]
          /\ x \notin live' /\ ~(x > lastSub')
      BY <1>1, <1>2, <2>1, <3>0
    <3>2. \A i \in ItemIds : mon'[x][i] = NoMon
      BY <3>1
    <3>3. Unsubscribed(x)'
      BY <3>1, <3>2 DEF Unsubscribed
    <3> QED
      BY <3>1, <3>3
  <2>2. CASE x \notin D
    <3>1. /\ sub'[x] = sub[x] /\ items'[x] = items[x] /\ mon'[x] = mon[x]
          /\ x \in live' <=> x \in live
      BY <1>2, <2>2
    <3> QED
      BY <2>0, <3>1 DEF Subscribed, Unsubscribed
  <2> QED
    BY <2>1, <2>2
<1> QED
  BY <1>3 DEF EverySub

\* The acknowledged messages leave the retransmission queues.
LEMMA AcknowledgedDelivery ==
    ASSUME Shapes, EverySub, NEW A, Service_Publish(A)
    PROVE  EverySub'
<1>1. UNCHANGED <<live, lastSub, items, mon, sent>>
  BY DEF Service_Publish
<1>2. CASE UNCHANGED <<sub, acked>>
  <2>1. UNCHANGED timers
    BY DEF Service_Publish
  <2> QED
    BY <1>1, <1>2, <2>1, UnchangedDelivery DEF subVars, messages
<1>3. CASE /\ sub' = [s \in SubIds |-> [sub[s] EXCEPT !.retransmissionQueue =
                        UA_Subscription_removeRetransmissionMessage(@, Acknowledged(A, s))]]
           /\ acked' = [s \in SubIds |-> acked[s] \cup Acknowledged(A, s)]
  <2>1. ASSUME NEW x \in SubIds PROVE IF x \in live' THEN Subscribed(x)' ELSE Unsubscribed(x)'
    <3> DEFINE N == Acknowledged(A, x)
               q == sub[x].retransmissionQueue
               p == UA_Subscription_removeRetransmissionMessage(q, N)
               r == [sub[x] EXCEPT !.retransmissionQueue = p]
    <3>1. /\ sub'[x] = r /\ acked'[x] = acked[x] \cup N
          /\ IF x \in live THEN Subscribed(x) ELSE Unsubscribed(x)
          /\ IsSub(sub[x])
      BY <1>3 DEF EverySub, Shapes
    <3>2. CASE x \in live
      <4>1. Subscribed(x)
        BY <3>1, <3>2
      <4>2. Retransmits(p, sent[x], acked[x] \cup N)
        BY <4>1, Kept DEF Subscribed
      <4> HIDE DEF p, q, N
      <4>3. /\ Settings(r) /\ r.sequenceNumber = sub[x].sequenceNumber
            /\ r.lastMonitoredItemId = sub[x].lastMonitoredItemId
            /\ r.retransmissionQueue = p
        BY <3>1, <4>1 DEF IsSub, NoSub, Settings, Subscribed
      <4> HIDE DEF r
      <4>4. Subscribed(x)'
        BY <1>1, <3>1, <4>1, <4>2, <4>3 DEF Subscribed
      <4> QED
        BY <1>1, <3>2, <4>4
    <3>3. CASE x \notin live
      <4>1. Unsubscribed(x)
        BY <3>1, <3>3
      <4>2. q = <<>> /\ sub[x] = NoSub
        BY <4>1 DEF Unsubscribed, NoSub
      <4>3. p = q
        <5>1. q \in Seq(Message) /\ 1..Len(q) = {}
          BY <4>2
        <5> HIDE DEF q, N
        <5> QED
          BY <5>1, Removed
      <4> HIDE DEF p, q
      <4>4. r = NoSub
        BY <4>2, <4>3 DEF NoSub
      <4> HIDE DEF r
      <4>5. Unsubscribed(x)'
        BY <1>1, <3>1, <4>1, <4>4 DEF Unsubscribed
      <4> QED
        BY <1>1, <3>3, <4>5
    <3> QED
      BY <3>2, <3>3
  <2> QED
    BY <1>1, <1>3, <2>1 DEF EverySub
<1> QED
  BY <1>2, <1>3 DEF Service_Publish

\* No more notifications are counted than are queued.
LEMMA CountedQueued ==
    ASSUME NEW s, Queues(s), Settings(sub[s])
    PROVE  LET n == countQueuedNotifications(s) IN
           /\ n \in Nat
           /\ n # 0 => Pending(s) = Queued(s) /\ n <= Len(Queued(s))
<1> DEFINE l == Len(Pending(s))
           c == sub[s].notificationsPerPublish
<1>1. Queued(s) \in Seq(Note)
  <2> DEFINE g == QueuedUpTo(s)
  <2>1. g \in [0..MaxItems -> Seq(Note)]
    BY QueuedRuns
  <2>2. MaxItems \in 0..MaxItems
    BY BoundAssumption
  <2> HIDE DEF g
  <2>3. g[MaxItems] \in Seq(Note)
    BY <2>1, <2>2
  <2> QED
    BY <2>3 DEF Queued, g
<1>2. l \in Nat /\ c \in Nat /\ (l # 0 => Pending(s) = Queued(s))
  BY <1>1, ConfigAssumption DEF Pending, Settings
<1>3. countQueuedNotifications(s) = IF l > c THEN c ELSE l
  BY DEF countQueuedNotifications
<1>4. countQueuedNotifications(s) # 0 => l # 0 /\ countQueuedNotifications(s) <= l
  BY <1>2, <1>3
<1> QED
  BY <1>2, <1>3, <1>4

\* A callback that sends no message.
LEMMA SilentDelivery ==
    ASSUME Shapes, EverySub, NEW s \in live, NEW r,
           \/ \E k : r = [sub[s] EXCEPT !.currentKeepAliveCount = k]
           \/ \E c, k : r = [sub[s] EXCEPT !.state = "LATE", !.currentLifetimeCount = c,
                                           !.currentKeepAliveCount = k]
           \/ r = SentRecord(sub[s]),
           sub' = [sub EXCEPT ![s] = r], UNCHANGED <<live, lastSub, items, mon, sent, acked>>
    PROVE  EverySub'
<1>1. s \in SubIds /\ IsSub(sub[s]) /\ DOMAIN sub = SubIds
  BY LiveIds DEF Shapes
<1>2. sub'[s] = r /\ \A x \in SubIds \ {s} : sub'[x] = sub[x]
  BY <1>1
<1>3. /\ Settings(sub[s]) => Settings(r)
      /\ r.sequenceNumber = sub[s].sequenceNumber
      /\ r.lastMonitoredItemId = sub[s].lastMonitoredItemId
      /\ r.retransmissionQueue = sub[s].retransmissionQueue
  BY <1>1 DEF IsSub, NoSub, Settings, SentRecord
<1> QED
  BY <1>2, <1>3, SubDelivery DEF SubKept

\* A message goes out with what its callback takes from the queues.
LEMMA SendDelivery ==
    ASSUME Shapes, EverySub, NEW s \in SubIds, publishSend(s)
    PROVE  EverySub'
<1> DEFINE n == countQueuedNotifications(s)
           m == [seq |-> sub[s].sequenceNumber + 1, notes |-> SubSeq(Pending(s), 1, n)]
           r == SentRecord(sub[s])
           q == UA_Subscription_addRetransmissionMessage(r.retransmissionQueue, m)
           r2 == [r EXCEPT !.sequenceNumber = m.seq, !.retransmissionQueue = q]
<1>1. s \in live /\ UNCHANGED <<live, lastSub, items, acked>>
  BY DEF publishSend, Called
<1>2. IsSub(sub[s]) /\ DOMAIN sub = SubIds /\ DOMAIN mon = SubIds
  BY DEF Shapes
<1>3. Subscribed(s) /\ DOMAIN sent = SubIds /\ DOMAIN acked = SubIds
  BY <1>1 DEF EverySub
<1>4. CASE n = 0
  <2>1. sub' = [sub EXCEPT ![s] = r] /\ UNCHANGED <<mon, sent>>
    BY <1>4 DEF publishSend
  <2> HIDE DEF r
  <2> QED
    BY <1>1, <2>1, SilentDelivery DEF r
<1>5. CASE n # 0
  <2>1. /\ sub' = [sub EXCEPT ![s] = r2]
        /\ prepareNotificationMessage(s, n)
        /\ sent' = [sent EXCEPT ![s] = Append(@, m)]
    BY <1>5 DEF publishSend
  <2> DEFINE top == sub[s].lastMonitoredItemId
             S == sent[s]
             N == mon'[s]
  <2>2. /\ Delivers(top, items[s], mon[s], S) /\ top \in Nat /\ Settings(sub[s])
        /\ Retransmits(sub[s].retransmissionQueue, S, acked[s])
        /\ sub[s].sequenceNumber = Len(S)
    BY <1>2, <1>3 DEF Subscribed, IsSub
  <2>3. Queues(s) /\ S \in Seq(Message)
    <3>1. \A i \in ItemIds : IF i \in items[s] THEN ItemOK(i, mon[s][i]) ELSE mon[s][i] = NoMon
      BY <2>2 DEF Delivers
    <3>2. \A i \in ItemIds : mon[s][i].queue \in Seq(Note)
      <4> SUFFICES ASSUME NEW i \in ItemIds PROVE mon[s][i].queue \in Seq(Note)
        OBVIOUS
      <4>1. CASE i \in items[s]
        <5>1. ItemOK(i, mon[s][i])
          BY <3>1, <4>1
        <5> QED
          BY <5>1 DEF ItemOK
      <4>2. CASE i \notin items[s]
        <5>1. mon[s][i] = NoMon
          BY <3>1, <4>2
        <5> QED
          BY <5>1 DEF NoMon
      <4> QED
        BY <4>1, <4>2
    <3> QED
      BY <2>2, <3>2 DEF Delivers, Queues
  <2>4. n \in Nat /\ Pending(s) = Queued(s) /\ n <= Len(Queued(s))
    BY <1>5, <2>2, <2>3, CountedQueued
  <2>5. /\ \A x \in SubIds \ {s} : mon'[x] = mon[x]
        /\ Leaves(s, n, N)
    BY <1>2, <2>1 DEF prepareNotificationMessage, Leaves
  <2>6. /\ m = [seq |-> Len(S) + 1, notes |-> SubSeq(Queued(s), 1, n)]
        /\ Len(S) + 1 \in Nat /\ m.seq = Len(S) + 1
    BY <2>2, <2>3, <2>4
  <2>7. /\ sub'[s] = r2 /\ \A x \in SubIds \ {s} : sub'[x] = sub[x]
        /\ sent'[s] = Append(S, m) /\ \A x \in SubIds \ {s} : sent'[x] = sent[x]
        /\ DOMAIN sent' = SubIds
    <3> HIDE DEF m, r2
    <3> QED
      BY <1>2, <1>3, <2>1
  <2> HIDE DEF n, m, N, S, top
  <2>8. m \in Message /\ Delivers(top, items[s], N, Append(S, m))
    <3> DEFINE c == Len(S) + 1
    <3>1. m = [seq |-> c, notes |-> SubSeq(Queued(s), 1, n)] /\ c \in Nat
      BY <2>6
    <3> HIDE DEF c
    <3>2. LET t == [seq |-> c, notes |-> SubSeq(Queued(s), 1, n)] IN
          t \in Message /\ Delivers(top, items[s], N, Append(S, t))
      BY <2>2, <2>4, <2>5, <3>1, Publishing
    <3> QED
      BY <3>1, <3>2
  <2>9. r.retransmissionQueue = sub[s].retransmissionQueue
    BY <1>2 DEF SentRecord, IsSub, NoSub
  <2>10. Retransmits(q, Append(S, m), acked[s])
    <3>1. Retransmits(UA_Subscription_addRetransmissionMessage(sub[s].retransmissionQueue, m),
                      Append(S, m), acked[s])
      BY <2>2, <2>3, <2>6, <2>8, Added
    <3> QED
      BY <2>9, <3>1
  <2> HIDE DEF q
  <2>11. /\ Settings(r2) /\ r2.sequenceNumber = Len(S) + 1
         /\ r2.lastMonitoredItemId = top /\ r2.retransmissionQueue = q
    BY <1>2, <2>2, <2>6 DEF SentRecord, IsSub, NoSub, Settings, top
  <2> HIDE DEF r, r2
  <2>12. Len(Append(S, m)) = Len(S) + 1
    BY <2>3, <2>8, AppendProperties
  <2>13. Subscribed(s)'
    BY <1>1, <2>7, <2>8, <2>10, <2>11, <2>12 DEF Subscribed, N
  <2>14. \A x \in SubIds \ {s} :
            /\ x \in live' <=> x \in live
            /\ sub'[x] = sub[x] /\ items'[x] = items[x] /\ mon'[x] = mon[x]
            /\ sent'[x] = sent[x] /\ acked'[x] = acked[x]
    BY <1>1, <2>5, <2>7
  <2>15. s \in live' /\ lastSub' = lastSub /\ DOMAIN sent' = SubIds /\ DOMAIN acked' = SubIds
    BY <1>1, <1>3, <2>7
  <2> QED
    BY <2>13, <2>14, <2>15, OneDelivery
<1> QED
  BY <1>4, <1>5

\* The publish callback.
LEMMA PublishDelivery ==
    ASSUME Shapes, EverySub, NEW s \in SubIds, UA_Subscription_publishCallback(s)
    PROVE  EverySub'
<1>1. CASE publishNothing(s)
  <2> DEFINE k == KeepAlive(s, countQueuedNotifications(s))
             r == [sub[s] EXCEPT !.currentKeepAliveCount = k]
  <2>1. /\ s \in live /\ sub' = [sub EXCEPT ![s] = r]
        /\ UNCHANGED <<live, lastSub, items, mon, sent, acked>>
    BY <1>1 DEF publishNothing, Called, messages
  <2> HIDE DEF k
  <2>2. \E j : r = [sub[s] EXCEPT !.currentKeepAliveCount = j]
    OBVIOUS
  <2> HIDE DEF r
  <2> QED
    BY <2>1, <2>2, SilentDelivery
<1>2. CASE publishLate(s)
  <2> DEFINE k == KeepAlive(s, countQueuedNotifications(s))
             c == IF sub[s].state = "LATE" THEN sub[s].currentLifetimeCount + 1
                  ELSE sub[s].currentLifetimeCount
             r == [sub[s] EXCEPT !.state = "LATE", !.currentLifetimeCount = c,
                                 !.currentKeepAliveCount = k]
  <2>1. /\ s \in live /\ sub' = [sub EXCEPT ![s] = r]
        /\ UNCHANGED <<live, lastSub, items, mon, sent, acked>>
    BY <1>2 DEF publishLate, NoRequest, Called, messages
  <2> HIDE DEF k, c
  <2>2. \E d, j : r = [sub[s] EXCEPT !.state = "LATE", !.currentLifetimeCount = d,
                                     !.currentKeepAliveCount = j]
    OBVIOUS
  <2> HIDE DEF r
  <2> QED
    BY <2>1, <2>2, SilentDelivery
<1>3. CASE publishExpire(s)
  <2>1. /\ {s} \in SUBSET live /\ live' = live \ {s} /\ UA_Subscription_deleteMembers({s})
        /\ UNCHANGED <<lastSub, sent, acked>>
    BY <1>3 DEF publishExpire, NoRequest, Called, UA_Session_deleteSubscriptions, messages
  <2> QED
    BY <2>1, DeletedDelivery
<1>4. CASE publishFreed(s)
  BY <1>4, UnchangedDelivery DEF publishFreed, subVars, messages
<1> QED
  BY <1>1, <1>2, <1>3, <1>4, SendDelivery DEF UA_Subscription_publishCallback

\* Every step keeps what the subscriptions deliver in order.
LEMMA StepDelivery ==
    ASSUME Shapes, Shapes', EverySub, [Next]_vars
    PROVE  EverySub'
<1>1. CASE UNCHANGED vars
  BY <1>1, UnchangedDelivery DEF vars
<1>2. CASE ItemStep
  <2> SUFFICES ASSUME NEW s \in SubIds,
                      \/ Service_CreateMonitoredItems(s) \/ Service_Republish(s)
                      \/ \E i \in ItemIds :
                            \/ Service_ModifyMonitoredItems(s, i) \/ Service_SetMonitoringMode(s, i)
                            \/ Service_DeleteMonitoredItems(s, i)
                            \/ UA_MonitoredItem_SampleCallback(s, i)
               PROVE  EverySub'
    BY <1>2 DEF ItemStep
  <2>1. CASE Service_CreateMonitoredItems(s)
    <3>1. s \in live /\ UNCHANGED <<live, lastSub, sent, acked>>
      BY <2>1 DEF Service_CreateMonitoredItems, messages
    <3>2. CASE Service_CreateMonitoredItems_single(s)
      BY <3>1, <3>2, NewItemDelivery
    <3>3. CASE sub' = Renewed(s) /\ UNCHANGED <<items, mon, timers>>
      BY <3>1, <3>3, RenewedData, SubDelivery
    <3> QED
      BY <2>1, <3>2, <3>3 DEF Service_CreateMonitoredItems
  <2>2. CASE Service_Republish(s)
    <3>1. s \in live /\ sub' = Renewed(s) /\ UNCHANGED <<live, lastSub, items, mon, sent, acked>>
      BY <2>2 DEF Service_Republish, ItemService, messages
    <3> QED
      BY <3>1, RenewedData, SubDelivery
  <2> QED
    BY <2>1, <2>2, ModifiedItemDelivery, MonitoringDelivery, DeletedItemDelivery, SampleDelivery
<1>3. CASE SubscriptionStep
  <2>1. ASSUME NEW D \in SUBSET live, Service_DeleteSubscriptions(D) PROVE EverySub'
    BY <2>1, DeletedDelivery DEF Service_DeleteSubscriptions, UA_Session_deleteSubscriptions,
       messages
  <2> QED
    BY <1>3, <2>1, CreatedDelivery, ModifiedDelivery, AcknowledgedDelivery DEF SubscriptionStep
<1>4. CASE SessionStep
  <2>1. CASE UA_Session_deleteMembersCleanup
    <3>1. /\ live' = live \ live /\ UA_Subscription_deleteMembers(live)
          /\ UNCHANGED <<lastSub, sent, acked>>
      BY <2>1 DEF UA_Session_deleteMembersCleanup, DelayedStep, messages
    <3> QED
      BY <3>1, DeletedDelivery
  <2>2. CASE ~UA_Session_deleteMembersCleanup
    <3>1. UNCHANGED <<subVars, messages>>
      BY <1>4, <2>2 DEF SessionStep, SessionTimeout, removeSession, removeSecureChannel,
         Service_ActivateSession, Environment, removeSecureChannelCallback, DelayedStep,
         UA_Subscription_answerPublishRequestsNoSubscription, subVars
    <3> QED
      BY <3>1, UnchangedDelivery
  <2> QED
    BY <2>1, <2>2
<1>5. CASE Loop
  BY <1>5, UnchangedDelivery DEF Loop, RoundDone, JobsDone, UA_RepeatedJobsList_process, NoStep
<1> QED
  BY <1>1, <1>2, <1>3, <1>4, <1>5, PublishDelivery DEF Next

-----------------------------------------------------------------------------
(* Flagged jobs: each is on the list.                                      *)

\* Taken off and put on again, with or without memory.
LEMMA Recounted ==
    ASSUME NEW n \in Int, NEW was \in BOOLEAN, NEW want \in BOOLEAN,
           n >= IF was THEN 1 ELSE 0, NEW t \in reregister(n, was, want)
    PROVE  t[1] >= IF t[2] THEN 1 ELSE 0
<1>1. PICK m \in IF was THEN removeRepeatedJob(n) ELSE {n} :
          t \in IF want THEN addRepeatedJob(m) ELSE {<<m, FALSE>>}
  BY DEF reregister
<1>2. m \in Int /\ m >= 0
  BY <1>1 DEF removeRepeatedJob
<1>3. t = <<m + 1, TRUE>> \/ t = <<m, FALSE>>
  BY <1>1 DEF addRepeatedJob
<1>4. CASE t = <<m + 1, TRUE>>
  <2>1. t[1] = m + 1 /\ t[2] = TRUE
    BY <1>4
  <2>2. t[1] >= 1
    BY <1>2, <2>1
  <2> QED
    BY <2>1, <2>2, Zenon
<1>5. CASE t = <<m, FALSE>>
  <2>1. t[1] = m /\ t[2] = FALSE
    BY <1>5
  <2>2. t[1] >= 0
    BY <1>2, <2>1
  <2> QED
    BY <2>1, <2>2, Zenon
<1> QED
  BY <1>3, <1>4, <1>5

\* Put on the list, which has none or one.
LEMMA CountedMore ==
    ASSUME NEW n \in Int, n >= 0, NEW t \in addRepeatedJob(n)
    PROVE  t[1] >= IF t[2] THEN 1 ELSE 0
<1> DEFINE F == FALSE
           T == TRUE
<1>1. F \in BOOLEAN /\ T \in BOOLEAN /\ ~F /\ T
  OBVIOUS
<1> HIDE DEF F, T
<1>2. t \in reregister(n, F, T)
  BY <1>1 DEF reregister
<1>3. n >= IF F THEN 1 ELSE 0
  BY <1>1
<1> QED
  BY <1>1, <1>2, <1>3, Recounted

\* A step that changes no flag.
SameFlags ==
    \A s \in SubIds :
        /\ sub'[s].publishJobIsRegistered = sub[s].publishJobIsRegistered
        /\ \A i \in ItemIds : mon'[s][i].sampleJobIsRegistered = mon[s][i].sampleJobIsRegistered

LEMMA FlagsCounted == Counted /\ SameFlags /\ UNCHANGED timers => Counted'
<1> SUFFICES ASSUME Counted, SameFlags, UNCHANGED timers, NEW s \in SubIds
             PROVE  /\ timers'[<<s, 0>>] >= IF sub'[s].publishJobIsRegistered THEN 1 ELSE 0
                    /\ \A i \in ItemIds :
                          timers'[<<s, i>>] >= IF mon'[s][i].sampleJobIsRegistered THEN 1 ELSE 0
  BY DEF Counted
<1> QED
  BY Zenon DEF Counted, SameFlags

\* A publish job is registered anew.
LEMMA PublishCounted ==
    ASSUME Shapes, Counted, NEW s \in SubIds, NEW n, NEW r,
           n >= IF r.publishJobIsRegistered THEN 1 ELSE 0,
           sub' = [sub EXCEPT ![s] = r], timers' = [timers EXCEPT ![<<s, 0>>] = n],
           UNCHANGED mon
    PROVE  Counted'
<1>1. /\ timers'[<<s, 0>>] = n
      /\ \A x \in SubIds \ {s} : timers'[<<x, 0>>] = timers[<<x, 0>>]
      /\ \A x \in SubIds, i \in ItemIds : timers'[<<x, i>>] = timers[<<x, i>>]
  BY Pairs DEF Shapes
<1>2. sub'[s] = r /\ \A x \in SubIds \ {s} : sub'[x] = sub[x]
  BY DEF Shapes
<1> SUFFICES ASSUME NEW x \in SubIds
             PROVE  /\ timers'[<<x, 0>>] >= IF sub'[x].publishJobIsRegistered THEN 1 ELSE 0
                    /\ \A i \in ItemIds :
                          timers'[<<x, i>>] >= IF mon'[x][i].sampleJobIsRegistered THEN 1 ELSE 0
  BY DEF Counted
<1>3. timers'[<<x, 0>>] >= IF sub'[x].publishJobIsRegistered THEN 1 ELSE 0
  <2>1. CASE x = s
    BY <1>1, <1>2, <2>1, Zenon
  <2>2. CASE x # s
    <3>1. timers'[<<x, 0>>] = timers[<<x, 0>>] /\ sub'[x] = sub[x]
      BY <1>1, <1>2, <2>2
    <3> QED
      BY <3>1, Zenon DEF Counted
  <2> QED
    BY <2>1, <2>2
<1>4. ASSUME NEW i \in ItemIds
      PROVE  timers'[<<x, i>>] >= IF mon'[x][i].sampleJobIsRegistered THEN 1 ELSE 0
  <2>1. timers'[<<x, i>>] = timers[<<x, i>>] /\ mon'[x][i] = mon[x][i]
    BY <1>1
  <2> QED
    BY <2>1, Zenon DEF Counted
<1> QED
  BY <1>3, <1>4

\* The sample job of an item is registered anew.
LEMMA SampleCounted ==
    ASSUME Shapes, Counted, NEW s \in SubIds, NEW i \in ItemIds, NEW n, NEW m,
           n >= IF m.sampleJobIsRegistered THEN 1 ELSE 0,
           \A x \in SubIds : sub'[x].publishJobIsRegistered = sub[x].publishJobIsRegistered,
           mon' = [mon EXCEPT ![s][i] = m], timers' = [timers EXCEPT ![<<s, i>>] = n]
    PROVE  Counted'
<1>1. /\ timers'[<<s, i>>] = n
      /\ \A x \in SubIds : timers'[<<x, 0>>] = timers[<<x, 0>>]
      /\ \A x \in SubIds, k \in ItemIds : x # s \/ k # i => timers'[<<x, k>>] = timers[<<x, k>>]
  BY Pairs DEF Shapes
<1>2. mon'[s][i] = m /\ \A x \in SubIds, k \in ItemIds : x # s \/ k # i => mon'[x][k] = mon[x][k]
  BY DEF Shapes
<1> SUFFICES ASSUME NEW x \in SubIds
             PROVE  /\ timers'[<<x, 0>>] >= IF sub'[x].publishJobIsRegistered THEN 1 ELSE 0
                    /\ \A k \in ItemIds :
                          timers'[<<x, k>>] >= IF mon'[x][k].sampleJobIsRegistered THEN 1 ELSE 0
  BY DEF Counted
<1>3. timers'[<<x, 0>>] >= IF sub'[x].publishJobIsRegistered THEN 1 ELSE 0
  <2>1. timers'[<<x, 0>>] = timers[<<x, 0>>]
    BY <1>1
  <2> QED
    BY <2>1, Zenon DEF Counted
<1>4. ASSUME NEW k \in ItemIds
      PROVE  timers'[<<x, k>>] >= IF mon'[x][k].sampleJobIsRegistered THEN 1 ELSE 0
  <2>1. CASE x = s /\ k = i
    BY <1>1, <1>2, <2>1, Zenon
  <2>2. CASE x # s \/ k # i
    <3>1. timers'[<<x, k>>] = timers[<<x, k>>] /\ mon'[x][k] = mon[x][k]
      BY <1>1, <1>2, <2>2
    <3> QED
      BY <3>1, Zenon DEF Counted
  <2> QED
    BY <2>1, <2>2
<1> QED
  BY <1>3, <1>4

\* Jobs go with what they are for.
LEMMA GoneCounted ==
    ASSUME Shapes, Counted, NEW J \in SUBSET Jobs, unregister(J),
           \A s \in SubIds :
               /\ IF <<s, 0>> \in J THEN ~sub'[s].publishJobIsRegistered
                  ELSE sub'[s].publishJobIsRegistered = sub[s].publishJobIsRegistered
               /\ \A i \in ItemIds :
                     IF <<s, i>> \in J THEN ~mon'[s][i].sampleJobIsRegistered
                     ELSE mon'[s][i].sampleJobIsRegistered = mon[s][i].sampleJobIsRegistered
    PROVE  Counted'
<1>1. PICK lost : timers' = [j \in Jobs |-> IF j \in J \ lost /\ Registered(j)
                                            THEN timers[j] - 1 ELSE timers[j]]
  BY DEF unregister
<1>2. ASSUME NEW j \in Jobs, timers[j] >= IF Registered(j) THEN 1 ELSE 0
      PROVE  /\ j \in J => timers'[j] >= 0
             /\ j \notin J => timers'[j] = timers[j]
  <2>1. timers[j] \in Int /\ timers'[j] = IF j \in J \ lost /\ Registered(j)
                                          THEN timers[j] - 1 ELSE timers[j]
    BY <1>1 DEF Shapes
  <2>2. timers[j] >= 0 /\ (Registered(j) => timers[j] >= 1)
    BY <1>2, <2>1
  <2> QED
    BY <2>1, <2>2
<1> SUFFICES ASSUME NEW s \in SubIds
             PROVE  /\ timers'[<<s, 0>>] >= IF sub'[s].publishJobIsRegistered THEN 1 ELSE 0
                    /\ \A i \in ItemIds :
                          timers'[<<s, i>>] >= IF mon'[s][i].sampleJobIsRegistered THEN 1 ELSE 0
  BY DEF Counted
<1>3. timers'[<<s, 0>>] >= IF sub'[s].publishJobIsRegistered THEN 1 ELSE 0
  <2>1. <<s, 0>> \in Jobs /\ timers[<<s, 0>>] >= IF sub[s].publishJobIsRegistered THEN 1 ELSE 0
    BY Pairs DEF Counted
  <2>2. Registered(<<s, 0>>) = sub[s].publishJobIsRegistered
    BY DEF Registered
  <2>3. timers[<<s, 0>>] >= IF Registered(<<s, 0>>) THEN 1 ELSE 0
    BY <2>1, <2>2, Zenon
  <2>4. CASE <<s, 0>> \in J
    <3>1. timers'[<<s, 0>>] >= 0 /\ ~sub'[s].publishJobIsRegistered
      BY <1>2, <2>1, <2>3, <2>4, Zenon
    <3> QED
      BY <3>1, Zenon
  <2>5. CASE <<s, 0>> \notin J
    <3>1. /\ timers'[<<s, 0>>] = timers[<<s, 0>>]
          /\ sub'[s].publishJobIsRegistered = sub[s].publishJobIsRegistered
      BY <1>2, <2>1, <2>3, <2>5, Zenon
    <3> QED
      BY <2>1, <3>1, Zenon
  <2> QED
    BY <2>4, <2>5
<1>4. ASSUME NEW i \in ItemIds
      PROVE  timers'[<<s, i>>] >= IF mon'[s][i].sampleJobIsRegistered THEN 1 ELSE 0
  <2>1. /\ <<s, i>> \in Jobs /\ i # 0
        /\ timers[<<s, i>>] >= IF mon[s][i].sampleJobIsRegistered THEN 1 ELSE 0
    BY Pairs DEF Counted
  <2>2. Registered(<<s, i>>) = mon[s][i].sampleJobIsRegistered
    BY <2>1 DEF Registered
  <2>3. timers[<<s, i>>] >= IF Registered(<<s, i>>) THEN 1 ELSE 0
    BY <2>1, <2>2, Zenon
  <2>4. CASE <<s, i>> \in J
    <3>1. timers'[<<s, i>>] >= 0 /\ ~mon'[s][i].sampleJobIsRegistered
      BY <1>2, <2>1, <2>3, <2>4, Zenon
    <3> QED
      BY <3>1, Zenon
  <2>5. CASE <<s, i>> \notin J
    <3>1. /\ timers'[<<s, i>>] = timers[<<s, i>>]
          /\ mon'[s][i].sampleJobIsRegistered = mon[s][i].sampleJobIsRegistered
      BY <1>2, <2>1, <2>3, <2>5, Zenon
    <3> QED
      BY <2>1, <3>1, Zenon
  <2> QED
    BY <2>4, <2>5
<1> QED
  BY <1>3, <1>4

\* A new subscription, and other settings of one.
LEMMA CreatedCounted ==
    ASSUME Shapes, Counted, Service_CreateSubscription
    PROVE  Counted'
<1> DEFINE s == lastSub + 1
           n == timers[<<s, 0>>]
           F == FALSE
           T == TRUE
<1>1. s \in SubIds /\ UNCHANGED mon
  BY DEF Service_CreateSubscription
<1>2. n \in Int /\ n >= 0 /\ F \in BOOLEAN /\ T \in BOOLEAN /\ ~F
  BY <1>1, Pairs DEF Shapes, Counted
<1>3. PICK on \in BOOLEAN, want \in SubscriptionSettings, t \in reregister(n, F, T) :
        LET new == setSubscriptionSettings([NoSub EXCEPT !.publishingEnabled = on], t[2], want) IN
          /\ sub' = [sub EXCEPT ![s] = [new EXCEPT !.currentKeepAliveCount = new.maxKeepAliveCount]]
          /\ timers' = [timers EXCEPT ![<<s, 0>>] = t[1]]
  BY DEF Service_CreateSubscription
<1> DEFINE zero == [NoSub EXCEPT !.publishingEnabled = on]
           new == setSubscriptionSettings(zero, t[2], want)
           r == [new EXCEPT !.currentKeepAliveCount = new.maxKeepAliveCount]
<1>4. r.publishJobIsRegistered = t[2]
  BY DEF setSubscriptionSettings, NoSub
<1>5. sub' = [sub EXCEPT ![s] = r] /\ timers' = [timers EXCEPT ![<<s, 0>>] = t[1]]
  BY <1>3
<1> HIDE DEF r, n, F, T
<1>6. t[1] >= IF t[2] THEN 1 ELSE 0
  <2>1. n >= IF F THEN 1 ELSE 0
    BY <1>2
  <2> QED
    BY <1>2, <2>1, Recounted
<1>7. t[1] >= IF r.publishJobIsRegistered THEN 1 ELSE 0
  BY <1>4, <1>6, Zenon
<1> HIDE DEF s
<1> QED
  BY <1>1, <1>5, <1>7, PublishCounted

LEMMA ModifiedCounted ==
    ASSUME Shapes, Counted, NEW s \in SubIds, Service_ModifySubscription(s)
    PROVE  Counted'
<1> DEFINE n == timers[<<s, 0>>]
           was == sub[s].publishJobIsRegistered
           T == TRUE
<1>1. UNCHANGED mon /\ IsSub(sub[s])
  BY DEF Service_ModifySubscription, Shapes
<1>2. n \in Int /\ was \in BOOLEAN /\ T \in BOOLEAN /\ n >= IF was THEN 1 ELSE 0
  <2>1. n \in Int /\ was \in BOOLEAN
    BY <1>1, Pairs DEF Shapes, IsSub
  <2>2. n >= IF was THEN 1 ELSE 0
    BY DEF Counted
  <2> QED
    BY <2>1, <2>2
<1>3. PICK want \in SubscriptionSettings, t \in reregister(n, was, T) :
        /\ sub' = [sub EXCEPT ![s] = [setSubscriptionSettings(sub[s], t[2], want) EXCEPT
                                         !.currentLifetimeCount = 0]]
        /\ timers' = [timers EXCEPT ![<<s, 0>>] = t[1]]
  BY DEF Service_ModifySubscription
<1> DEFINE r == [setSubscriptionSettings(sub[s], t[2], want) EXCEPT !.currentLifetimeCount = 0]
<1>4. r.publishJobIsRegistered = t[2]
  BY <1>1 DEF setSubscriptionSettings, IsSub, NoSub
<1>5. sub' = [sub EXCEPT ![s] = r] /\ timers' = [timers EXCEPT ![<<s, 0>>] = t[1]]
  BY <1>3
<1> HIDE DEF r, n, was, T
<1>6. t[1] >= IF t[2] THEN 1 ELSE 0
  BY <1>2, Recounted
<1>7. t[1] >= IF r.publishJobIsRegistered THEN 1 ELSE 0
  BY <1>4, <1>6, Zenon
<1> QED
  BY <1>1, <1>5, <1>7, PublishCounted

\* One subscription changes, but not its flag.
LEMMA SubFlags ==
    ASSUME Shapes, Counted, NEW s \in SubIds, NEW r,
           r.publishJobIsRegistered = sub[s].publishJobIsRegistered,
           sub' = [sub EXCEPT ![s] = r], UNCHANGED <<mon, timers>>
    PROVE  Counted'
<1>1. SameFlags
  BY DEF SameFlags, Shapes
<1> QED
  BY <1>1, FlagsCounted

\* One item changes, but not its flag.
LEMMA MonFlags ==
    ASSUME Shapes, Counted, NEW s \in SubIds, NEW i \in ItemIds, NEW m,
           m.sampleJobIsRegistered = mon[s][i].sampleJobIsRegistered,
           mon' = [mon EXCEPT ![s][i] = m], UNCHANGED <<sub, timers>>
    PROVE  Counted'
<1>1. SameFlags
  BY DEF SameFlags, Shapes
<1> QED
  BY <1>1, FlagsCounted

LEMMA RenewedFlags ==
    ASSUME Shapes, NEW s \in SubIds, sub' = Renewed(s)
    PROVE  \A x \in SubIds : sub'[x].publishJobIsRegistered = sub[x].publishJobIsRegistered
  BY DEF Shapes, IsSub, NoSub, Renewed

\* The publish callback, if the subscription lives on.
LEMMA PublishFlags ==
    ASSUME Shapes, Counted, NEW s \in SubIds, publishNothing(s) \/ publishLate(s) \/ publishSend(s)
    PROVE  Counted'
<1>1. UNCHANGED timers /\ IsSub(sub[s]) /\ DOMAIN sub = SubIds /\ DOMAIN mon = SubIds
  BY DEF publishNothing, publishLate, publishSend, Shapes
<1>2. /\ \E r : /\ sub' = [sub EXCEPT ![s] = r]
                /\ r.publishJobIsRegistered = sub[s].publishJobIsRegistered
  <2>1. CASE publishNothing(s)
    <3> DEFINE k == KeepAlive(s, countQueuedNotifications(s))
               r == [sub[s] EXCEPT !.currentKeepAliveCount = k]
    <3>1. sub' = [sub EXCEPT ![s] = r]
      BY <2>1 DEF publishNothing
    <3> HIDE DEF k
    <3>2. r.publishJobIsRegistered = sub[s].publishJobIsRegistered
      BY <1>1 DEF IsSub, NoSub
    <3> QED
      BY <3>1, <3>2
  <2>2. CASE publishLate(s)
    <3> DEFINE k == KeepAlive(s, countQueuedNotifications(s))
               c == IF sub[s].state = "LATE" THEN sub[s].currentLifetimeCount + 1
                    ELSE sub[s].currentLifetimeCount
               r == [sub[s] EXCEPT !.state = "LATE", !.currentLifetimeCount = c,
                                   !.currentKeepAliveCount = k]
    <3>1. sub' = [sub EXCEPT ![s] = r]
      BY <2>2 DEF publishLate
    <3> HIDE DEF k, c
    <3>2. r.publishJobIsRegistered = sub[s].publishJobIsRegistered
      BY <1>1 DEF IsSub, NoSub
    <3> QED
      BY <3>1, <3>2
  <2>3. CASE publishSend(s)
    <3> DEFINE n == countQueuedNotifications(s)
               m == [seq |-> sub[s].sequenceNumber + 1, notes |-> SubSeq(Pending(s), 1, n)]
               r == SentRecord(sub[s])
               q == UA_Subscription_addRetransmissionMessage(r.retransmissionQueue, m)
               p == [r EXCEPT !.sequenceNumber = m.seq, !.retransmissionQueue = q]
    <3>1. sub' = [sub EXCEPT ![s] = r] \/ sub' = [sub EXCEPT ![s] = p]
      BY <2>3 DEF publishSend
    <3> HIDE DEF m, n, q
    <3>2. /\ r.publishJobIsRegistered = sub[s].publishJobIsRegistered
          /\ p.publishJobIsRegistered = sub[s].publishJobIsRegistered
      BY <1>1 DEF SentRecord, IsSub, NoSub
    <3> HIDE DEF r, p
    <3> QED
      BY <3>1, <3>2
  <2> QED
    BY <2>1, <2>2, <2>3
<1>3. \A x \in SubIds, i \in ItemIds :
        mon'[x][i].sampleJobIsRegistered = mon[x][i].sampleJobIsRegistered
  <2>1. CASE UNCHANGED mon
    BY <2>1
  <2>2. CASE \E n : prepareNotificationMessage(s, n)
    <3>1. PICK n : prepareNotificationMessage(s, n)
      BY <2>2
    <3> DEFINE Q(i) == SubSeq(mon[s][i].queue, LeftFor(s, i, n) + 1, Len(mon[s][i].queue))
    <3>2. \A i \in ItemIds : mon'[s][i] = [mon[s][i] EXCEPT !.queue = Q(i)]
      BY <1>1, <3>1 DEF prepareNotificationMessage
    <3>3. \A x \in SubIds \ {s} : mon'[x] = mon[x]
      BY <1>1, <3>1 DEF prepareNotificationMessage
    <3> HIDE DEF Q
    <3>4. \A i \in ItemIds : IsMon(mon[s][i])
      BY DEF Shapes
    <3>5. \A i \in ItemIds : mon'[s][i].sampleJobIsRegistered = mon[s][i].sampleJobIsRegistered
      BY <3>2, <3>4 DEF IsMon, NoMon
    <3> QED
      BY <3>3, <3>5
  <2> QED
    BY <2>1, <2>2 DEF publishNothing, publishLate, publishSend
<1>4. PICK r : /\ sub' = [sub EXCEPT ![s] = r]
               /\ r.publishJobIsRegistered = sub[s].publishJobIsRegistered
  BY <1>2
<1>5. \A x \in SubIds : sub'[x].publishJobIsRegistered = sub[x].publishJobIsRegistered
  BY <1>1, <1>4
<1>6. SameFlags
  BY <1>3, <1>5 DEF SameFlags
<1> QED
  BY <1>1, <1>6, FlagsCounted

\* A publish request with its acknowledgements.
LEMMA RequestFlags ==
    ASSUME Shapes, Counted, NEW A, Service_Publish(A)
    PROVE  Counted'
<1> DEFINE Q(s) == UA_Subscription_removeRetransmissionMessage(sub[s].retransmissionQueue,
                                                               Acknowledged(A, s))
<1>1. /\ UNCHANGED <<mon, timers>>
      /\ \/ UNCHANGED sub
         \/ sub' = [s \in SubIds |-> [sub[s] EXCEPT !.retransmissionQueue = Q(s)]]
  BY DEF Service_Publish
<1> HIDE DEF Q
<1>2. SameFlags
  BY <1>1 DEF SameFlags, Shapes, IsSub, NoSub
<1> QED
  BY <1>1, <1>2, FlagsCounted

\* A new item.
LEMMA NewItemCounted ==
    ASSUME Shapes, Counted, NEW s \in SubIds, Service_CreateMonitoredItems_single(s)
    PROVE  Counted'
<1>1. IsSub(sub[s])
  BY DEF Shapes
<1>2. CASE sub' = Renewed(s) /\ UNCHANGED <<mon, timers>>
  <2>1. SameFlags
    BY <1>2, RenewedFlags DEF SameFlags
  <2> QED
    BY <1>2, <2>1, FlagsCounted
<1> DEFINE i == sub[s].lastMonitoredItemId + 1
           New(on, want, f) == setMonitoredItemSettings([NoMon EXCEPT !.reporting = on], f, want)
           n == timers[<<s, i>>]
           F == FALSE
<1>3. CASE /\ sub' = [Renewed(s) EXCEPT ![s].lastMonitoredItemId = i]
           /\ \E on \in BOOLEAN, want \in ItemSettings :
                \E t \in reregister(n, F, on) :
                  /\ timers' = [timers EXCEPT ![<<s, i>>] = t[1]]
                  /\ \E m \in IF on THEN sampleCallbackWithValue(New(on, want, t[2]), i)
                             ELSE {New(on, want, t[2])} :
                       mon' = [mon EXCEPT ![s][i] = m]
  <2>1. i \in ItemIds
    BY DEF Service_CreateMonitoredItems_single
  <2>2. \A x \in SubIds : sub'[x].publishJobIsRegistered = sub[x].publishJobIsRegistered
    BY <1>3 DEF Shapes, IsSub, NoSub, Renewed
  <2>0. PICK on \in BOOLEAN, want \in ItemSettings :
            \E t \in reregister(n, F, on) :
              /\ timers' = [timers EXCEPT ![<<s, i>>] = t[1]]
              /\ \E m \in IF on THEN sampleCallbackWithValue(New(on, want, t[2]), i)
                         ELSE {New(on, want, t[2])} :
                   mon' = [mon EXCEPT ![s][i] = m]
    BY <1>3
  <2>3. PICK t \in reregister(n, F, on) :
            /\ timers' = [timers EXCEPT ![<<s, i>>] = t[1]]
            /\ \E m \in IF on THEN sampleCallbackWithValue(New(on, want, t[2]), i)
                       ELSE {New(on, want, t[2])} :
                 mon' = [mon EXCEPT ![s][i] = m]
    BY <2>0
  <2> DEFINE new == New(on, want, t[2])
  <2>4. n \in Int /\ n >= 0 /\ F \in BOOLEAN /\ ~F
    <3> HIDE DEF i
    <3>1. n \in Int
      BY <2>1, Pairs DEF Shapes
    <3>2. n >= IF mon[s][i].sampleJobIsRegistered THEN 1 ELSE 0
      BY <2>1 DEF Counted
    <3> HIDE DEF n
    <3> QED
      BY <3>1, <3>2
  <2>5. t[1] >= IF t[2] THEN 1 ELSE 0
    <3> HIDE DEF n, F
    <3>1. n >= IF F THEN 1 ELSE 0
      BY <2>4
    <3> QED
      BY <2>4, <3>1, Recounted
  <2>6. new.sampleJobIsRegistered = t[2] /\ DOMAIN new = DOMAIN NoMon
    BY DEF setMonitoredItemSettings, NoMon
  <2>7. PICK m \in IF on THEN sampleCallbackWithValue(new, i) ELSE {new} :
            mon' = [mon EXCEPT ![s][i] = m]
    BY <2>3
  <2> HIDE DEF New, new
  <2>8. m.sampleJobIsRegistered = t[2]
    <3>1. CASE m \in sampleCallbackWithValue(new, i)
      BY <2>6, <3>1 DEF sampleCallbackWithValue, sampled, NoMon
    <3> QED
      BY <2>6, <2>7, <3>1
  <2>9. t[1] >= IF m.sampleJobIsRegistered THEN 1 ELSE 0
    BY <2>5, <2>8, Zenon
  <2>10. timers' = [timers EXCEPT ![<<s, i>>] = t[1]]
    BY <2>3
  <2> HIDE DEF i
  <2> QED
    BY <2>1, <2>2, <2>7, <2>9, <2>10, SampleCounted
<1> QED
  BY <1>2, <1>3 DEF Service_CreateMonitoredItems_single

\* Other settings of an item, or another mode.
LEMMA ModifiedItemCounted ==
    ASSUME Shapes, Counted, NEW s \in SubIds, NEW i \in ItemIds,
           Service_ModifyMonitoredItems(s, i) \/ Service_SetMonitoringMode(s, i)
    PROVE  Counted'
<1> DEFINE n == timers[<<s, i>>]
           was == mon[s][i].sampleJobIsRegistered
<1>1. IsMon(mon[s][i]) /\ n \in Int /\ was \in BOOLEAN
  BY Pairs DEF Shapes, IsMon
<1>2. n >= IF was THEN 1 ELSE 0
  BY DEF Counted
<1>3. n >= 0
  <2> HIDE DEF n, was
  <2> QED
    BY <1>1, <1>2
<1>4. \A x \in SubIds : sub'[x].publishJobIsRegistered = sub[x].publishJobIsRegistered
  BY RenewedFlags DEF Service_ModifyMonitoredItems, Service_SetMonitoringMode
<1>5. CASE Service_ModifyMonitoredItems(s, i)
  <2> DEFINE on == mon[s][i].reporting
  <2>1. PICK want \in ItemSettings, t \in reregister(n, was, on) :
          /\ mon' = [mon EXCEPT ![s][i] = setMonitoredItemSettings(@, t[2], want)]
          /\ timers' = [timers EXCEPT ![<<s, i>>] = t[1]]
    BY <1>5 DEF Service_ModifyMonitoredItems
  <2> DEFINE m == setMonitoredItemSettings(mon[s][i], t[2], want)
  <2>2. mon' = [mon EXCEPT ![s][i] = m]
    BY <2>1 DEF Shapes
  <2>3. m.sampleJobIsRegistered = t[2] /\ on \in BOOLEAN
    BY <1>1 DEF setMonitoredItemSettings, IsMon, NoMon
  <2> HIDE DEF m, n, was, on
  <2>4. t[1] >= IF t[2] THEN 1 ELSE 0
    BY <1>1, <1>2, <2>3, Recounted
  <2>5. t[1] >= IF m.sampleJobIsRegistered THEN 1 ELSE 0
    BY <2>3, <2>4, Zenon
  <2> QED
    BY <1>4, <2>1, <2>2, <2>5, SampleCounted
<1>6. CASE Service_SetMonitoringMode(s, i)
  <2> DEFINE on == ~mon[s][i].reporting
             F == FALSE
  <2>1. PICK t \in IF on THEN addRepeatedJob(n) ELSE reregister(n, was, F) :
          /\ mon' = [mon EXCEPT ![s][i].reporting = on, ![s][i].sampleJobIsRegistered = t[2]]
          /\ timers' = [timers EXCEPT ![<<s, i>>] = t[1]]
    BY <1>6 DEF Service_SetMonitoringMode
  <2> DEFINE m == [mon[s][i] EXCEPT !.reporting = on, !.sampleJobIsRegistered = t[2]]
  <2> HIDE DEF on
  <2>2. mon' = [mon EXCEPT ![s][i] = m]
    BY <2>1 DEF Shapes
  <2>3. m.sampleJobIsRegistered = t[2] /\ F \in BOOLEAN
    BY <1>1 DEF IsMon, NoMon
  <2> HIDE DEF m, n, was, F
  <2>4. t[1] >= IF t[2] THEN 1 ELSE 0
    <3>1. CASE on
      <4>1. t \in addRepeatedJob(n)
        BY <2>1, <3>1
      <4> QED
        BY <1>1, <1>3, <4>1, CountedMore
    <3>2. CASE ~on
      <4>1. t \in reregister(n, was, F)
        BY <2>1, <3>2
      <4> QED
        BY <1>1, <1>2, <2>3, <4>1, Recounted
    <3> QED
      BY <3>1, <3>2
  <2>5. t[1] >= IF m.sampleJobIsRegistered THEN 1 ELSE 0
    BY <2>3, <2>4, Zenon
  <2> QED
    BY <1>4, <2>1, <2>2, <2>5, SampleCounted
<1> QED
  BY <1>5, <1>6

\* An item, or a subscription, goes with its jobs.
LEMMA DeletedItemCounted ==
    ASSUME Shapes, Counted, NEW s \in SubIds, NEW i \in ItemIds, Service_DeleteMonitoredItems(s, i)
    PROVE  Counted'
<1> DEFINE J == {<<s, i>>}
<1>1. sub' = Renewed(s) /\ mon' = [mon EXCEPT ![s][i] = NoMon] /\ unregister(J)
  BY DEF Service_DeleteMonitoredItems, UA_Subscription_deleteMonitoredItem
<1>2. J \in SUBSET Jobs /\ \A x \in SubIds : <<x, 0>> \notin J
  BY Pairs
<1>3. \A x \in SubIds, k \in ItemIds : <<x, k>> \in J <=> x = s /\ k = i
  OBVIOUS
<1> HIDE DEF J
<1>4. \A x \in SubIds : sub'[x].publishJobIsRegistered = sub[x].publishJobIsRegistered
  BY <1>1, RenewedFlags
<1>5. \A x \in SubIds, k \in ItemIds :
        IF <<x, k>> \in J THEN ~mon'[x][k].sampleJobIsRegistered ELSE mon'[x][k] = mon[x][k]
  <2>1. ~NoMon.sampleJobIsRegistered
    BY DEF NoMon
  <2> QED
    BY <1>1, <1>3, <2>1 DEF Shapes
<1>6. \A x \in SubIds :
        /\ IF <<x, 0>> \in J THEN ~sub'[x].publishJobIsRegistered
           ELSE sub'[x].publishJobIsRegistered = sub[x].publishJobIsRegistered
        /\ \A k \in ItemIds :
              IF <<x, k>> \in J THEN ~mon'[x][k].sampleJobIsRegistered
              ELSE mon'[x][k].sampleJobIsRegistered = mon[x][k].sampleJobIsRegistered
  BY <1>2, <1>4, <1>5
<1> QED
  BY <1>1, <1>2, <1>6, GoneCounted

LEMMA DeletedCounted ==
    ASSUME Shapes, Counted, NEW D, UA_Subscription_deleteMembers(D)
    PROVE  Counted'
<1> DEFINE J == {j \in Jobs : j[1] \in D}
<1>1. /\ unregister(J)
      /\ sub' = [s \in SubIds |-> IF s \in D THEN NoSub ELSE sub[s]]
      /\ mon' = [s \in SubIds |-> IF s \in D THEN [i \in ItemIds |-> NoMon] ELSE mon[s]]
  BY DEF UA_Subscription_deleteMembers
<1>2. J \in SUBSET Jobs
  OBVIOUS
<1>3. \A s \in SubIds : /\ <<s, 0>> \in J <=> s \in D
                        /\ \A i \in ItemIds : <<s, i>> \in J <=> s \in D
  BY Pairs
<1>4. ~NoSub.publishJobIsRegistered /\ ~NoMon.sampleJobIsRegistered
  BY DEF NoSub, NoMon
<1> HIDE DEF J
<1>5. ASSUME NEW x \in SubIds
      PROVE  /\ IF <<x, 0>> \in J THEN ~sub'[x].publishJobIsRegistered
                ELSE sub'[x].publishJobIsRegistered = sub[x].publishJobIsRegistered
             /\ \A k \in ItemIds :
                   IF <<x, k>> \in J THEN ~mon'[x][k].sampleJobIsRegistered
                   ELSE mon'[x][k].sampleJobIsRegistered = mon[x][k].sampleJobIsRegistered
  <2>1. CASE x \in D
    BY <1>1, <1>3, <1>4, <2>1
  <2>2. CASE x \notin D
    <3>1. sub'[x] = sub[x] /\ mon'[x] = mon[x]
      BY <1>1, <2>2
    <3> QED
      BY <1>3, <2>2, <3>1, Zenon
  <2> QED
    BY <2>1, <2>2
<1> QED
  BY <1>1, <1>2, <1>5, GoneCounted

\* Every step keeps a flagged job on the list.
LEMMA StepCounted ==
    ASSUME Shapes, Counted, [Next]_vars
    PROVE  Counted'
<1>1. ASSUME UNCHANGED <<sub, mon, timers>> PROVE Counted'
  <2>1. SameFlags
    BY <1>1 DEF SameFlags
  <2> QED
    BY <1>1, <2>1, FlagsCounted
<1>2. ASSUME NEW s \in SubIds, sub' = Renewed(s), UNCHANGED <<mon, timers>> PROVE Counted'
  <2>1. SameFlags
    BY <1>2, RenewedFlags DEF SameFlags
  <2> QED
    BY <1>2, <2>1, FlagsCounted
<1>3. CASE ItemStep
  <2>1. ASSUME NEW s \in SubIds, Service_CreateMonitoredItems(s) PROVE Counted'
    BY <1>2, <2>1, NewItemCounted DEF Service_CreateMonitoredItems
  <2>2. ASSUME NEW s \in SubIds, Service_Republish(s) PROVE Counted'
    BY <1>2, <2>2 DEF Service_Republish
  <2>3. ASSUME NEW s \in SubIds, NEW i \in ItemIds, UA_MonitoredItem_SampleCallback(s, i)
        PROVE  Counted'
    <3>1. UNCHANGED <<sub, timers>>
      BY <2>3 DEF UA_MonitoredItem_SampleCallback
    <3>2. CASE UNCHANGED mon
      BY <1>1, <3>1, <3>2
    <3>3. CASE \E m \in sampleCallbackWithValue(mon[s][i], i) : mon' = [mon EXCEPT ![s][i] = m]
      <4>1. PICK m \in sampleCallbackWithValue(mon[s][i], i) : mon' = [mon EXCEPT ![s][i] = m]
        BY <3>3
      <4>2. IsMon(mon[s][i])
        BY DEF Shapes
      <4>3. m.sampleJobIsRegistered = mon[s][i].sampleJobIsRegistered
        BY <4>2, Sampling
      <4> QED
        BY <3>1, <4>1, <4>3, MonFlags
    <3> QED
      BY <2>3, <3>2, <3>3 DEF UA_MonitoredItem_SampleCallback
  <2> QED
    BY <1>3, <2>1, <2>2, <2>3, ModifiedItemCounted, DeletedItemCounted DEF ItemStep
<1>4. CASE SubscriptionStep
  <2>1. ASSUME NEW s \in SubIds, Service_SetPublishingMode(s) PROVE Counted'
    <3> DEFINE on == ~sub[s].publishingEnabled
               r == [sub[s] EXCEPT !.publishingEnabled = on, !.currentLifetimeCount = 0]
    <3>1. sub' = [sub EXCEPT ![s] = r] /\ UNCHANGED <<mon, timers>> /\ IsSub(sub[s])
      BY <2>1 DEF Service_SetPublishingMode, Shapes
    <3> HIDE DEF on
    <3>2. r.publishJobIsRegistered = sub[s].publishJobIsRegistered
      BY <3>1 DEF IsSub, NoSub
    <3> HIDE DEF r
    <3> QED
      BY <3>1, <3>2, SubFlags
  <2>2. ASSUME NEW D \in SUBSET live, Service_DeleteSubscriptions(D) PROVE Counted'
    BY <2>2, DeletedCounted DEF Service_DeleteSubscriptions, UA_Session_deleteSubscriptions
  <2> QED
    BY <1>4, <2>1, <2>2, CreatedCounted, ModifiedCounted, RequestFlags DEF SubscriptionStep
<1>5. CASE SessionStep
  <2>1. CASE UA_Session_deleteMembersCleanup
    BY <2>1, DeletedCounted DEF UA_Session_deleteMembersCleanup
  <2>2. CASE ~UA_Session_deleteMembersCleanup
    <3>1. UNCHANGED <<sub, mon, timers>>
      BY <1>5, <2>2 DEF SessionStep, SessionTimeout, removeSession, removeSecureChannel,
         Service_ActivateSession, Environment, removeSecureChannelCallback,
         UA_Subscription_answerPublishRequestsNoSubscription, subVars
    <3> QED
      BY <1>1, <3>1
  <2> QED
    BY <2>1, <2>2
<1>6. CASE Loop
  BY <1>1, <1>6 DEF Loop, RoundDone, JobsDone, UA_RepeatedJobsList_process, NoStep, subVars
<1>7. ASSUME NEW s \in SubIds, UA_Subscription_publishCallback(s) PROVE Counted'
  <2>1. CASE publishExpire(s)
    BY <2>1, DeletedCounted DEF publishExpire, UA_Session_deleteSubscriptions
  <2>2. CASE publishFreed(s)
    BY <1>1, <2>2 DEF publishFreed, subVars
  <2> QED
    BY <1>7, <2>1, <2>2, PublishFlags DEF UA_Subscription_publishCallback
<1>8. CASE UNCHANGED vars
  BY <1>1, <1>8 DEF vars, subVars
<1> QED
  BY <1>3, <1>4, <1>5, <1>6, <1>7, <1>8 DEF Next

-----------------------------------------------------------------------------
(* Where the session and the main loop are.                                *)

\* The first late subscription is one that lives.
LEMMA LateOne == Shapes => firstLate \in live \cup {0}
<1> SUFFICES ASSUME Shapes PROVE firstLate \in live \cup {0}
  OBVIOUS
<1> DEFINE L == {s \in live : sub[s].state = "LATE"}
           F == {lastSub - s : s \in L}
<1>1. CASE L = {}
  BY <1>1 DEF firstLate
<1>2. CASE L # {}
  <2>1. lastSub \in Nat /\ L \subseteq 1..lastSub
    <3>1. live \subseteq 1..lastSub /\ lastSub \in 0..MaxSubs
      BY DEF Shapes
    <3>2. L \subseteq live
      OBVIOUS
    <3>3. MaxSubs \in Nat
      BY BoundAssumption
    <3> HIDE DEF L, F
    <3> QED
      BY <3>1, <3>2, <3>3
  <2>2. F \in SUBSET (0..lastSub) /\ F # {}
    BY <1>2, <2>1
  <2>3. \A s \in L : lastSub - s \in F
    OBVIOUS
  <2>4. \A f \in F : \E s \in L : f = lastSub - s
    OBVIOUS
  <2> HIDE DEF F, L
  <2>5. PICK f \in F : \A g \in F : f <= g
    BY <2>1, <2>2, LeastNumber
  <2>6. PICK s \in L : f = lastSub - s
    BY <2>4
  <2>7. \A y \in L : s >= y
    BY <2>1, <2>3, <2>5, <2>6
  <2>8. Max(L) \in L
    BY <2>7 DEF Max
  <2> QED
    BY <1>2, <2>8 DEF firstLate, L
<1> QED
  BY <1>1, <1>2

\* A service runs no callback, but that of the first late subscription.
LEMMA ServeModes ==
    ASSUME Modes, Serve, calling' \in live' \cup {0}, requests' \in 0..MaxRequests,
           fault' \in {"none", "unlinked"}
    PROVE  Modes'
  BY DEF Modes, Serve

\* A service with no publish request.
LEMMA QuietModes ==
    ASSUME Modes, Serve, UNCHANGED <<requests, calling>>, fault' \in {"none", "unlinked"}
    PROVE  Modes'
<1>1. calling' \in live' \cup {0} /\ requests' \in 0..MaxRequests
  BY DEF Modes, Serve, Idle
<1> QED
  BY <1>1, ServeModes

LEMMA StepModes ==
    ASSUME Shapes, Modes, [Next]_vars
    PROVE  Modes'
<1>1. CASE ItemStep
  <2>1. CASE \E s \in SubIds, i \in ItemIds : UA_MonitoredItem_SampleCallback(s, i)
    BY <2>1 DEF UA_MonitoredItem_SampleCallback, Modes, requestVars, sessionVars
  <2>2. CASE Serve /\ UNCHANGED <<requests, calling>> /\ fault' \in {"none", "unlinked"}
    BY <2>2, QuietModes
  <2>3. ASSUME NEW s \in SubIds, Service_CreateMonitoredItems(s) PROVE Modes'
    <3>1. Serve /\ UNCHANGED <<requests, calling>> /\ fault = "none"
      BY <2>3 DEF Service_CreateMonitoredItems, requestVars, Serve, Idle
    <3>2. fault' = fault \/ fault' = "unlinked"
      BY <2>3 DEF Service_CreateMonitoredItems, Service_CreateMonitoredItems_single, faults
    <3> QED
      BY <2>2, <3>1, <3>2
  <2>4. ASSUME NEW s \in SubIds, ItemService(s) PROVE Modes'
    <3>1. Serve /\ UNCHANGED <<requests, calling, fault>> /\ fault = "none"
      BY <2>4 DEF ItemService, requestVars, faults, Serve, Idle
    <3> QED
      BY <2>2, <3>1
  <2> QED
    BY <1>1, <2>1, <2>3, <2>4 DEF ItemStep, Service_Republish, Service_ModifyMonitoredItems,
       Service_SetMonitoringMode, Service_DeleteMonitoredItems
<1>2. CASE SubscriptionStep
  <2>1. CASE Serve /\ UNCHANGED <<requests, calling>> /\ fault' = fault
    BY <2>1, QuietModes DEF Serve, Idle
  <2>2. ASSUME NEW A \in Acks, Service_Publish(A) PROVE Modes'
    <3>1. /\ Serve /\ UNCHANGED <<live, fault>> /\ requests' = requests + 1
          /\ requests + 1 <= MaxRequests /\ calling' \in {calling, firstLate}
      BY <2>2 DEF Service_Publish, faults
    <3>2. requests' \in 0..MaxRequests
      BY <3>1, BoundAssumption DEF Modes
    <3>3. calling' \in live' \cup {0}
      BY <3>1, LateOne DEF Serve, Idle
    <3> QED
      BY <3>1, <3>2, <3>3, ServeModes DEF Serve, Idle
  <2> QED
    BY <1>2, <2>1, <2>2 DEF SubscriptionStep, Service_CreateSubscription,
       Service_ModifySubscription, Service_SetPublishingMode, Service_DeleteSubscriptions,
       faults, requestVars
<1>3. CASE SessionStep
  <2>1. CASE SessionTimeout \/ removeSession \/ removeSecureChannel \/ Service_ActivateSession
    <3>1. UNCHANGED <<live, requests, phase, calling, fault>>
      BY <2>1 DEF SessionTimeout, removeSession, removeSecureChannel, Service_ActivateSession,
         Environment, subVars, faults, requestVars
    <3>2. channel' \in {"open", "closing", "none"}
      BY <2>1 DEF SessionTimeout, removeSession, removeSecureChannel, Service_ActivateSession, Modes
    <3>3. session' \in {"listed", "expired", "removed", "freed"}
      BY <2>1 DEF SessionTimeout, removeSession, removeSecureChannel, Service_ActivateSession, Modes
    <3> QED
      BY <3>1, <3>2, <3>3 DEF Modes
  <2>2. CASE removeSecureChannelCallback
    BY <2>2 DEF removeSecureChannelCallback, DelayedStep, Modes
  <2>3. CASE UA_Session_deleteMembersCleanup
    BY <2>3 DEF UA_Session_deleteMembersCleanup, DelayedStep, Idle, Modes
  <2>4. CASE UA_Subscription_answerPublishRequestsNoSubscription
    <3>1. /\ UNCHANGED <<live, requests, phase, calling, channel, session>>
          /\ fault' \in {fault, "channel"}
      BY <2>4 DEF UA_Subscription_answerPublishRequestsNoSubscription, DelayedStep
    <3> QED
      BY <3>1 DEF Modes
  <2> QED
    BY <1>3, <2>1, <2>2, <2>3, <2>4 DEF SessionStep
<1>4. CASE Loop
  BY <1>4 DEF Loop, RoundDone, JobsDone, UA_RepeatedJobsList_process, NoStep, subVars, requestVars,
     sessionVars, faults, Modes
<1>5. ASSUME NEW s \in SubIds, UA_Subscription_publishCallback(s) PROVE Modes'
  <2>1. UNCHANGED <<requests, channel, session, phase, fault>>
    BY <1>5 DEF UA_Subscription_publishCallback, publishNothing, publishLate, publishExpire,
       publishSend, publishFreed, NoRequest, requestVars, sessionVars, faults
  <2>2. calling' \in live' \cup {0}
    <3>1. CASE publishNothing(s) \/ publishLate(s) \/ publishExpire(s)
      BY <3>1 DEF publishNothing, publishLate, publishExpire, NoRequest
    <3>2. CASE publishSend(s)
      BY <3>2 DEF publishSend, Called
    <3>3. CASE publishFreed(s)
      BY <3>3 DEF publishFreed, Idle
    <3> QED
      BY <1>5, <3>1, <3>2, <3>3 DEF UA_Subscription_publishCallback
  <2> QED
    BY <2>1, <2>2 DEF Modes
<1>6. CASE UNCHANGED vars
  BY <1>6 DEF vars, subVars, requestVars, sessionVars, faults, Modes
<1> QED
  BY <1>1, <1>2, <1>3, <1>4, <1>5, <1>6 DEF Next

-----------------------------------------------------------------------------
(* The invariants.                                                         *)

LEMMA InitDelivery == Init => DeliveryInv
<1> SUFFICES ASSUME Init PROVE DeliveryInv
  OBVIOUS
<1>1. EverySub
  BY DEF Init, EverySub, Unsubscribed
<1>2. Counted
  <2>1. ~NoSub.publishJobIsRegistered /\ ~NoMon.sampleJobIsRegistered
    BY DEF NoSub, NoMon
  <2>2. \A s \in SubIds : /\ sub[s] = NoSub /\ timers[<<s, 0>>] = 0
                          /\ \A i \in ItemIds : mon[s][i] = NoMon /\ timers[<<s, i>>] = 0
    BY Pairs DEF Init
  <2>3. ASSUME NEW s \in SubIds
        PROVE  /\ timers[<<s, 0>>] >= IF sub[s].publishJobIsRegistered THEN 1 ELSE 0
               /\ \A i \in ItemIds :
                     timers[<<s, i>>] >= IF mon[s][i].sampleJobIsRegistered THEN 1 ELSE 0
    <3>1. ~sub[s].publishJobIsRegistered /\ timers[<<s, 0>>] >= 0
      BY <2>1, <2>2
    <3>2. ASSUME NEW i \in ItemIds
          PROVE  ~mon[s][i].sampleJobIsRegistered /\ timers[<<s, i>>] >= 0
      <4>1. mon[s][i] = NoMon /\ timers[<<s, i>>] = 0
        BY <2>2
      <4> QED
        BY <2>1, <4>1
    <3> QED
      BY <3>1, <3>2, Zenon
  <2> QED
    BY <2>3 DEF Counted
<1>3. Modes
  BY BoundAssumption DEF Init, Modes
<1> QED
  BY <1>1, <1>2, <1>3 DEF DeliveryInv

\* The inductive invariant of the deliveries, with that of the jobs.
THEOREM DeliveryInvariance == Spec => []DeliveryInv
<1>1. DeliveryInv /\ JobsInv /\ JobsInv' /\ [Next]_vars => DeliveryInv'
  BY StepDelivery, StepCounted, StepModes DEF DeliveryInv, JobsInv
<1> QED
  BY <1>1, InitDelivery, JobsInvariance, PTL DEF Spec

LEMMA DeliveryTypes == DeliveryInv /\ JobsInv /\ RequestsInv => TypeOK
<1> SUFFICES ASSUME DeliveryInv, JobsInv, RequestsInv PROVE TypeOK
  OBVIOUS
<1>1. Shapes /\ EverySub /\ Counted /\ Modes /\ Rounds /\ Stored /\ live \subseteq SubIds
  BY LiveIds DEF DeliveryInv, JobsInv, RequestsInv
<1>2. /\ live \subseteq 1..lastSub /\ lastSub \in 0..MaxSubs /\ due \subseteq Jobs
      /\ \A s \in SubIds \ live : sub[s] = NoSub /\ items[s] = {}
  BY <1>1 DEF Shapes, Rounds, EverySub, Unsubscribed
<1>3. \A s \in SubIds, i \in ItemIds : i \notin items[s] => mon[s][i] = NoMon
  <2> SUFFICES ASSUME NEW s \in SubIds, NEW i \in ItemIds, i \notin items[s] PROVE mon[s][i] = NoMon
    OBVIOUS
  <2>1. CASE s \in live
    <3>1. Delivers(sub[s].lastMonitoredItemId, items[s], mon[s], sent[s])
      BY <1>1, <2>1 DEF EverySub, Subscribed
    <3> QED
      BY <3>1 DEF Delivers
  <2>2. CASE s \notin live
    BY <1>1, <2>2 DEF EverySub, Unsubscribed
  <2> QED
    BY <2>1, <2>2
<1>4. ASSUME NEW s \in live
      PROVE  /\ sub[s].state \in {"NORMAL", "LATE"}
             /\ sub[s].maxKeepAliveCount \in keepAliveCountLimits.min..keepAliveCountLimits.max
             /\ sub[s].lifeTimeCount >= 3 * sub[s].maxKeepAliveCount
             /\ sub[s].notificationsPerPublish \in 1..maxNotificationsPerPublish
             /\ sub[s].sequenceNumber = Len(sent[s])
             /\ items[s] \subseteq 1..sub[s].lastMonitoredItemId
             /\ \A i \in items[s] :
                   /\ mon[s][i].maxQueueSize \in queueSizeLimits.min..queueSizeLimits.max
                   /\ Len(mon[s][i].queue) <= queueSizeLimits.max
  <2>1. s \in SubIds /\ Subscribed(s) /\ IsSub(sub[s])
    BY <1>1 DEF EverySub, Shapes
  <2>2. Delivers(sub[s].lastMonitoredItemId, items[s], mon[s], sent[s]) /\ Settings(sub[s])
        /\ sub[s].sequenceNumber = Len(sent[s])
    BY <2>1 DEF Subscribed
  <2>3. ASSUME NEW i \in items[s]
        PROVE  /\ mon[s][i].maxQueueSize \in queueSizeLimits.min..queueSizeLimits.max
               /\ Len(mon[s][i].queue) <= queueSizeLimits.max
    <3>1. ItemOK(i, mon[s][i])
      BY <2>2 DEF Delivers
    <3> QED
      BY <3>1 DEF ItemOK
  <2>4. items[s] \subseteq 1..sub[s].lastMonitoredItemId
    BY <2>2 DEF Delivers
  <2> QED
    BY <2>1, <2>2, <2>3, <2>4 DEF Settings, IsSub
<1>5. timers \in [Jobs -> Nat]
  <2>1. timers \in [Jobs -> Int]
    BY <1>1 DEF Shapes
  <2>2. ASSUME NEW j \in Jobs PROVE timers[j] \in Nat
    <3>1. PICK s \in SubIds, k \in 0..MaxItems : j = <<s, k>>
      BY DEF Jobs
    <3>2. k = 0 \/ k \in ItemIds
      BY <3>1, BoundAssumption DEF ItemIds
    <3>3. timers[j] >= 0
      <4> DEFINE n == timers[j]
                 f == sub[s].publishJobIsRegistered
                 g == mon[s][k].sampleJobIsRegistered
      <4>1. n \in Int /\ (n >= (IF f THEN 1 ELSE 0) \/ n >= (IF g THEN 1 ELSE 0))
        BY <1>1, <2>1, <3>1, <3>2 DEF Counted
      <4> HIDE DEF n, f, g
      <4>2. n >= 0
        BY <4>1
      <4> QED
        BY <4>2 DEF n
    <3> QED
      BY <2>1, <3>3
  <2> QED
    BY <2>1, <2>2
<1>6. ToSet(responseQueue) \subseteq 1..requests
  BY <1>1 DEF Stored, ToSet
<1>7. /\ requests \in 0..MaxRequests
      /\ channel \in {"open", "closing", "none"}
      /\ session \in {"listed", "expired", "removed", "freed"}
      /\ phase \in {"timer", "jobs", "delayed"}
      /\ calling \in live \cup {0}
      /\ fault \in {"none", "channel", "unlinked"}
  BY <1>1 DEF Modes
<1> QED
  BY <1>2, <1>3, <1>4, <1>5, <1>6, <1>7 DEF TypeOK

LEMMA DeliveryOrder == DeliveryInv /\ Shapes => DeliveredInOrder
<1> SUFFICES ASSUME DeliveryInv, Shapes, NEW s \in live
             PROVE
        /\ \A k, l \in DOMAIN sent[s] :
              \A p \in DOMAIN sent[s][k].notes, r \in DOMAIN sent[s][l].notes :
                 LET x == sent[s][k].notes[p]
                     y == sent[s][l].notes[r]
                 IN x.item = y.item /\ (k < l \/ (k = l /\ p < r)) => x.no < y.no
        /\ \A i \in items[s] :
              /\ \A p, r \in DOMAIN mon[s][i].queue :
                    p < r => mon[s][i].queue[p].no < mon[s][i].queue[r].no
              /\ \A k \in DOMAIN sent[s] :
                    \A p \in DOMAIN sent[s][k].notes, r \in DOMAIN mon[s][i].queue :
                       sent[s][k].notes[p].item = i =>
                          sent[s][k].notes[p].no < mon[s][i].queue[r].no
  BY DEF DeliveredInOrder
<1> DEFINE S == sent[s]
           I == items[s]
           M == mon[s]
<1>1. /\ S \in Seq(Message) /\ AllInOrder(S) /\ ToldBefore(I, M, S)
      /\ I \subseteq ItemIds
      /\ \A i \in I : ItemOK(i, M[i])
  <2>1. Delivers(sub[s].lastMonitoredItemId, I, M, S)
    BY LiveIds DEF DeliveryInv, EverySub, Subscribed
  <2> HIDE DEF S, I, M
  <2> QED
    BY <2>1 DEF Delivers
<1> HIDE DEF S, I, M
<1>2. DOMAIN S = 1..Len(S) /\ \A k \in DOMAIN S : S[k] \in Message
  BY <1>1
<1>3. \A k \in DOMAIN S : S[k].notes \in Seq(Note) /\ DOMAIN S[k].notes = 1..Len(S[k].notes)
  BY <1>2 DEF Message
<1>4. ASSUME NEW k \in DOMAIN S, NEW l \in DOMAIN S,
             NEW p \in DOMAIN S[k].notes, NEW r \in DOMAIN S[l].notes,
             S[k].notes[p].item = S[l].notes[r].item, k < l \/ (k = l /\ p < r)
      PROVE  S[k].notes[p].no < S[l].notes[r].no
  <2>1. CASE k < l
    BY <1>1, <1>2, <1>3, <1>4, <2>1 DEF AllInOrder
  <2>2. CASE k = l /\ p < r
    <3>1. InOrder(S[k].notes)
      BY <1>1, <1>2 DEF AllInOrder
    <3> QED
      BY <1>3, <1>4, <2>2, <3>1 DEF InOrder
  <2> QED
    BY <1>4, <2>1, <2>2
<1>5. ASSUME NEW i \in I
      PROVE  /\ \A p, r \in DOMAIN M[i].queue : p < r => M[i].queue[p].no < M[i].queue[r].no
             /\ \A k \in DOMAIN S : \A p \in DOMAIN S[k].notes, r \in DOMAIN M[i].queue :
                   S[k].notes[p].item = i => S[k].notes[p].no < M[i].queue[r].no
  <2>1. M[i].queue \in Seq(Note) /\ Ascending(M[i].queue)
    BY <1>1 DEF ItemOK
  <2>2. DOMAIN M[i].queue = 1..Len(M[i].queue)
    BY <2>1
  <2>3. \A p, r \in DOMAIN M[i].queue : p < r => M[i].queue[p].no < M[i].queue[r].no
    BY <2>1, <2>2 DEF Ascending
  <2>4. ASSUME NEW k \in DOMAIN S, NEW p \in DOMAIN S[k].notes, NEW r \in DOMAIN M[i].queue,
               S[k].notes[p].item = i
        PROVE  S[k].notes[p].no < M[i].queue[r].no
    <3> DEFINE x == S[k].notes[p]
    <3>1. x \in Note
      BY <1>3
    <3>2. Tells(S, x)
      BY <1>2, <1>3 DEF Tells
    <3>3. x.item = i
      BY <2>4
    <3> HIDE DEF x
    <3>4. x.no < M[i].queue[r].no
      BY <1>1, <2>2, <3>1, <3>2, <3>3 DEF ToldBefore
    <3> QED
      BY <3>4 DEF x
  <2> QED
    BY <2>3, <2>4
<1> QED
  BY <1>4, <1>5 DEF S, I, M

LEMMA DeliveryRetransmits == DeliveryInv /\ Shapes => RetransmitsNewest
<1> SUFFICES ASSUME DeliveryInv, Shapes, NEW s \in live
             PROVE  LET q == sub[s].retransmissionQueue
                        kept == {q[k].seq : k \in DOMAIN q}
                    IN
                    /\ maxRetransmissionQueueSize > 0 => Len(q) <= maxRetransmissionQueueSize
                    /\ \A k \in DOMAIN q : q[k] = sent[s][q[k].seq]
                    /\ \A k, l \in DOMAIN q : k < l => q[k].seq > q[l].seq
                    /\ \A n \in DOMAIN sent[s] \ (kept \cup acked[s]) :
                          maxRetransmissionQueueSize > 0 /\ \A k \in kept : n < k
  BY DEF RetransmitsNewest
<1> DEFINE q == sub[s].retransmissionQueue
           S == sent[s]
           kept == {q[k].seq : k \in DOMAIN q}
<1>1. Retransmits(q, S, acked[s]) /\ S \in Seq(Message)
  <2>1. Subscribed(s)
    BY LiveIds DEF DeliveryInv, EverySub
  <2> QED
    BY <2>1 DEF Subscribed, Delivers
<1>2. DOMAIN q = 1..Len(q) /\ DOMAIN S = 1..Len(S)
  <2> HIDE DEF q, S
  <2> QED
    BY <1>1 DEF Retransmits
<1> HIDE DEF q, S
<1>3. /\ maxRetransmissionQueueSize > 0 => Len(q) <= maxRetransmissionQueueSize
      /\ \A k \in DOMAIN q : q[k] = S[q[k].seq]
      /\ \A k, l \in DOMAIN q : k < l => q[k].seq > q[l].seq
  BY <1>1, <1>2 DEF Retransmits
<1>4. ASSUME NEW n \in DOMAIN S \ (kept \cup acked[s])
      PROVE  maxRetransmissionQueueSize > 0 /\ \A k \in kept : n < k
  <2>1. ~ \E k \in 1..Len(q) : q[k].seq = n
    BY <1>2
  <2>2. maxRetransmissionQueueSize > 0 /\ \A k \in 1..Len(q) : n < q[k].seq
    BY <1>1, <1>2, <1>4, <2>1 DEF Retransmits
  <2> QED
    BY <1>2, <2>2
<1> QED
  BY <1>3, <1>4 DEF q, S

LEMMA DeliveryNewest == DeliveryInv /\ Shapes => NewestKept
<1> SUFFICES ASSUME DeliveryInv, Shapes, NEW s \in live, NEW i \in items[s],
                    mon[s][i].samples > 0
             PROVE  LET newest == [item |-> i, no |-> mon[s][i].samples] IN
                    IF mon[s][i].queue # <<>> THEN Last(mon[s][i].queue) = newest
                    ELSE \E k \in DOMAIN sent[s] : newest \in ToSet(sent[s][k].notes)
  BY DEF NewestKept
<1> DEFINE S == sent[s]
           I == items[s]
           M == mon[s]
           x == [item |-> i, no |-> M[i].samples]
           q == M[i].queue
<1>1. /\ S \in Seq(Message) /\ NewestTold(I, M, S) /\ ItemOK(i, M[i])
  <2>1. Delivers(sub[s].lastMonitoredItemId, I, M, S)
    BY LiveIds DEF DeliveryInv, EverySub, Subscribed
  <2>2. i \in I
    OBVIOUS
  <2> HIDE DEF S, I, M
  <2> QED
    BY <2>1, <2>2 DEF Delivers
<1>2. ASSUME q # <<>> PROVE Last(q) = x
  <2>1. /\ q \in Seq(Note) /\ q[Len(q)].no = M[i].samples
        /\ \A j \in 1..Len(q) : q[j].item = i
    BY <1>1, <1>2 DEF ItemOK
  <2> HIDE DEF q
  <2>2. Len(q) \in 1..Len(q)
    BY <1>2, <2>1
  <2>3. q[Len(q)] \in Note /\ q[Len(q)].item = i
    BY <2>1, <2>2
  <2>4. q[Len(q)] = x
    BY <2>1, <2>3 DEF Note
  <2> QED
    BY <2>4 DEF Last
<1>3. ASSUME q = <<>> PROVE \E k \in DOMAIN S : x \in ToSet(S[k].notes)
  <2>1. Tells(S, x)
    BY <1>1, <1>3 DEF NewestTold
  <2> HIDE DEF x, S
  <2>2. PICK k \in 1..Len(S) : \E p \in 1..Len(S[k].notes) : S[k].notes[p] = x
    BY <2>1 DEF Tells
  <2>3. k \in DOMAIN S /\ S[k].notes \in Seq(Note)
    <3>1. k \in DOMAIN S /\ S[k] \in Message
      BY <1>1, <2>2
    <3> QED
      BY <3>1 DEF Message
  <2>4. x \in ToSet(S[k].notes)
    BY <2>2, <2>3 DEF ToSet
  <2> QED
    BY <2>3, <2>4
<1> QED
  BY <1>2, <1>3

\* A client gets every sample that was not discarded, once and in order, with
\* every publish response it receives or asks for again with Republish: the
\* fields stay within the limits of the configuration, the samples of an item go
\* out in the order they were taken, and the retransmission queue holds the
\* newest messages as they were sent.
THEOREM DeliveriesExact == Spec => []DeliveryExact
<1>1. DeliveryInv /\ JobsInv /\ RequestsInv => DeliveryExact
  BY DeliveryTypes, DeliveryOrder, DeliveryRetransmits DEF DeliveryExact, JobsInv
<1> QED
  BY <1>1, DeliveryInvariance, JobsInvariance, RequestsInvariance, PTL

\* Whichever end a full queue discards from, the newest sample of an item is the
\* last one queued or has gone out.
THEOREM NewestStaysKept == Spec => []NewestKept
<1>1. DeliveryInv /\ JobsInv => NewestKept
  BY DeliveryNewest DEF JobsInv
<1> QED
  BY <1>1, DeliveryInvariance, JobsInvariance, PTL

=============================================================================
