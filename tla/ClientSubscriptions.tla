-------------------------- MODULE ClientSubscriptions --------------------------
(***************************************************************************)
(* The client's lists of subscriptions, monitored items and pending        *)
(* acknowledgements (src/client/ua_client_highlevel_subscriptions.c)       *)
(* against a server that publishes, keeps messages for retransmission and  *)
(* lets subscriptions expire.  Module Subscriptions has the server in      *)
(* detail; here it is what the client can observe of it.                   *)
(*                                                                         *)
(* Any service may fail before the server acts ("refused") or after it has *)
(* ("lost": the answer does not arrive in time).                           *)
(***************************************************************************)
EXTENDS Naturals, Sequences, SequencesExt, FiniteSets

CONSTANTS
  MaxSubs,      \* subscriptions created (bound)
  MaxItems,     \* monitored items created (bound)
  PerPublish,   \* notifications the server puts into one message
  MaxNumber,    \* notification messages of a subscription (bound)
  MaxLost       \* answers that are lost (bound)

ASSUME ClientSubscriptionsConstants ==
  {MaxSubs, MaxItems, PerPublish, MaxNumber, MaxLost} \subseteq Nat /\ PerPublish > 0

VARIABLES
  subs,      \* client: subscription -> monitored item -> clientHandle
  handles,   \* client: monitoredItemHandles
  acks,      \* client: pendingNotificationsAcks, newest first
  publish,   \* client: the publish call: [busy, acks]
  served,    \* server: subscription -> [seq, items, retained, data]
  created,   \* server: subscriptions created so far
  itemCount, \* server: monitored items created so far
  queue,     \* server: publish requests waiting: [results, mine]
  reply,     \* the answer on its way to the waiting call, a sequence of length 0 or 1
  received,  \* notification messages whose values all reached a handler (history)
  freed,     \* notification messages the server has dropped as acknowledged (history)
  lost       \* answers lost so far (bound)

clientSubVars == <<subs, handles, acks, publish>>
serverSubVars == <<served, created, itemCount, queue>>
lists == <<clientSubVars, serverSubVars, reply, received, freed, lost>>

Without(f, x) == [y \in DOMAIN f \ {x} |-> f[y]]
With(f, x, v) == [y \in DOMAIN f \cup {x} |-> IF y = x THEN v ELSE f[y]]
Outcomes == {"done", "refused", "lost"}
Costs(o) == IF o = "lost" THEN lost < MaxLost /\ lost' = lost + 1 ELSE UNCHANGED lost
NotCalling == ~publish.busy

ListsInit ==
  /\ subs = <<>> /\ handles = 0 /\ acks = <<>> /\ publish = [busy |-> FALSE, acks |-> <<>>]
  /\ served = <<>> /\ created = 0 /\ itemCount = 0 /\ queue = <<>>
  /\ reply = <<>> /\ received = {} /\ freed = {} /\ lost = 0

\* UA_Client_Subscriptions_new; out of memory after the answer is as if it were lost.
Subscriptions_new(o) ==
  /\ NotCalling /\ created < MaxSubs /\ o # "refused" /\ Costs(o)
  /\ created' = created + 1
  /\ served' = With(served, created + 1, [seq |-> 0, items |-> <<>>, retained |-> {}, data |-> {}])
  /\ subs' = IF o = "done" THEN With(subs, created + 1, <<>>) ELSE subs
  /\ UNCHANGED <<handles, acks, publish, itemCount, queue, reply, received, freed>>

\* The counter is incremented for the request.
HandleCounter(o) == handles + 1

\* UA_Client_Subscriptions_addMonitoredItem: the handle counts up even when the
\* server refuses.
addMonitoredItem(s, o) ==
  LET i == itemCount + 1
      known == s \in DOMAIN served
  IN /\ NotCalling /\ s \in DOMAIN subs /\ i <= MaxItems /\ handles < MaxItems /\ Costs(o)
     /\ ~known => o = "refused"
     /\ handles' = HandleCounter(o)
     /\ IF o = "refused" THEN UNCHANGED <<itemCount, served>>
        ELSE /\ itemCount' = i
             /\ served' = [served EXCEPT ![s].items = With(@, i, handles + 1), ![s].data = @ \cup {i}]
     /\ subs' = IF o = "done" THEN [subs EXCEPT ![s] = With(@, i, HandleCounter(o))] ELSE subs
     /\ UNCHANGED <<acks, publish, created, queue, reply, received, freed>>

\* The server's part of removing an item, whose result in the answer the client
\* does not look at, and the status of the service.
Unmonitored(s, i) == [served EXCEPT ![s].items = Without(@, i), ![s].data = @ \ {i}]

\* UA_Client_Subscriptions_removeMonitoredItem
removeMonitoredItem(s, i, o) ==
  /\ NotCalling /\ s \in DOMAIN subs /\ i \in DOMAIN subs[s] /\ Costs(o)
  /\ s \notin DOMAIN served => o = "refused"
  /\ served' = IF o # "refused" /\ i \in DOMAIN served[s].items THEN Unmonitored(s, i) ELSE served
  /\ subs' = IF o = "done" THEN [subs EXCEPT ![s] = Without(@, i)] ELSE subs
  /\ UNCHANGED <<handles, acks, publish, created, itemCount, queue, reply, received, freed>>

\* UA_Client_Subscriptions_remove, once its items are removed: a subscription
\* unknown to the server is forgotten too.  Pending acknowledgements stay.
Subscriptions_remove(s, o) ==
  /\ NotCalling /\ s \in DOMAIN subs /\ DOMAIN subs[s] = {} /\ Costs(o)
  /\ served' = IF o # "refused" THEN Without(served, s) ELSE served
  /\ subs' = IF o = "done" THEN Without(subs, s) ELSE subs
  /\ UNCHANGED <<handles, acks, publish, created, itemCount, queue, reply, received, freed>>

\* UA_Client_reset: the lists and the session are gone, and with the session
\* what the server had for it.
ResetLists ==
  /\ NotCalling /\ DOMAIN subs # {}
  /\ subs' = <<>> /\ acks' = <<>> /\ handles' = 0
  /\ served' = <<>> /\ queue' = <<>>
  /\ UNCHANGED <<publish, created, itemCount, reply, received, freed, lost>>

\* Service_Publish on the acknowledgements of a request.
AckResult(a) ==
  IF a[1] \notin DOMAIN served THEN "BadSubscriptionIdInvalid"
  ELSE IF a[2] \in served[a[1]].retained THEN "Good" ELSE "BadSequenceNumberUnknown"

\* UA_Client_Subscriptions_manuallySendPublishRequest sends all pending
\* acknowledgements; a server without subscriptions answers with an error.
SendPublish ==
  /\ NotCalling /\ DOMAIN subs # {}
  /\ served' = [s \in DOMAIN served |-> [served[s] EXCEPT !.retained = {n \in @ : <<s, n>> \notin ToSet(acks)}]]
  /\ freed' = freed \cup {a \in ToSet(acks) : AckResult(a) = "Good"}
  /\ IF DOMAIN served = {} THEN UNCHANGED <<publish, queue>>
     ELSE /\ publish' = [busy |-> TRUE, acks |-> acks]
          /\ queue' = Append(queue, [results |-> [i \in 1..Len(acks) |-> AckResult(acks[i])], mine |-> TRUE])
  /\ UNCHANGED <<subs, handles, acks, created, itemCount, reply, received, lost>>

\* UA_Subscription_publishCallback with a request to answer: a notification
\* message, which is kept, or a keep-alive that carries the next number.  The
\* answer to a request that was given up is lost.
Publishes(s) ==
  LET data == served[s].data
      now == IF Cardinality(data) <= PerPublish THEN data ELSE CHOOSE d \in SUBSET data : Cardinality(d) = PerPublish
      msg == [sub |-> s, number |-> served[s].seq + 1, items |-> {served[s].items[i] : i \in now},
              results |-> Head(queue).results, more |-> now # data]
  IN /\ queue # <<>> /\ s \in DOMAIN served /\ (data # {} => served[s].seq < MaxNumber)
     /\ queue' = Tail(queue)
     /\ served' = IF data = {} THEN served
                  ELSE [served EXCEPT ![s].seq = @ + 1, ![s].data = @ \ now, ![s].retained = @ \cup {msg.number}]
     /\ reply' = IF Head(queue).mine THEN <<msg>> ELSE reply
     /\ UNCHANGED <<clientSubVars, created, itemCount, received, freed, lost>>

\* A sample of the server.
ValueChanges(s, i) ==
  /\ s \in DOMAIN served /\ i \in DOMAIN served[s].items /\ i \notin served[s].data
  /\ served' = [served EXCEPT ![s].data = @ \cup {i}]
  /\ UNCHANGED <<clientSubVars, created, itemCount, queue, reply, received, freed, lost>>

\* The subscription's lifetime ends on the server.
Expires(s) ==
  /\ s \in DOMAIN served
  /\ served' = Without(served, s)
  /\ UNCHANGED <<clientSubVars, created, itemCount, queue, reply, received, freed, lost>>

\* Also an acknowledgement the server does not know is settled.
Acknowledged(results, i) == results[i] \in {"Good", "BadSequenceNumberUnknown"}

\* The list in its order, without what is settled.
Unsettled(list, settled) ==
  LET upto[k \in 0..Len(list)] ==
        IF k = 0 THEN <<>> ELSE IF list[k] \in settled THEN upto[k-1] ELSE Append(upto[k-1], list[k])
  IN upto[Len(list)]

NextAcks(list, msg) == <<<<msg.sub, msg.number>>>> \o list

\* Mutant: the handler is looked up by the id of the item.
Handled_byItemId(msg) == msg.items \subseteq DOMAIN subs[msg.sub]

\* Every notification of the message finds the handler of its item.
Handled(msg) == msg.items \subseteq {subs[msg.sub][i] : i \in DOMAIN subs[msg.sub]}

\* UA_Client_processPublishResponse: settled acknowledgements leave the list,
\* the handlers run, and the message is to be acknowledged.  An answer for a
\* subscription the client has not is ignored altogether.  The loop goes on
\* while the server has more.
ProcessPublishResponse(oom) ==
  LET msg == reply[1]
      settled == {publish.acks[i] : i \in {j \in DOMAIN publish.acks : j <= Len(msg.results) /\ Acknowledged(msg.results, j)}}
      kept == Unsettled(acks, settled)
  IN /\ publish.busy /\ reply # <<>>
     /\ reply' = <<>> /\ publish' = [busy |-> FALSE, acks |-> <<>>]
     /\ IF msg.sub \notin DOMAIN subs THEN UNCHANGED <<acks, received>>
        ELSE /\ acks' = IF oom THEN kept ELSE NextAcks(kept, msg)
             /\ received' = IF msg.items # {} /\ Handled(msg) THEN received \cup {<<msg.sub, msg.number>>} ELSE received
     /\ UNCHANGED <<subs, handles, serverSubVars, freed, lost>>

\* The call gives up; its request stays with the server.
PublishTimesOut ==
  /\ publish.busy /\ reply = <<>> /\ Costs("lost")
  /\ publish' = [busy |-> FALSE, acks |-> <<>>]
  /\ queue' = [i \in DOMAIN queue |-> [queue[i] EXCEPT !.mine = FALSE]]
  /\ UNCHANGED <<subs, handles, acks, served, created, itemCount, reply, received, freed>>

ListsNext ==
  \/ \E o \in Outcomes : Subscriptions_new(o)
  \/ \E s \in DOMAIN subs, o \in Outcomes :
       addMonitoredItem(s, o) \/ Subscriptions_remove(s, o) \/ \E i \in DOMAIN subs[s] : removeMonitoredItem(s, i, o)
  \/ \E s \in DOMAIN served : Publishes(s) \/ Expires(s) \/ \E i \in DOMAIN served[s].items : ValueChanges(s, i)
  \/ \E oom \in BOOLEAN : ProcessPublishResponse(oom)
  \/ ResetLists \/ SendPublish \/ PublishTimesOut

ListsSpec == ListsInit /\ [][ListsNext]_lists

--------------------------------------------------------------------------------
(* Properties *)

\* The server drops a message as acknowledged only after the client's handlers
\* saw it, although the client also acknowledges the numbers of keep-alives,
\* which announce a message that is still to come.  It takes a lost answer to
\* make the two meet.
AckedWasHandled == lost = 0 => freed \subseteq received

\* A handle means one item on both sides, so a notification runs the handler of
\* the item it is about, whatever was refused or lost between them.
HandlesMeanOneItem ==
  /\ \A s \in DOMAIN subs, t \in DOMAIN served : \A i \in DOMAIN subs[s], j \in DOMAIN served[t].items :
       subs[s][i] = served[t].items[j] => s = t /\ i = j
  /\ \A s, t \in DOMAIN subs : \A i \in DOMAIN subs[s], j \in DOMAIN subs[t] : subs[s][i] = subs[t][j] => s = t /\ i = j

\* What the server sends reaches the handlers it is for before it is forgotten.
NotificationsMatch == AckedWasHandled /\ HandlesMeanOneItem
================================================================================
