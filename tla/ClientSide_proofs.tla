-------------------------- MODULE ClientSide_proofs --------------------------
(***************************************************************************)
(* Proofs about the client's parts, each on its own: any sequence of calls *)
(* to it, for any number of descriptors, the lists that the answers of the *)
(* subscription services are entered into, and the way of an answer        *)
(* through the channel, for any bounds.                                    *)
(*                                                                         *)
(* Between two calls a client is sound (ClientOps_proofs): it either owns  *)
(* the descriptor it names, or has none and will not use the one it names. *)
(*                                                                         *)
(* The lists of the client and the server agree on every handle, for the   *)
(* client counts handles up whatever becomes of the request.  As long as   *)
(* no answer is lost the client knows all the server has, one publish call *)
(* at a time is under way, and what the server still keeps was handled or  *)
(* is the message on its way: so the acknowledgements of the next request  *)
(* cannot free a message that no handler saw.                              *)
(*                                                                         *)
(* In the channel the buffer and the wire together are a stream of units.  *)
(* Between its chunks stand the states they carry the client to: from the  *)
(* one it is in to the one the server's numbers and messages tell of.  A   *)
(* recv moves the border along the stream, an answer makes it longer.      *)
(***************************************************************************)
EXTENDS UAClient, ClientSubscriptions, Channel, ClientOps_proofs

-----------------------------------------------------------------------------
(* The calls.                                                              *)

\* The inductive invariant.
ClientInv == Sound(client) /\ ConnectGoodIsConnected

\* A new client in a process that has only standard input open.
LEMMA InitClientInv == ClientInit => ClientInv
<1> SUFFICES ASSUME ClientInit
             PROVE  ClientInv
  OBVIOUS
<1>1. 0 \in Fds
  BY MaxFdAssumption DEF Fds
<1>2. client \in Clients
  BY <1>1 DEF ClientInit, Fresh, Clients, ClientStates, ConnStates
<1> QED
  BY <1>2 DEF ClientInit, Fresh, ClientInv, Sound, Unused, ConnectGoodIsConnected

\* A call whose outcomes are sound keeps the client sound; only connect can break
\* the rest.
LEMMA CallKeeps ==
  ASSUME NEW op, NEW S, Call(op, S), op # "connect", \A x \in S : Sound(x.c)
  PROVE  ClientInv'
  BY DEF Call, ClientInv, ConnectGoodIsConnected

\* Every call of the API keeps the invariant.
LEMMA NextClientInv == ClientInv /\ [ClientNext]_clientVars => ClientInv'
<1> SUFFICES ASSUME ClientInv, [ClientNext]_clientVars
             PROVE  ClientInv'
  OBVIOUS
<1>1. Sound(client) /\ client \in Clients
  BY DEF ClientInv, Sound
<1>2. CASE Connect
  <2>1. PICK x \in UA_Client_connect0(client, TRUE, TRUE) :
           client' = x.c /\ last' = [op |-> "connect", r |-> x.r, from |-> client.state]
    BY <1>2 DEF Connect, Call, UA_Client_connect
  <2> QED
    BY <1>1, <2>1, Connecting DEF ClientInv, ConnectGoodIsConnected, IsSocket
<1>3. CASE GetEndpoints
  BY <1>1, <1>3, Asking, CallKeeps DEF GetEndpoints
<1>4. CASE Disconnect
  BY <1>1, <1>4, Disconnecting, CallKeeps DEF Disconnect
<1>5. CASE Renew
  BY <1>1, <1>5, Renewing, CallKeeps DEF Renew
<1>6. CASE Service
  BY <1>1, <1>6, Serving, CallKeeps DEF Service
<1>7. CASE Subscribe
  BY <1>1, <1>7, Subscribing, CallKeeps DEF Subscribe
<1>8. CASE Publish
  BY <1>1, <1>8, Publishing, CallKeeps DEF Publish
<1>9. CASE Reset
  BY <1>1, <1>9, Resetting, CallKeeps DEF Reset, Res
<1>10. CASE Delete
  <2>1. PICK x \in UA_Client_disconnect(client) :
           client' = [x.c EXCEPT !.auth = FALSE, !.subs = FALSE]
    BY <1>10 DEF Delete, UA_Client_deleteMembers
  <2>2. Sound(x.c)
    BY <1>1, Disconnecting
  <2> QED
    BY <1>10, <2>1, <2>2
       DEF Delete, ClientInv, ConnectGoodIsConnected, Sound, Whole, Unused, Clients
<1>11. CASE UA_Client_new
  BY <1>1, <1>11, Initializing DEF UA_Client_new, ClientInv, ConnectGoodIsConnected
<1>12. CASE TokenAges
  BY <1>1, <1>12 DEF TokenAges, ClientInv, ConnectGoodIsConnected, Sound, Whole, Unused, Clients
<1>13. CASE UNCHANGED clientVars
  BY <1>13 DEF clientVars, ClientInv, ConnectGoodIsConnected
<1> QED
  BY <1>2, <1>3, <1>4, <1>5, <1>6, <1>7, <1>8, <1>9, <1>10, <1>11, <1>12, <1>13 DEF ClientNext

\* The inductive invariant holds in every reachable state.
THEOREM ClientInvariance == ClientSpec => []ClientInv
  BY InitClientInv, NextClientInv, PTL DEF ClientSpec

\* In any sequence of calls, and whatever the network answers, nothing is written
\* to a descriptor that is closed and standard input stays open, as long as every
\* address lookup works.
THEOREM ClientOwnsItsSocket == ClientSpec => []NoWriteAfterClose
<1>1. ClientInv => NoWriteAfterClose
  BY DEF ClientInv, Sound, Whole, Unused, NoWriteAfterClose
<1> QED
  BY <1>1, ClientInvariance, PTL

\* In any sequence of calls, a good connect on a client that was not CONNECTED
\* leaves it with a session and an open socket.
THEOREM GoodConnectConnects == ClientSpec => []ConnectGoodIsConnected
<1>1. ClientInv => ConnectGoodIsConnected
  BY DEF ClientInv
<1> QED
  BY <1>1, ClientInvariance, PTL

-----------------------------------------------------------------------------
(* The lists of the client and the items of the server.                    *)

\* Monitored items with handles up to h.
ItemMaps(h) == UNION {[I -> 1 .. h] : I \in SUBSET Nat}

ServedSubs(h) == [seq : Nat, items : ItemMaps(h), retained : SUBSET Nat, data : SUBSET Nat]

\* Every handle has been given out by the counter.
ListsTyped ==
  /\ {handles, itemCount, created, lost} \subseteq Nat
  /\ DOMAIN subs \subseteq Nat /\ DOMAIN served \subseteq Nat
  /\ subs \in [DOMAIN subs -> ItemMaps(handles)]
  /\ served \in [DOMAIN served -> ServedSubs(handles)]

HandlesInv == ListsTyped /\ HandlesMeanOneItem

\* As long as no answer was lost, a publish call waits for the one request it sent
\* or has its answer.
OneCall ==
  \/ publish.busy /\ reply = <<>> /\ queue # <<>> /\ queue = <<queue[1]>> /\ queue[1].mine
  \/ /\ publish.busy /\ queue = <<>> /\ reply # <<>> /\ reply = <<reply[1]>>
     /\ reply[1].sub \in Nat /\ reply[1].number \in Nat
  \/ ~publish.busy /\ queue = <<>> /\ reply = <<>>

\* What the server has is known to the client, with the same handles.
Mirrored ==
  \A t \in DOMAIN served :
    /\ t \in DOMAIN subs
    /\ IsFiniteSet(served[t].data) /\ served[t].data \subseteq DOMAIN served[t].items
    /\ \A i \in DOMAIN served[t].items : i \in DOMAIN subs[t] /\ subs[t][i] = served[t].items[i]

\* A message the server still keeps was handled, or is on its way.
OnItsWay(t, n) == reply # <<>> /\ reply[1].sub = t /\ reply[1].number = n /\ reply[1].items # {}
RetainedAreHandled ==
  \A t \in DOMAIN served : \A n \in served[t].retained : <<t, n>> \in received \/ OnItsWay(t, n)

\* The handlers for the message on its way are there.
ReplyIsHandled == reply # <<>> /\ reply[1].sub \in DOMAIN subs => Handled(reply[1])

NothingLost ==
  /\ acks \in Seq(Nat \X Nat)
  /\ OneCall /\ Mirrored /\ RetainedAreHandled /\ ReplyIsHandled
  /\ freed \subseteq received

AcksInv == lost = 0 => NothingLost

ListsInv == HandlesInv /\ AcksInv

-----------------------------------------------------------------------------
(* Maps of items.                                                          *)

\* g is f with item i under handle v.
Extends(g, f, i, v) ==
  DOMAIN g = DOMAIN f \cup {i} /\ g[i] = v /\ \A j \in DOMAIN f : j # i => g[j] = f[j]

\* An item more.
LEMMA ItemAdded ==
  ASSUME NEW h \in Nat, NEW f \in ItemMaps(h), NEW i \in Nat, NEW v \in 1 .. h
  PROVE  With(f, i, v) \in ItemMaps(h) /\ Extends(With(f, i, v), f, i, v)
<1>1. PICK I \in SUBSET Nat : f \in [I -> 1 .. h]
  BY DEF ItemMaps
<1>2. With(f, i, v) \in [I \cup {i} -> 1 .. h] /\ I \cup {i} \in SUBSET Nat
  BY <1>1 DEF With
<1> QED
  BY <1>1, <1>2 DEF With, ItemMaps, Extends

\* An item less.
LEMMA ItemRemoved ==
  ASSUME NEW h \in Nat, NEW f \in ItemMaps(h), NEW i
  PROVE  /\ Without(f, i) \in ItemMaps(h) /\ DOMAIN Without(f, i) = DOMAIN f \ {i}
         /\ \A j \in DOMAIN f : j # i => Without(f, i)[j] = f[j]
<1>1. PICK I \in SUBSET Nat : f \in [I -> 1 .. h]
  BY DEF ItemMaps
<1>2. Without(f, i) \in [I \ {i} -> 1 .. h] /\ I \ {i} \in SUBSET Nat
  BY <1>1 DEF Without
<1> QED
  BY <1>1, <1>2 DEF Without, ItemMaps

\* The map of no items, the handles of a map, and a larger counter.
LEMMA ItemMapFacts ==
  ASSUME NEW h \in Nat
  PROVE  /\ <<>> \in ItemMaps(h) /\ DOMAIN <<>> = {}
         /\ \A f \in ItemMaps(h) : /\ f \in ItemMaps(h + 1) /\ DOMAIN f \subseteq Nat
                                   /\ \A i \in DOMAIN f : f[i] \in 1 .. h
<1>1. <<>> \in [{} -> 1 .. h]
  OBVIOUS
<1>2. ASSUME NEW f \in ItemMaps(h)
      PROVE  f \in ItemMaps(h + 1) /\ DOMAIN f \subseteq Nat /\ \A i \in DOMAIN f : f[i] \in 1 .. h
  <2>1. PICK I \in SUBSET Nat : f \in [I -> 1 .. h]
    BY DEF ItemMaps
  <2>2. f \in [I -> 1 .. h + 1]
    BY <2>1
  <2> QED
    BY <2>1, <2>2 DEF ItemMaps
<1> QED
  BY <1>1, <1>2 DEF ItemMaps

\* What remains of the list of acknowledgements was on it.
LEMMA UnsettledRemain ==
  ASSUME NEW S, NEW list \in Seq(S), NEW settled
  PROVE  Unsettled(list, settled) \in Seq(S)
<1> DEFINE n == Len(list)
           T == Seq(S)
           body(k, t) == IF list[k] \in settled THEN t ELSE Append(t, list[k])
           Rounds(g) == g = [k \in 0 .. n |-> IF k = 0 THEN <<>> ELSE
                              IF list[k] \in settled THEN g[k-1] ELSE Append(g[k-1], list[k])]
           upto == CHOOSE g : Rounds(g)
           F == [k \in 1 .. n |-> [t \in T |-> body(k, t)]]
<1>1. n \in Nat /\ \A k \in 1 .. n : list[k] \in S
  OBVIOUS
<1>2. Unsettled(list, settled) = upto[n]
  BY DEF Unsettled
<1>3. F \in Bodies(n, T)
  BY <1>1 DEF Bodies
<1>4. <<>> \in T
  OBVIOUS
<1>5. \E g : Computes(g, n, T, <<>>, F)
  <2> HIDE DEF n, F, T
  <2> QED
    BY <1>1, <1>3, <1>4, Looped
<1>6. \E g \in [0 .. n -> T] : Rounds(g)
  <2>1. PICK g : Computes(g, n, T, <<>>, F)
    BY <1>5
  <2>2. g \in [0 .. n -> T] /\ g[0] = <<>>
    BY <2>1 DEF Computes
  <2>3. ASSUME NEW k \in 1 .. n PROVE g[k] = body(k, g[k-1])
    <3>1. k - 1 \in 0 .. n
      BY <1>1
    <3>2. g[k-1] \in T
      BY <2>2, <3>1
    <3>3. g[k] = F[k][g[k-1]]
      BY <2>1 DEF Computes
    <3> HIDE DEF T
    <3> QED
      BY <3>2, <3>3
  <2>4. \A k \in 0 .. n : k = 0 \/ k \in 1 .. n
    BY <1>1
  <2> QED
    BY <2>2, <2>3, <2>4
<1>7. Rounds(upto)
  BY <1>6
<1> HIDE DEF upto
<1> DEFINE P == {k \in 0 .. n : upto[k] \in T}
<1>8. 0 \in P
  <2>1. 0 \in 0 .. n
    BY <1>1
  <2>2. upto[0] = <<>>
    BY <1>7, <2>1
  <2> QED
    BY <1>4, <2>1, <2>2
<1>9. ASSUME NEW k \in 1 .. n, k - 1 \in P PROVE k \in P
  <2>1. k \in 0 .. n /\ k # 0
    BY <1>1
  <2>2. upto[k] = body(k, upto[k-1])
    BY <1>7, <2>1
  <2>3. upto[k-1] \in Seq(S) /\ list[k] \in S
    BY <1>1, <1>9
  <2>4. body(k, upto[k-1]) \in Seq(S)
    BY <2>3
  <2> QED
    BY <2>1, <2>2, <2>4
<1>10. P = 0 .. n
  <2>1. P \in SUBSET (0 .. n)
    OBVIOUS
  <2> HIDE DEF P
  <2> QED
    BY <1>1, <1>8, <1>9, <2>1, UpTo
<1> QED
  BY <1>1, <1>2, <1>10

-----------------------------------------------------------------------------
(* A handle means one item.                                                *)

\* A map all of whose items are items of the map f.
PartOf(g, f) == \A i \in DOMAIN g : i \in DOMAIN f /\ g[i] = f[i]

\* Fewer subscriptions and items on either side: no handle gets another meaning.
LEMMA FewerItems ==
  ASSUME HandlesInv, handles' = handles, {itemCount', created', lost'} \subseteq Nat,
         DOMAIN subs' \subseteq DOMAIN subs, DOMAIN served' \subseteq DOMAIN served,
         subs' \in [DOMAIN subs' -> ItemMaps(handles)],
         served' \in [DOMAIN served' -> ServedSubs(handles)],
         \A s \in DOMAIN subs' : PartOf(subs'[s], subs[s]),
         \A t \in DOMAIN served' : PartOf(served'[t].items, served[t].items)
  PROVE  HandlesInv'
<1>1. ListsTyped'
  BY DEF HandlesInv, ListsTyped
<1>2. HandlesMeanOneItem'
  <2>1. ASSUME NEW s \in DOMAIN subs', NEW t \in DOMAIN served',
               NEW i \in DOMAIN subs'[s], NEW j \in DOMAIN served'[t].items,
               subs'[s][i] = served'[t].items[j]
        PROVE  s = t /\ i = j
    BY <2>1 DEF HandlesInv, HandlesMeanOneItem, PartOf
  <2>2. ASSUME NEW s \in DOMAIN subs', NEW t \in DOMAIN subs',
               NEW i \in DOMAIN subs'[s], NEW j \in DOMAIN subs'[t],
               subs'[s][i] = subs'[t][j]
        PROVE  s = t /\ i = j
    BY <2>2 DEF HandlesInv, HandlesMeanOneItem, PartOf
  <2> QED
    BY <2>1, <2>2 DEF HandlesMeanOneItem
<1> QED
  BY <1>1, <1>2 DEF HandlesInv

\* The lost answer is counted, or not.
LEMMA LostCounted ==
  ASSUME lost \in Nat, NEW o, Costs(o)
  PROVE  lost' \in Nat /\ (lost' = 0 => lost = 0 /\ o # "lost")
BY ClientSubscriptionsConstants DEF Costs

\* A new subscription has no items yet, on either side.
LEMMA HandlesKeptByNew ==
  ASSUME HandlesInv, NEW o \in Outcomes, Subscriptions_new(o)
  PROVE  HandlesInv'
<1> DEFINE t0 == created + 1
           new == [seq |-> 0, items |-> <<>>, retained |-> {}, data |-> {}]
<1>1. lost' \in Nat
  BY LostCounted DEF Subscriptions_new, HandlesInv, ListsTyped
<1>2. /\ created \in Nat /\ t0 \in Nat /\ created' = t0 /\ handles' = handles /\ itemCount' = itemCount
      /\ handles \in Nat /\ itemCount \in Nat
  BY DEF Subscriptions_new, HandlesInv, ListsTyped
<1>3. <<>> \in ItemMaps(handles) /\ DOMAIN <<>> = {}
  BY <1>2, ItemMapFacts
<1>4. new \in ServedSubs(handles)
  BY <1>3 DEF ServedSubs
<1>5. /\ served' = With(served, t0, new)
      /\ subs' = With(subs, t0, <<>>) \/ subs' = subs
  BY DEF Subscriptions_new
<1> HIDE DEF t0
<1>6. /\ DOMAIN served' = DOMAIN served \cup {t0}
      /\ served'[t0].items = <<>> /\ \A t \in DOMAIN served : t # t0 => served'[t] = served[t]
      /\ served' \in [DOMAIN served' -> ServedSubs(handles)]
  <2> HIDE DEF new
  <2>1. new.items = <<>>
    BY DEF new
  <2> QED
    BY <1>4, <1>5, <2>1 DEF With, HandlesInv, ListsTyped
<1>7. /\ DOMAIN subs' \subseteq DOMAIN subs \cup {t0}
      /\ \A s \in DOMAIN subs' : subs'[s] = <<>> \/ (s \in DOMAIN subs /\ subs'[s] = subs[s])
      /\ subs' \in [DOMAIN subs' -> ItemMaps(handles)]
  BY <1>3, <1>5 DEF With, HandlesInv, ListsTyped
<1>8. \A t \in DOMAIN served' : served'[t].items = <<>> \/ (t \in DOMAIN served /\ served'[t].items = served[t].items)
  BY <1>6
<1>9. ListsTyped'
  BY <1>1, <1>2, <1>6, <1>7 DEF HandlesInv, ListsTyped
<1>10. HandlesMeanOneItem'
  <2>1. ASSUME NEW s \in DOMAIN subs', NEW t \in DOMAIN served',
               NEW i \in DOMAIN subs'[s], NEW j \in DOMAIN served'[t].items,
               subs'[s][i] = served'[t].items[j]
        PROVE  s = t /\ i = j
    BY <1>3, <1>7, <1>8, <2>1 DEF HandlesInv, HandlesMeanOneItem
  <2>2. ASSUME NEW s \in DOMAIN subs', NEW t \in DOMAIN subs',
               NEW i \in DOMAIN subs'[s], NEW j \in DOMAIN subs'[t],
               subs'[s][i] = subs'[t][j]
        PROVE  s = t /\ i = j
    BY <1>3, <1>7, <2>2 DEF HandlesInv, HandlesMeanOneItem
  <2> QED
    BY <2>1, <2>2 DEF HandlesMeanOneItem
<1> QED
  BY <1>9, <1>10 DEF HandlesInv

\* The handle of the new item is one the counter has not given out.
LEMMA HandlesKeptByAdd ==
  ASSUME HandlesInv, NEW s0 \in DOMAIN subs, NEW o \in Outcomes, addMonitoredItem(s0, o)
  PROVE  HandlesInv'
<1> DEFINE i0 == itemCount + 1
           h == handles + 1
<1>1. lost' \in Nat
  BY LostCounted DEF addMonitoredItem, HandlesInv, ListsTyped
<1>2. /\ handles \in Nat /\ h \in Nat /\ h \in 1 .. h /\ i0 \in Nat /\ handles' = h
      /\ itemCount' \in Nat /\ created' \in Nat /\ h \notin 1 .. handles /\ 1 .. handles \subseteq 1 .. h
  BY DEF addMonitoredItem, HandleCounter, HandlesInv, ListsTyped
<1>3. \A f \in ItemMaps(handles) : f \in ItemMaps(h) /\ \A i \in DOMAIN f : f[i] \in 1 .. handles
  BY <1>2, ItemMapFacts
<1>4. /\ \A s \in DOMAIN subs : subs[s] \in ItemMaps(handles)
      /\ \A t \in DOMAIN served : served[t] \in ServedSubs(handles) /\ served[t].items \in ItemMaps(handles)
  BY DEF HandlesInv, ListsTyped, ServedSubs
<1>5. \/ o = "refused" /\ served' = served
      \/ /\ o # "refused" /\ s0 \in DOMAIN served
         /\ served' = [served EXCEPT ![s0].items = With(@, i0, h), ![s0].data = @ \cup {i0}]
  BY DEF addMonitoredItem
<1>6. \/ subs' = subs
      \/ o = "done" /\ subs' = [subs EXCEPT ![s0] = With(@, i0, h)]
  BY DEF addMonitoredItem, HandleCounter
<1> HIDE DEF i0, h
<1>7. /\ DOMAIN subs' = DOMAIN subs /\ subs' \in [DOMAIN subs' -> ItemMaps(h)]
      /\ \A s \in DOMAIN subs : \A i \in DOMAIN subs'[s] :
           \/ i \in DOMAIN subs[s] /\ subs'[s][i] = subs[s][i]
           \/ s = s0 /\ i = i0 /\ subs'[s][i] = h
  <2>1. CASE subs' = subs
    BY <1>3, <1>4, <2>1 DEF HandlesInv, ListsTyped
  <2>2. CASE subs' = [subs EXCEPT ![s0] = With(@, i0, h)]
    <3> DEFINE f == With(subs[s0], i0, h)
    <3>1. f \in ItemMaps(h) /\ Extends(f, subs[s0], i0, h)
      <4>1. subs[s0] \in ItemMaps(h)
        BY <1>3, <1>4
      <4>2. h \in Nat /\ i0 \in Nat /\ h \in 1 .. h
        BY <1>2
      <4> QED
        BY <4>1, <4>2, ItemAdded
    <3> HIDE DEF f
    <3>2. subs' = [subs EXCEPT ![s0] = f]
      BY <2>2 DEF f
    <3> QED
      BY <1>3, <1>4, <3>1, <3>2 DEF HandlesInv, ListsTyped, Extends
  <2> QED
    BY <1>6, <2>1, <2>2
<1>8. /\ DOMAIN served' = DOMAIN served /\ served' \in [DOMAIN served' -> ServedSubs(h)]
      /\ \A t \in DOMAIN served : \A i \in DOMAIN served'[t].items :
           \/ i \in DOMAIN served[t].items /\ served'[t].items[i] = served[t].items[i]
           \/ t = s0 /\ i = i0 /\ served'[t].items[i] = h
  <2>0. \A t \in DOMAIN served : served[t] \in ServedSubs(h)
    BY <1>3, <1>4 DEF ServedSubs
  <2>1. CASE served' = served
    BY <2>0, <2>1 DEF HandlesInv, ListsTyped
  <2>2. CASE /\ s0 \in DOMAIN served
             /\ served' = [served EXCEPT ![s0].items = With(@, i0, h), ![s0].data = @ \cup {i0}]
    <3> DEFINE f == With(served[s0].items, i0, h)
               e == [served[s0] EXCEPT !.items = f, !.data = @ \cup {i0}]
    <3>1. f \in ItemMaps(h) /\ Extends(f, served[s0].items, i0, h)
      <4>1. served[s0].items \in ItemMaps(h)
        BY <1>3, <1>4, <2>2
      <4>2. h \in Nat /\ i0 \in Nat /\ h \in 1 .. h
        BY <1>2
      <4> QED
        BY <4>1, <4>2, ItemAdded
    <3>2. served' = [served EXCEPT ![s0] = e]
      BY <2>2
    <3> HIDE DEF f
    <3>3. e \in ServedSubs(h) /\ e.items = f
      BY <1>2, <2>0, <2>2, <3>1 DEF ServedSubs
    <3> HIDE DEF e
    <3>4. /\ DOMAIN served' = DOMAIN served /\ served'[s0] = e
          /\ \A t \in DOMAIN served : t # s0 => served'[t] = served[t]
      BY <2>2, <3>2
    <3>5. served' \in [DOMAIN served' -> ServedSubs(h)]
      BY <2>0, <3>2, <3>3, <3>4 DEF HandlesInv, ListsTyped
    <3> QED
      BY <3>1, <3>3, <3>4, <3>5 DEF Extends
  <2> QED
    BY <1>5, <2>1, <2>2
<1>9. ListsTyped'
  BY <1>1, <1>2, <1>7, <1>8 DEF HandlesInv, ListsTyped
<1>10. /\ \A s \in DOMAIN subs : \A i \in DOMAIN subs[s] : subs[s][i] # h
       /\ \A t \in DOMAIN served : \A i \in DOMAIN served[t].items : served[t].items[i] # h
  BY <1>2, <1>3, <1>4
<1>11. HandlesMeanOneItem'
  <2>1. ASSUME NEW s \in DOMAIN subs', NEW t \in DOMAIN served',
               NEW i \in DOMAIN subs'[s], NEW j \in DOMAIN served'[t].items,
               subs'[s][i] = served'[t].items[j]
        PROVE  s = t /\ i = j
    BY <1>7, <1>8, <1>10, <2>1 DEF HandlesInv, HandlesMeanOneItem
  <2>2. ASSUME NEW s \in DOMAIN subs', NEW t \in DOMAIN subs',
               NEW i \in DOMAIN subs'[s], NEW j \in DOMAIN subs'[t],
               subs'[s][i] = subs'[t][j]
        PROVE  s = t /\ i = j
    BY <1>7, <1>10, <2>2 DEF HandlesInv, HandlesMeanOneItem
  <2> QED
    BY <2>1, <2>2 DEF HandlesMeanOneItem
<1> QED
  BY <1>9, <1>11 DEF HandlesInv

\* A map is part of itself, and so is a map without an item.
LEMMA RemovedIsPart ==
  ASSUME NEW h \in Nat, NEW f \in ItemMaps(h), NEW i
  PROVE  Without(f, i) \in ItemMaps(h) /\ PartOf(Without(f, i), f) /\ PartOf(f, f)
<1>1. Without(f, i) \in ItemMaps(h)
  BY ItemRemoved
<1>2. PartOf(Without(f, i), f)
  BY DEF PartOf, Without
<1>3. PartOf(f, f)
  BY DEF PartOf
<1> QED
  BY <1>1, <1>2, <1>3

\* An item less on one side or both.
LEMMA HandlesKeptByRemoveItem ==
  ASSUME HandlesInv, NEW s0 \in DOMAIN subs, NEW i0, NEW o \in Outcomes, removeMonitoredItem(s0, i0, o)
  PROVE  HandlesInv'
<1>1. /\ lost' \in Nat /\ handles \in Nat /\ handles' = handles
      /\ itemCount' = itemCount /\ created' = created /\ itemCount \in Nat /\ created \in Nat
  BY LostCounted DEF removeMonitoredItem, HandlesInv, ListsTyped
<1>2. /\ \A s \in DOMAIN subs : subs[s] \in ItemMaps(handles) /\ PartOf(subs[s], subs[s])
      /\ \A t \in DOMAIN served : /\ served[t] \in ServedSubs(handles)
                                  /\ served[t].items \in ItemMaps(handles)
                                  /\ PartOf(served[t].items, served[t].items)
  BY <1>1, RemovedIsPart DEF HandlesInv, ListsTyped, ServedSubs
<1>3. /\ DOMAIN subs' = DOMAIN subs /\ subs' \in [DOMAIN subs' -> ItemMaps(handles)]
      /\ \A s \in DOMAIN subs' : PartOf(subs'[s], subs[s])
  <2>1. CASE subs' = subs
    BY <1>2, <2>1 DEF HandlesInv, ListsTyped
  <2>2. CASE subs' = [subs EXCEPT ![s0] = Without(@, i0)]
    <3>1. /\ Without(subs[s0], i0) \in ItemMaps(handles)
          /\ PartOf(Without(subs[s0], i0), subs[s0])
      BY <1>1, <1>2, RemovedIsPart
    <3> QED
      BY <1>2, <2>2, <3>1 DEF HandlesInv, ListsTyped
  <2> QED
    BY <2>1, <2>2 DEF removeMonitoredItem
<1>4. /\ DOMAIN served' = DOMAIN served /\ served' \in [DOMAIN served' -> ServedSubs(handles)]
      /\ \A t \in DOMAIN served' : PartOf(served'[t].items, served[t].items)
  <2>1. CASE served' = served
    BY <1>2, <2>1 DEF HandlesInv, ListsTyped
  <2>2. CASE s0 \in DOMAIN served /\ served' = Unmonitored(s0, i0)
    <3> DEFINE f == Without(served[s0].items, i0)
               e == [served[s0] EXCEPT !.items = f, !.data = @ \ {i0}]
    <3>1. f \in ItemMaps(handles) /\ PartOf(f, served[s0].items)
      BY <1>1, <1>2, <2>2, RemovedIsPart
    <3>2. served' = [served EXCEPT ![s0] = e]
      BY <2>2 DEF Unmonitored
    <3> HIDE DEF f
    <3>3. e \in ServedSubs(handles) /\ e.items = f
      BY <1>2, <2>2, <3>1 DEF ServedSubs
    <3> HIDE DEF e
    <3>4. /\ DOMAIN served' = DOMAIN served /\ served'[s0] = e
          /\ \A t \in DOMAIN served : t # s0 => served'[t] = served[t]
      BY <2>2, <3>2
    <3>5. served' \in [DOMAIN served' -> ServedSubs(handles)]
      BY <1>2, <3>2, <3>3, <3>4 DEF HandlesInv, ListsTyped
    <3> QED
      BY <1>2, <3>1, <3>3, <3>4, <3>5
  <2>3. o # "refused" => s0 \in DOMAIN served
    BY DEF removeMonitoredItem
  <2> QED
    BY <2>1, <2>2, <2>3 DEF removeMonitoredItem
<1> QED
  BY <1>1, <1>3, <1>4, FewerItems

\* A subscription less on one side or both.
LEMMA HandlesKeptByRemove ==
  ASSUME HandlesInv, NEW s0 \in DOMAIN subs, NEW o \in Outcomes, Subscriptions_remove(s0, o)
  PROVE  HandlesInv'
<1>1. /\ lost' \in Nat /\ handles \in Nat /\ handles' = handles
      /\ itemCount' = itemCount /\ created' = created /\ itemCount \in Nat /\ created \in Nat
  BY LostCounted DEF Subscriptions_remove, HandlesInv, ListsTyped
<1>2. /\ \A s \in DOMAIN subs : PartOf(subs[s], subs[s])
      /\ \A t \in DOMAIN served : PartOf(served[t].items, served[t].items)
  BY DEF PartOf
<1>3. /\ DOMAIN subs' \subseteq DOMAIN subs /\ subs' \in [DOMAIN subs' -> ItemMaps(handles)]
      /\ \A s \in DOMAIN subs' : PartOf(subs'[s], subs[s])
  <2>1. subs' = subs \/ subs' = Without(subs, s0)
    BY DEF Subscriptions_remove
  <2>2. subs \in [DOMAIN subs -> ItemMaps(handles)]
    BY DEF HandlesInv, ListsTyped
  <2>3. CASE subs' = subs
    BY <1>2, <2>2, <2>3
  <2>4. CASE subs' = Without(subs, s0)
    BY <1>2, <2>2, <2>4 DEF Without
  <2> QED
    BY <2>1, <2>3, <2>4
<1>4. /\ DOMAIN served' \subseteq DOMAIN served /\ served' \in [DOMAIN served' -> ServedSubs(handles)]
      /\ \A t \in DOMAIN served' : PartOf(served'[t].items, served[t].items)
  <2>1. served' = served \/ served' = Without(served, s0)
    BY DEF Subscriptions_remove
  <2>2. served \in [DOMAIN served -> ServedSubs(handles)]
    BY DEF HandlesInv, ListsTyped
  <2>3. CASE served' = served
    BY <1>2, <2>2, <2>3
  <2>4. CASE served' = Without(served, s0)
    BY <1>2, <2>2, <2>4 DEF Without
  <2> QED
    BY <2>1, <2>3, <2>4
<1> QED
  BY <1>1, <1>3, <1>4, FewerItems

\* Nothing is left, so the counter may start again.
LEMMA HandlesKeptByReset ==
  ASSUME HandlesInv, ResetLists
  PROVE  HandlesInv'
<1>1. subs' = <<>> /\ served' = <<>> /\ handles' = 0 /\ UNCHANGED <<itemCount, created, lost>>
  BY DEF ResetLists
<1>2. DOMAIN <<>> = {} /\ \A S : <<>> \in [{} -> S]
  OBVIOUS
<1>3. ListsTyped'
  BY <1>1, <1>2 DEF HandlesInv, ListsTyped
<1>4. HandlesMeanOneItem'
  BY <1>1, <1>2 DEF HandlesMeanOneItem
<1> QED
  BY <1>3, <1>4 DEF HandlesInv

\* A step of the server that leaves the items alone.
LEMMA HandlesKeptByServer ==
  ASSUME HandlesInv, UNCHANGED <<subs, handles, itemCount, created>>, lost' \in Nat,
         DOMAIN served' \subseteq DOMAIN served,
         served' \in [DOMAIN served' -> ServedSubs(handles)],
         \A t \in DOMAIN served' : served'[t].items = served[t].items
  PROVE  HandlesInv'
<1>1. /\ \A s \in DOMAIN subs' : PartOf(subs'[s], subs[s])
      /\ \A t \in DOMAIN served' : PartOf(served'[t].items, served[t].items)
  BY DEF PartOf
<1>2. {itemCount', created', lost'} \subseteq Nat /\ subs' \in [DOMAIN subs' -> ItemMaps(handles)]
  BY DEF HandlesInv, ListsTyped
<1> QED
  BY <1>1, <1>2, FewerItems

\* What publishes(s) makes of the subscription, and the part of its data it sends.
SentOf(data) == IF Cardinality(data) <= PerPublish THEN data ELSE CHOOSE d \in SUBSET data : Cardinality(d) = PerPublish

\* The publishing, the samples and the lifetimes leave the items alone.
LEMMA HandlesKeptByOthers ==
  ASSUME HandlesInv,
         \/ SendPublish \/ PublishTimesOut \/ \E oom \in BOOLEAN : ProcessPublishResponse(oom)
         \/ \E t \in DOMAIN served : Publishes(t) \/ Expires(t) \/ \E i \in DOMAIN served[t].items : ValueChanges(t, i)
  PROVE  HandlesInv'
<1>1. \A t \in DOMAIN served : served[t] \in ServedSubs(handles)
  BY DEF HandlesInv, ListsTyped
<1>2. lost \in Nat
  BY DEF HandlesInv, ListsTyped
<1>3. CASE SendPublish
  <2>1. served' = [s \in DOMAIN served |-> [served[s] EXCEPT !.retained = {n \in @ : <<s, n>> \notin ToSet(acks)}]]
    BY <1>3 DEF SendPublish
  <2>2. /\ DOMAIN served' = DOMAIN served /\ served' \in [DOMAIN served' -> ServedSubs(handles)]
        /\ \A t \in DOMAIN served' : served'[t].items = served[t].items
    BY <1>1, <2>1 DEF ServedSubs
  <2> QED
    BY <1>2, <1>3, <2>2, HandlesKeptByServer DEF SendPublish
<1>4. CASE PublishTimesOut \/ \E oom \in BOOLEAN : ProcessPublishResponse(oom)
  <2>1. UNCHANGED <<subs, handles, served, itemCount, created>>
    BY <1>4 DEF PublishTimesOut, ProcessPublishResponse, serverSubVars
  <2>2. lost' \in Nat
    BY <1>2, <1>4, LostCounted DEF PublishTimesOut, ProcessPublishResponse
  <2>3. served' \in [DOMAIN served' -> ServedSubs(handles)]
    BY <2>1 DEF HandlesInv, ListsTyped
  <2> QED
    BY <2>1, <2>2, <2>3, HandlesKeptByServer
<1>5. ASSUME NEW t0 \in DOMAIN served, Publishes(t0) PROVE HandlesInv'
  <2> DEFINE now == SentOf(served[t0].data)
             e == [served[t0] EXCEPT !.seq = @ + 1, !.data = @ \ now, !.retained = @ \cup {served[t0].seq + 1}]
  <2>1. served' = served \/ served' = [served EXCEPT ![t0] = e]
    BY <1>5 DEF Publishes, SentOf
  <2> HIDE DEF now
  <2>2. e \in ServedSubs(handles) /\ e.items = served[t0].items
    <3>1. served[t0] \in [seq : Nat, items : ItemMaps(handles), retained : SUBSET Nat, data : SUBSET Nat]
      BY <1>1 DEF ServedSubs
    <3>2. /\ served[t0].seq + 1 \in Nat /\ served[t0].data \ now \in SUBSET Nat
          /\ served[t0].retained \cup {served[t0].seq + 1} \in SUBSET Nat
      BY <3>1
    <3> QED
      BY <3>1, <3>2 DEF ServedSubs
  <2> HIDE DEF e
  <2>3. /\ DOMAIN served' = DOMAIN served /\ served' \in [DOMAIN served' -> ServedSubs(handles)]
        /\ \A t \in DOMAIN served' : served'[t].items = served[t].items
    BY <1>1, <2>1, <2>2 DEF HandlesInv, ListsTyped
  <2> QED
    BY <1>2, <1>5, <2>3, HandlesKeptByServer DEF Publishes, clientSubVars
<1>6. ASSUME NEW t0 \in DOMAIN served, Expires(t0) PROVE HandlesInv'
  <2>1. /\ DOMAIN served' \subseteq DOMAIN served /\ served' \in [DOMAIN served' -> ServedSubs(handles)]
        /\ \A t \in DOMAIN served' : served'[t].items = served[t].items
    <3>1. served' = Without(served, t0)
      BY <1>6 DEF Expires
    <3>2. served \in [DOMAIN served -> ServedSubs(handles)]
      BY DEF HandlesInv, ListsTyped
    <3> QED
      BY <3>1, <3>2 DEF Without
  <2> QED
    BY <1>2, <1>6, <2>1, HandlesKeptByServer DEF Expires, clientSubVars
<1>7. ASSUME NEW t0 \in DOMAIN served, NEW i \in DOMAIN served[t0].items, ValueChanges(t0, i) PROVE HandlesInv'
  <2> DEFINE e == [served[t0] EXCEPT !.data = @ \cup {i}]
  <2>1. served' = [served EXCEPT ![t0] = e]
    BY <1>7 DEF ValueChanges
  <2>2. e \in ServedSubs(handles) /\ e.items = served[t0].items
    <3>1. served[t0].items \in ItemMaps(handles) /\ handles \in Nat
      BY <1>1 DEF ServedSubs, HandlesInv, ListsTyped
    <3>2. i \in Nat
      BY <3>1, ItemMapFacts
    <3> QED
      BY <1>1, <3>2 DEF ServedSubs
  <2> HIDE DEF e
  <2>3. /\ DOMAIN served' = DOMAIN served /\ served' \in [DOMAIN served' -> ServedSubs(handles)]
        /\ \A t \in DOMAIN served' : served'[t].items = served[t].items
    BY <1>1, <2>1, <2>2 DEF HandlesInv, ListsTyped
  <2> QED
    BY <1>2, <1>7, <2>3, HandlesKeptByServer DEF ValueChanges, clientSubVars
<1> QED
  BY <1>3, <1>4, <1>5, <1>6, <1>7

\* No step gives a handle a second meaning.
LEMMA HandlesStep ==
  ASSUME HandlesInv, [ListsNext]_lists
  PROVE  HandlesInv'
<1>1. CASE UNCHANGED lists
  BY <1>1 DEF lists, clientSubVars, serverSubVars, HandlesInv, ListsTyped, HandlesMeanOneItem
<1>2. ASSUME NEW o \in Outcomes, Subscriptions_new(o) PROVE HandlesInv'
  BY <1>2, HandlesKeptByNew
<1>3. ASSUME NEW s \in DOMAIN subs, NEW o \in Outcomes,
             addMonitoredItem(s, o) \/ Subscriptions_remove(s, o)
             \/ \E i \in DOMAIN subs[s] : removeMonitoredItem(s, i, o)
      PROVE  HandlesInv'
  BY <1>3, HandlesKeptByAdd, HandlesKeptByRemove, HandlesKeptByRemoveItem
<1> QED
  BY <1>1, <1>2, <1>3, HandlesKeptByReset, HandlesKeptByOthers DEF ListsNext

-----------------------------------------------------------------------------
(* Without a lost answer the server forgets only what was handled.         *)

\* The pairs of the mirror for one subscription.
MirrorOf(e, f) ==
  /\ IsFiniteSet(e.data) /\ e.data \subseteq DOMAIN e.items
  /\ \A i \in DOMAIN e.items : i \in DOMAIN f /\ f[i] = e.items[i]

\* The mirror, one subscription at a time, in this state and in the next.
LEMMA MirroredIs ==
  Mirrored <=> \A t \in DOMAIN served : t \in DOMAIN subs /\ MirrorOf(served[t], subs[t])
BY DEF Mirrored, MirrorOf

LEMMA MirroredIsNext ==
  Mirrored' <=> \A t \in DOMAIN served' : t \in DOMAIN subs' /\ MirrorOf(served'[t], subs'[t])
BY DEF Mirrored, MirrorOf

\* A call of the client other than publish is made when no message is on its way; it
\* leaves acknowledgements and messages alone and retains nothing new.
LEMMA CallsKeep ==
  ASSUME NothingLost, NotCalling, UNCHANGED <<publish, acks, queue, reply, received, freed>>,
         \A t \in DOMAIN served' : served'[t].retained = {} \/ (t \in DOMAIN served /\ served'[t].retained = served[t].retained),
         Mirrored'
  PROVE  NothingLost'
<1>1. OneCall'
  BY DEF NothingLost, OneCall
<1>2. reply = <<>>
  BY DEF NothingLost, OneCall, NotCalling
<1>3. RetainedAreHandled'
  BY <1>2 DEF NothingLost, RetainedAreHandled, OnItsWay
<1>4. ReplyIsHandled'
  BY <1>2 DEF ReplyIsHandled
<1> QED
  BY <1>1, <1>3, <1>4 DEF NothingLost

\* A new subscription is known on both sides.
LEMMA AcksKeptByNew ==
  ASSUME HandlesInv, NothingLost, NEW o \in Outcomes, o # "lost", Subscriptions_new(o)
  PROVE  NothingLost'
<1> DEFINE t0 == created + 1
           new == [seq |-> 0, items |-> <<>>, retained |-> {}, data |-> {}]
<1>1. served' = With(served, t0, new) /\ subs' = With(subs, t0, <<>>)
  BY DEF Subscriptions_new, Outcomes
<1>2. new.retained = {} /\ new.data = {} /\ DOMAIN new.items = {}
  OBVIOUS
<1>3. MirrorOf(new, <<>>)
  BY <1>2, FS_EmptySet DEF MirrorOf
<1> HIDE DEF new, t0
<1>4. /\ DOMAIN served' = DOMAIN served \cup {t0} /\ served'[t0] = new
      /\ \A t \in DOMAIN served : t # t0 => served'[t] = served[t]
      /\ DOMAIN subs' = DOMAIN subs \cup {t0} /\ subs'[t0] = <<>>
      /\ \A t \in DOMAIN subs : t # t0 => subs'[t] = subs[t]
  BY <1>1 DEF With
<1>5. Mirrored'
  BY <1>3, <1>4, MirroredIs, MirroredIsNext DEF NothingLost
<1>6. \A t \in DOMAIN served' : served'[t].retained = {} \/ (t \in DOMAIN served /\ served'[t].retained = served[t].retained)
  BY <1>2, <1>4
<1> QED
  BY <1>5, <1>6, CallsKeep DEF Subscriptions_new

\* A new item is known on both sides, with the handle of the request.
LEMMA AcksKeptByAdd ==
  ASSUME HandlesInv, NothingLost, NEW s0 \in DOMAIN subs, NEW o \in Outcomes, o # "lost", addMonitoredItem(s0, o)
  PROVE  NothingLost'
<1>1. CASE o = "refused"
  <2>1. served' = served /\ subs' = subs
    BY <1>1 DEF addMonitoredItem
  <2>2. Mirrored'
    BY <2>1, MirroredIs, MirroredIsNext DEF NothingLost
  <2> QED
    BY <2>1, <2>2, CallsKeep DEF addMonitoredItem
<1>2. CASE o # "refused"
  <2> DEFINE i0 == itemCount + 1
             h == handles + 1
             f == With(subs[s0], i0, h)
             g == With(served[s0].items, i0, h)
             e == [served[s0] EXCEPT !.items = g, !.data = @ \cup {i0}]
  <2>1. s0 \in DOMAIN served
    BY <1>2 DEF addMonitoredItem
  <2>2. served' = [served EXCEPT ![s0] = e] /\ subs' = [subs EXCEPT ![s0] = f]
    BY <1>2 DEF addMonitoredItem, HandleCounter, Outcomes
  <2>3. served[s0] \in ServedSubs(handles)
    BY <2>1 DEF HandlesInv, ListsTyped
  <2>4. e.items = g /\ e.data = served[s0].data \cup {i0} /\ e.retained = served[s0].retained
    BY <2>3 DEF ServedSubs
  <2>5. MirrorOf(served[s0], subs[s0])
    BY <2>1, MirroredIs DEF NothingLost
  <2>6. MirrorOf(e, f)
    <3>1. IsFiniteSet(served[s0].data \cup {i0})
      BY <2>5, FS_AddElement DEF MirrorOf
    <3>2. /\ DOMAIN g = DOMAIN served[s0].items \cup {i0} /\ DOMAIN f = DOMAIN subs[s0] \cup {i0}
          /\ g[i0] = h /\ f[i0] = h
          /\ \A i \in DOMAIN served[s0].items : i # i0 => g[i] = served[s0].items[i]
          /\ \A i \in DOMAIN subs[s0] : i # i0 => f[i] = subs[s0][i]
      BY DEF With
    <3> HIDE DEF i0, h, f, g, e
    <3> QED
      BY <2>4, <2>5, <3>1, <3>2 DEF MirrorOf
  <2> HIDE DEF e, f
  <2>7. /\ DOMAIN served' = DOMAIN served /\ served'[s0] = e
        /\ \A t \in DOMAIN served : t # s0 => served'[t] = served[t]
        /\ DOMAIN subs' = DOMAIN subs /\ subs'[s0] = f
        /\ \A t \in DOMAIN subs : t # s0 => subs'[t] = subs[t]
    BY <2>1, <2>2
  <2>8. Mirrored'
    BY <2>6, <2>7, MirroredIs, MirroredIsNext DEF NothingLost
  <2>9. \A t \in DOMAIN served' : t \in DOMAIN served /\ served'[t].retained = served[t].retained
    BY <2>4, <2>7
  <2> QED
    BY <2>8, <2>9, CallsKeep DEF addMonitoredItem
<1> QED
  BY <1>1, <1>2

\* A removed item is gone on the server, at least there.
LEMMA AcksKeptByRemoveItem ==
  ASSUME HandlesInv, NothingLost, NEW s0 \in DOMAIN subs, NEW i0, NEW o \in Outcomes, o # "lost",
         removeMonitoredItem(s0, i0, o)
  PROVE  NothingLost'
<1>1. CASE o = "refused"
  <2>1. served' = served /\ subs' = subs
    BY <1>1 DEF removeMonitoredItem
  <2>2. Mirrored'
    BY <2>1, MirroredIs, MirroredIsNext DEF NothingLost
  <2> QED
    BY <2>1, <2>2, CallsKeep DEF removeMonitoredItem
<1>2. CASE o # "refused"
  <2> DEFINE f == Without(subs[s0], i0)
             g == Without(served[s0].items, i0)
             e == [served[s0] EXCEPT !.items = g, !.data = @ \ {i0}]
  <2>1. s0 \in DOMAIN served /\ subs' = [subs EXCEPT ![s0] = f]
    BY <1>2 DEF removeMonitoredItem, Outcomes
  <2>2. \/ i0 \notin DOMAIN served[s0].items /\ served' = served
        \/ served' = [served EXCEPT ![s0] = e]
    BY <1>2 DEF removeMonitoredItem, Unmonitored
  <2>3. served[s0] \in ServedSubs(handles)
    BY <2>1 DEF HandlesInv, ListsTyped
  <2>4. e.items = g /\ e.data = served[s0].data \ {i0} /\ e.retained = served[s0].retained
    BY <2>3 DEF ServedSubs
  <2>5. MirrorOf(served[s0], subs[s0])
    BY <2>1, MirroredIs DEF NothingLost
  <2>6. /\ DOMAIN g = DOMAIN served[s0].items \ {i0} /\ DOMAIN f = DOMAIN subs[s0] \ {i0}
        /\ \A i \in DOMAIN served[s0].items : i # i0 => g[i] = served[s0].items[i]
        /\ \A i \in DOMAIN subs[s0] : i # i0 => f[i] = subs[s0][i]
    BY DEF Without
  <2>7. MirrorOf(e, f)
    <3>1. IsFiniteSet(served[s0].data \ {i0})
      BY <2>5, FS_RemoveElement DEF MirrorOf
    <3> HIDE DEF f, g, e
    <3> QED
      BY <2>4, <2>5, <2>6, <3>1 DEF MirrorOf
  <2>8. i0 \notin DOMAIN served[s0].items => MirrorOf(served[s0], f)
    <3> HIDE DEF f, g, e
    <3> QED
      BY <2>5, <2>6 DEF MirrorOf
  <2> HIDE DEF e, f
  <2>9. /\ DOMAIN served' = DOMAIN served
        /\ served'[s0] = e \/ (i0 \notin DOMAIN served[s0].items /\ served'[s0] = served[s0])
        /\ \A t \in DOMAIN served : t # s0 => served'[t] = served[t]
        /\ DOMAIN subs' = DOMAIN subs /\ subs'[s0] = f
        /\ \A t \in DOMAIN subs : t # s0 => subs'[t] = subs[t]
    BY <2>1, <2>2
  <2>10. Mirrored'
    BY <2>7, <2>8, <2>9, MirroredIs, MirroredIsNext DEF NothingLost
  <2>11. \A t \in DOMAIN served' : t \in DOMAIN served /\ served'[t].retained = served[t].retained
    BY <2>4, <2>9
  <2> QED
    BY <2>10, <2>11, CallsKeep DEF removeMonitoredItem
<1> QED
  BY <1>1, <1>2

\* A removed subscription is gone on both sides.
LEMMA AcksKeptByRemove ==
  ASSUME HandlesInv, NothingLost, NEW s0 \in DOMAIN subs, NEW o \in Outcomes, o # "lost", Subscriptions_remove(s0, o)
  PROVE  NothingLost'
<1>1. \/ served' = served /\ subs' = subs
      \/ served' = Without(served, s0) /\ subs' = Without(subs, s0)
  BY DEF Subscriptions_remove, Outcomes
<1>2. /\ \A t \in DOMAIN served' : t \in DOMAIN served /\ served'[t] = served[t]
      /\ \A t \in DOMAIN served' : t \in DOMAIN subs => t \in DOMAIN subs' /\ subs'[t] = subs[t]
  BY <1>1 DEF Without
<1>3. Mirrored'
  BY <1>2, MirroredIs, MirroredIsNext DEF NothingLost
<1> QED
  BY <1>2, <1>3, CallsKeep DEF Subscriptions_remove

\* The server forgets the session with all it had for it.
LEMMA AcksKeptByReset ==
  ASSUME NothingLost, ResetLists
  PROVE  NothingLost'
<1>1. /\ acks' = <<>> /\ served' = <<>> /\ queue' = <<>> /\ reply' = reply /\ publish' = publish
      /\ received' = received /\ freed' = freed /\ ~publish.busy
  BY DEF ResetLists, NotCalling
<1>2. reply = <<>>
  BY <1>1 DEF NothingLost, OneCall
<1>3. DOMAIN <<>> = {} /\ <<>> \in Seq(Nat \X Nat)
  OBVIOUS
<1>4. OneCall' /\ Mirrored' /\ RetainedAreHandled' /\ ReplyIsHandled'
  BY <1>1, <1>2, <1>3 DEF OneCall, Mirrored, RetainedAreHandled, ReplyIsHandled
<1> QED
  BY <1>1, <1>3, <1>4 DEF NothingLost

\* A message carries some of the data, if there are any: there are as many of them
\* as fit into it.
LEMMA SomeAreSent ==
  ASSUME NEW data, IsFiniteSet(data)
  PROVE  SentOf(data) \subseteq data /\ (data # {} => SentOf(data) # {})
<1>1. PerPublish \in Nat /\ PerPublish > 0
  BY ClientSubscriptionsConstants
<1>2. CASE Cardinality(data) <= PerPublish
  BY <1>2 DEF SentOf
<1>3. CASE ~(Cardinality(data) <= PerPublish)
  <2> DEFINE n == Cardinality(data)
             OfSize(d) == Cardinality(d) = PerPublish
  <2>1. n \in Nat /\ ExistsBijection(1 .. n, data)
    BY FS_CardinalityType
  <2>2. PICK f : f \in Bijection(1 .. n, data)
    BY <2>1 DEF ExistsBijection
  <2>3. 1 .. PerPublish \subseteq 1 .. n
    <3> HIDE DEF n
    <3> QED
      BY <1>1, <1>3, <2>1 DEF n
  <2> DEFINE d0 == {f[i] : i \in 1 .. PerPublish}
             g == [i \in 1 .. PerPublish |-> f[i]]
  <2> HIDE DEF n
  <2>4. f \in [1 .. n -> data] /\ \A i, j \in 1 .. n : f[i] = f[j] => i = j
    BY <2>2 DEF Bijection, Injection, Surjection, IsInjective
  <2>5. g \in Bijection(1 .. PerPublish, d0)
    BY <2>3, <2>4 DEF Bijection, Injection, Surjection, IsInjective
  <2>6. IsFiniteSet(1 .. PerPublish) /\ Cardinality(1 .. PerPublish) = PerPublish
    BY <1>1, FS_Interval
  <2>7. OfSize(d0)
    <3>1. ExistsBijection(1 .. PerPublish, d0)
      BY <2>5 DEF ExistsBijection
    <3> HIDE DEF d0
    <3> QED
      BY <2>6, <3>1, FS_Bijection
  <2>8. d0 \in SUBSET data
    BY <2>3, <2>4
  <2> HIDE DEF d0
  <2>9. SentOf(data) = CHOOSE d \in SUBSET data : OfSize(d)
    BY <1>3 DEF SentOf
  <2>10. SentOf(data) \in SUBSET data /\ OfSize(SentOf(data))
    BY <2>7, <2>8, <2>9
  <2>11. Cardinality({}) = 0
    BY FS_EmptySet
  <2> QED
    BY <1>1, <2>10, <2>11
<1> QED
  BY <1>2, <1>3

\* The request goes out when nothing is on its way, so what its acknowledgements
\* free was handled.
LEMMA AcksKeptBySendPublish ==
  ASSUME HandlesInv, NothingLost, SendPublish
  PROVE  NothingLost'
<1> DEFINE Freed(t) == [served[t] EXCEPT !.retained = {n \in @ : <<t, n>> \notin ToSet(acks)}]
           request == [results |-> [i \in 1..Len(acks) |-> AckResult(acks[i])], mine |-> TRUE]
<1>1. ~publish.busy /\ queue = <<>> /\ reply = <<>>
  BY DEF SendPublish, NotCalling, NothingLost, OneCall
<1>2. UNCHANGED <<subs, acks, reply, received>>
  BY DEF SendPublish
<1>3. served' = [t \in DOMAIN served |-> Freed(t)]
  BY DEF SendPublish
<1>4. /\ DOMAIN served' = DOMAIN served
      /\ \A t \in DOMAIN served : /\ served'[t].items = served[t].items /\ served'[t].data = served[t].data
                                  /\ served'[t].retained \subseteq served[t].retained
  <2>1. \A t \in DOMAIN served : served[t] \in ServedSubs(handles)
    BY DEF HandlesInv, ListsTyped
  <2> QED
    BY <1>3, <2>1 DEF ServedSubs
<1>5. OneCall'
  <2>1. CASE DOMAIN served = {}
    BY <1>1, <1>2, <2>1 DEF SendPublish, OneCall
  <2>2. CASE DOMAIN served # {}
    <3>1. publish' = [busy |-> TRUE, acks |-> acks] /\ queue' = Append(queue, request)
      BY <2>2 DEF SendPublish
    <3>2. request.mine
      OBVIOUS
    <3> HIDE DEF request
    <3>3. publish'.busy /\ queue' = <<request>>
      BY <1>1, <3>1
    <3> QED
      BY <1>1, <1>2, <3>2, <3>3 DEF OneCall
  <2> QED
    BY <2>1, <2>2
<1>6. Mirrored'
  BY <1>2, <1>4 DEF NothingLost, Mirrored
<1>7. RetainedAreHandled'
  BY <1>1, <1>2, <1>4 DEF NothingLost, RetainedAreHandled, OnItsWay
<1>8. ReplyIsHandled'
  BY <1>1, <1>2 DEF ReplyIsHandled
<1>9. freed' \subseteq received'
  <2>1. ASSUME NEW a \in ToSet(acks), AckResult(a) = "Good" PROVE a \in received
    <3>1. a \in Nat \X Nat
      BY <2>1 DEF NothingLost, ToSet
    <3>2. a[1] \in DOMAIN served /\ a[2] \in served[a[1]].retained
      BY <2>1 DEF AckResult
    <3>3. <<a[1], a[2]>> \in received
      BY <1>1, <3>2 DEF NothingLost, RetainedAreHandled, OnItsWay
    <3> QED
      BY <3>1, <3>3
  <2> QED
    BY <1>2, <2>1 DEF SendPublish, NothingLost
<1>10. acks' \in Seq(Nat \X Nat)
  BY <1>2 DEF NothingLost
<1> QED
  BY <1>5, <1>6, <1>7, <1>8, <1>9, <1>10 DEF NothingLost

\* The message the server retains is the one on its way to the client, with the
\* handles of the items the client has.
LEMMA AcksKeptByPublishes ==
  ASSUME HandlesInv, NothingLost, NEW t0 \in DOMAIN served, Publishes(t0)
  PROVE  NothingLost'
<1> DEFINE data == served[t0].data
           now == SentOf(data)
           items == {served[t0].items[i] : i \in now}
           msg == [sub |-> t0, number |-> served[t0].seq + 1, items |-> items,
                   results |-> Head(queue).results, more |-> now # data]
           e == [served[t0] EXCEPT !.seq = @ + 1, !.data = @ \ now, !.retained = @ \cup {msg.number}]
<1>1. publish.busy /\ reply = <<>> /\ queue # <<>> /\ queue = <<queue[1]>> /\ queue[1].mine
  BY DEF Publishes, NothingLost, OneCall
<1>2. UNCHANGED <<subs, acks, publish, received, freed>>
  BY DEF Publishes, clientSubVars
<1>3. queue' = Tail(queue) /\ reply' = <<msg>>
  <2>1. Head(queue).mine
    BY <1>1
  <2>2. reply' = IF Head(queue).mine THEN <<msg>> ELSE reply
    BY DEF Publishes, SentOf
  <2>3. queue' = Tail(queue)
    BY DEF Publishes
  <2> QED
    BY <2>1, <2>2, <2>3
<1>4. \/ data = {} /\ served' = served
      \/ data # {} /\ served' = [served EXCEPT ![t0] = e]
  BY DEF Publishes, SentOf
<1>5. MirrorOf(served[t0], subs[t0]) /\ t0 \in DOMAIN subs
  BY MirroredIs DEF NothingLost
<1>6. now \subseteq data /\ (data # {} => now # {})
  BY <1>5, SomeAreSent DEF MirrorOf
<1>7. served[t0] \in ServedSubs(handles) /\ t0 \in Nat
  BY DEF HandlesInv, ListsTyped
<1> HIDE DEF now
<1>8. items # {} <=> now # {}
  OBVIOUS
<1>9. Handled(msg)
  BY <1>5, <1>6 DEF Handled, MirrorOf
<1>10. msg.sub = t0 /\ msg.number = served[t0].seq + 1 /\ msg.items = items /\ msg.number \in Nat
  BY <1>7 DEF ServedSubs
<1> HIDE DEF items
<1>11. /\ e.items = served[t0].items /\ e.data = data \ now
       /\ e.retained = served[t0].retained \cup {msg.number}
  BY <1>7 DEF ServedSubs
<1> HIDE DEF msg, e
<1>12. reply' # <<>> /\ reply'[1] = msg
  BY <1>3
<1>13. OneCall'
  <2>1. queue' = <<>>
    BY <1>1, <1>3
  <2> QED
    BY <1>1, <1>2, <1>3, <1>7, <1>10, <1>12, <2>1 DEF OneCall
<1>14. MirrorOf(e, subs[t0])
  <2>1. IsFiniteSet(data \ now)
    BY <1>5, FS_Subset DEF MirrorOf
  <2> QED
    BY <1>5, <1>11, <2>1 DEF MirrorOf
<1>15. /\ DOMAIN served' = DOMAIN served
       /\ (served'[t0] = e /\ data # {}) \/ served'[t0] = served[t0]
       /\ \A t \in DOMAIN served : t # t0 => served'[t] = served[t]
  BY <1>4
<1>16. Mirrored'
  BY <1>2, <1>5, <1>14, <1>15, MirroredIs, MirroredIsNext DEF NothingLost
<1>17. RetainedAreHandled'
  <2>1. \A t \in DOMAIN served : \A n \in served[t].retained : <<t, n>> \in received
    BY <1>1 DEF NothingLost, RetainedAreHandled, OnItsWay
  <2>2. data # {} => /\ reply' # <<>> /\ reply'[1].sub = t0 /\ reply'[1].number = msg.number
                     /\ reply'[1].items # {}
    BY <1>6, <1>8, <1>10, <1>12
  <2>3. ASSUME NEW t \in DOMAIN served', NEW n \in served'[t].retained
        PROVE  <<t, n>> \in received' \/ OnItsWay(t, n)'
    <3>1. CASE n \in served[t].retained
      BY <1>2, <1>15, <2>1, <3>1
    <3>2. CASE t = t0 /\ n = msg.number /\ data # {}
      BY <2>2, <3>2 DEF OnItsWay
    <3> QED
      BY <1>11, <1>15, <3>1, <3>2
  <2> QED
    BY <2>3 DEF RetainedAreHandled
<1>18. ReplyIsHandled'
  BY <1>2, <1>9, <1>12 DEF ReplyIsHandled, Handled
<1> QED
  BY <1>2, <1>13, <1>16, <1>17, <1>18 DEF NothingLost

\* The handlers for the message are there, so it counts as received.
LEMMA AcksKeptByProcess ==
  ASSUME HandlesInv, NothingLost, NEW oom \in BOOLEAN, ProcessPublishResponse(oom)
  PROVE  NothingLost'
<1> DEFINE msg == reply[1]
           settled == {publish.acks[i] : i \in {j \in DOMAIN publish.acks : j <= Len(msg.results) /\ Acknowledged(msg.results, j)}}
           kept == Unsettled(acks, settled)
<1>1. queue = <<>> /\ reply # <<>> /\ msg.sub \in Nat /\ msg.number \in Nat
  BY DEF ProcessPublishResponse, NothingLost, OneCall
<1>2. /\ reply' = <<>> /\ publish' = [busy |-> FALSE, acks |-> <<>>]
      /\ UNCHANGED <<subs, served, queue, freed>>
  BY DEF ProcessPublishResponse, serverSubVars
<1>3. \/ msg.sub \notin DOMAIN subs /\ UNCHANGED <<acks, received>>
      \/ /\ msg.sub \in DOMAIN subs
         /\ acks' = kept \/ acks' = NextAcks(kept, msg)
         /\ received' = IF msg.items # {} /\ Handled(msg) THEN received \cup {<<msg.sub, msg.number>>} ELSE received
  BY DEF ProcessPublishResponse
<1> HIDE DEF settled
<1>4. acks' \in Seq(Nat \X Nat)
  <2>1. kept \in Seq(Nat \X Nat)
    BY UnsettledRemain DEF NothingLost
  <2> HIDE DEF kept, msg
  <2>2. NextAcks(kept, msg) \in Seq(Nat \X Nat)
    <3>1. <<msg.sub, msg.number>> \in Nat \X Nat
      BY <1>1
    <3>2. <<<<msg.sub, msg.number>>>> \in Seq(Nat \X Nat)
      BY <3>1
    <3> QED
      BY <2>1, <3>2 DEF NextAcks
  <2> QED
    BY <1>3, <2>1, <2>2 DEF NothingLost
<1> HIDE DEF kept
<1>5. OneCall'
  BY <1>1, <1>2 DEF OneCall
<1>6. Mirrored'
  BY <1>2 DEF NothingLost, Mirrored
<1>7. received \subseteq received'
  BY <1>3
<1>8. RetainedAreHandled'
  <2>1. ASSUME NEW t \in DOMAIN served, NEW n \in served[t].retained
        PROVE  <<t, n>> \in received'
    <3>1. CASE <<t, n>> \in received
      BY <1>7, <3>1
    <3>2. CASE OnItsWay(t, n)
      <4>1. msg.sub = t /\ msg.number = n /\ msg.items # {} /\ t \in DOMAIN subs
        BY <3>2 DEF OnItsWay, NothingLost, Mirrored
      <4>2. Handled(msg)
        BY <1>1, <4>1 DEF NothingLost, ReplyIsHandled
      <4> QED
        BY <1>3, <4>1, <4>2
    <3> QED
      BY <3>1, <3>2 DEF NothingLost, RetainedAreHandled
  <2> QED
    BY <1>2, <2>1 DEF RetainedAreHandled
<1>9. ReplyIsHandled'
  BY <1>2 DEF ReplyIsHandled
<1> QED
  BY <1>2, <1>4, <1>5, <1>6, <1>7, <1>8, <1>9 DEF NothingLost

\* A sample, and the end of a subscription on the server.
LEMMA AcksKeptByServer ==
  ASSUME HandlesInv, NothingLost, NEW t0 \in DOMAIN served,
         Expires(t0) \/ \E i \in DOMAIN served[t0].items : ValueChanges(t0, i)
  PROVE  NothingLost'
<1>1. UNCHANGED <<subs, acks, publish, queue, reply, received, freed>>
  BY DEF Expires, ValueChanges, clientSubVars
<1>2. /\ DOMAIN served' \subseteq DOMAIN served
      /\ \A t \in DOMAIN served' : served'[t].retained = served[t].retained /\ MirrorOf(served'[t], subs[t])
  <2>1. \A t \in DOMAIN served : MirrorOf(served[t], subs[t])
    BY MirroredIs DEF NothingLost
  <2>2. CASE Expires(t0)
    BY <2>1, <2>2 DEF Expires, Without
  <2>3. ASSUME NEW i \in DOMAIN served[t0].items, ValueChanges(t0, i)
        PROVE  /\ DOMAIN served' \subseteq DOMAIN served
               /\ \A t \in DOMAIN served' : served'[t].retained = served[t].retained /\ MirrorOf(served'[t], subs[t])
    <3> DEFINE e == [served[t0] EXCEPT !.data = @ \cup {i}]
    <3>1. served' = [served EXCEPT ![t0] = e]
      BY <2>3 DEF ValueChanges
    <3>2. served[t0] \in ServedSubs(handles)
      BY DEF HandlesInv, ListsTyped
    <3>3. e.items = served[t0].items /\ e.data = served[t0].data \cup {i} /\ e.retained = served[t0].retained
      BY <3>2 DEF ServedSubs
    <3> HIDE DEF e
    <3>4. IsFiniteSet(served[t0].data \cup {i})
      BY <2>1, FS_AddElement DEF MirrorOf
    <3>5. MirrorOf(e, subs[t0])
      BY <2>1, <3>3, <3>4 DEF MirrorOf
    <3> QED
      BY <2>1, <3>1, <3>3, <3>5
  <2> QED
    BY <2>2, <2>3
<1>3. Mirrored'
  BY <1>1, <1>2, MirroredIs, MirroredIsNext DEF NothingLost
<1>4. RetainedAreHandled'
  BY <1>1, <1>2 DEF NothingLost, RetainedAreHandled, OnItsWay
<1>5. OneCall' /\ ReplyIsHandled'
  BY <1>1 DEF NothingLost, OneCall, ReplyIsHandled, Handled
<1> QED
  BY <1>1, <1>3, <1>4, <1>5 DEF NothingLost

\* No step of the lists, as long as no answer was lost, breaks it.
LEMMA AcksStep ==
  ASSUME ListsInv, [ListsNext]_lists
  PROVE  AcksInv'
<1> SUFFICES ASSUME lost' = 0 PROVE NothingLost'
  BY DEF AcksInv
<1>0. HandlesInv /\ lost \in Nat /\ (lost = 0 => NothingLost)
  BY DEF ListsInv, AcksInv, HandlesInv, ListsTyped
<1>1. CASE UNCHANGED lists
  BY <1>0, <1>1 DEF lists, clientSubVars, serverSubVars, NothingLost, OneCall, Mirrored,
                    RetainedAreHandled, OnItsWay, ReplyIsHandled, Handled
<1>2. ASSUME NEW o \in Outcomes, Subscriptions_new(o) PROVE NothingLost'
  BY <1>0, <1>2, LostCounted, AcksKeptByNew DEF Subscriptions_new
<1>3. ASSUME NEW s \in DOMAIN subs, NEW o \in Outcomes, addMonitoredItem(s, o) PROVE NothingLost'
  BY <1>0, <1>3, LostCounted, AcksKeptByAdd DEF addMonitoredItem
<1>4. ASSUME NEW s \in DOMAIN subs, NEW o \in Outcomes, Subscriptions_remove(s, o) PROVE NothingLost'
  BY <1>0, <1>4, LostCounted, AcksKeptByRemove DEF Subscriptions_remove
<1>5. ASSUME NEW s \in DOMAIN subs, NEW o \in Outcomes, NEW i \in DOMAIN subs[s], removeMonitoredItem(s, i, o)
      PROVE  NothingLost'
  BY <1>0, <1>5, LostCounted, AcksKeptByRemoveItem DEF removeMonitoredItem
<1>6. ASSUME NEW t \in DOMAIN served,
             Publishes(t) \/ Expires(t) \/ \E i \in DOMAIN served[t].items : ValueChanges(t, i)
      PROVE  NothingLost'
  <2>1. NothingLost
    BY <1>0, <1>6 DEF Publishes, Expires, ValueChanges
  <2> QED
    BY <1>0, <1>6, <2>1, AcksKeptByPublishes, AcksKeptByServer
<1>7. ASSUME NEW oom \in BOOLEAN, ProcessPublishResponse(oom) PROVE NothingLost'
  BY <1>0, <1>7, AcksKeptByProcess DEF ProcessPublishResponse
<1>8. CASE ResetLists
  BY <1>0, <1>8, AcksKeptByReset DEF ResetLists
<1>9. CASE SendPublish
  BY <1>0, <1>9, AcksKeptBySendPublish DEF SendPublish
<1>10. CASE PublishTimesOut
  BY <1>0, <1>10, LostCounted DEF PublishTimesOut
<1> QED
  BY <1>1, <1>2, <1>3, <1>4, <1>5, <1>6, <1>7, <1>8, <1>9, <1>10 DEF ListsNext

\* Nothing is listed at first.
LEMMA ListsInitially ==
  ASSUME ListsInit
  PROVE  ListsInv
<1>1. DOMAIN <<>> = {} /\ (\A S : <<>> \in [{} -> S]) /\ <<>> \in Seq(Nat \X Nat)
  OBVIOUS
<1>2. HandlesInv
  BY <1>1 DEF ListsInit, HandlesInv, ListsTyped, HandlesMeanOneItem
<1>3. NothingLost
  BY <1>1 DEF ListsInit, NothingLost, OneCall, Mirrored, RetainedAreHandled, ReplyIsHandled
<1> QED
  BY <1>2, <1>3 DEF ListsInv, AcksInv

\* The lists of client and server agree on every handle, and as long as no answer
\* was lost the server drops only messages the handlers saw.
THEOREM ListsInvariance == ListsSpec => []ListsInv
<1>1. ListsInit => ListsInv
  BY ListsInitially
<1>2. ListsInv /\ [ListsNext]_lists => ListsInv'
  <2> SUFFICES ASSUME ListsInv, [ListsNext]_lists PROVE ListsInv'
    OBVIOUS
  <2>1. HandlesInv'
    BY HandlesStep DEF ListsInv
  <2>2. AcksInv'
    BY AcksStep
  <2> QED
    BY <2>1, <2>2 DEF ListsInv
<1> QED
  BY <1>1, <1>2, PTL DEF ListsSpec

\* Notifications run the handlers of their items, and are not forgotten before
\* (UA_Client_processPublishResponse, UA_Client_Subscriptions_addMonitoredItem).
THEOREM NotificationsStayMatched == ListsSpec => []NotificationsMatch
<1>1. ListsInv => NotificationsMatch
  BY DEF ListsInv, HandlesInv, AcksInv, NothingLost, NotificationsMatch, AckedWasHandled
<1> QED
  BY <1>1, ListsInvariance, PTL

-----------------------------------------------------------------------------
(* The secure channel: what is collected and given belongs to its request, *)
(* whatever is lost; while nothing is lost, the units under way are whole  *)
(* chunks with successive numbers that lead the client to the server.      *)

\* What is under way: units of chunks, whose bodies carry pieces of the answer to the
\* request they name, or the text of an error or of a token.
Bits == [req : Nat, i : Nat, n : Nat] \cup {"error", "opn"}
ChunkSet ==
    [type : {"MSG", "OPN"}, seq : Nat, req : Nat, token : Nat, kind : {"C", "F", "A"}, body : Seq(Bits)]
OwnChunks ==
    {c \in ChunkSet : c.type = "MSG" /\ c.kind # "A" => \A i \in 1..Len(c.body) : c.body[i].req = c.req}
UnitSet == [chunk : OwnChunks, k : Nat]

\* Pieces collected under a request are pieces of its answer.
PartSet == UNION {[D -> Seq(Bits)] : D \in SUBSET Nat}
Owned(parts) == \A q \in DOMAIN parts : \A i \in 1..Len(parts[q]) : parts[q][i].req = q

Statuses ==
    {"none", "Good", "BadTcpMessageTypeInvalid", "BadInternalError", "BadDecodingError", "BadOutOfMemory",
     "GoodNonCriticalTimeout", "BadConnectionClosed"}

\* The client while it processes chunks.
Readers ==
    {r \in [req : Nat, processed : BOOLEAN, st : Statuses, from : Nat, token : Nat, seq : Nat, parts : PartSet,
            given : Seq(Seq(Bits)), refused : BOOLEAN] :
       Owned(r.parts) /\ (r.st = "Good" => r.from = r.req)}

ChannelTypes ==
    /\ requests \in Seq([req : Nat, opn : BOOLEAN, token : Nat])
    /\ pending \in SUBSET Nat
    /\ server \in [seq : Nat, token : Nat, next : Nat, last : Nat]
    /\ wire \in Seq(UnitSet) /\ buffered \in Seq(UnitSet)
    /\ caller \in [seq : Nat, token : Nat, parts : PartSet, requestId : Nat]
    /\ call \in [pc : {"idle", "waiting", "renewing"}, req : Nat, st : Statuses, from : Nat, waited : BOOLEAN]
    /\ sent \in Seq(Seq(Bits)) /\ given \in Seq(Seq(Bits))
    /\ refused \in BOOLEAN /\ open \in BOOLEAN
    /\ left \in [renewals : Nat, shortages : Nat, used : BOOLEAN, torn : BOOLEAN]

ChannelInv == ChannelTypes /\ Owned(caller.parts) /\ GoodIsOwnAnswer

\* A chunk with its pieces added to those of its request.
LEMMA Collecting ==
    ASSUME NEW r, r.parts \in PartSet, Owned(r.parts), NEW c \in OwnChunks, c.type = "MSG"
    PROVE  /\ Collected(r, c) \in Seq(Bits)
           /\ c.kind # "A" => \A i \in 1..Len(Collected(r, c)) : Collected(r, c)[i].req = c.req
<1> DEFINE old == IF c.req \in DOMAIN r.parts THEN r.parts[c.req] ELSE <<>>
<1>1. PICK D \in SUBSET Nat : r.parts \in [D -> Seq(Bits)]
  BY DEF PartSet
<1>2. old \in Seq(Bits) /\ \A i \in 1..Len(old) : old[i].req = c.req
  <2>1. CASE c.req \in DOMAIN r.parts
    <3>1. old = r.parts[c.req] /\ c.req \in D
      BY <1>1, <2>1
    <3> HIDE DEF old
    <3> QED
      BY <1>1, <2>1, <3>1 DEF Owned
  <2>2. CASE c.req \notin DOMAIN r.parts
    <3>1. old = <<>>
      BY <2>2
    <3> HIDE DEF old
    <3> QED
      BY <3>1
  <2> QED
    BY <2>1, <2>2
<1>3. c.body \in Seq(Bits) /\ (c.kind # "A" => \A i \in 1..Len(c.body) : c.body[i].req = c.req)
  BY DEF OwnChunks, ChunkSet
<1>4. Collected(r, c) = old \o c.body
  BY DEF Collected
<1> HIDE DEF old
<1>5. /\ old \o c.body \in Seq(Bits) /\ Len(old \o c.body) = Len(old) + Len(c.body) /\ Len(old) \in Nat /\ Len(c.body) \in Nat
      /\ \A i \in 1..Len(old \o c.body) :
           \/ i \in 1..Len(old) /\ (old \o c.body)[i] = old[i]
           \/ i - Len(old) \in 1..Len(c.body) /\ (old \o c.body)[i] = c.body[i - Len(old)]
  BY <1>2, <1>3
<1> QED
  BY <1>2, <1>3, <1>4, <1>5

\* Pieces are put aside, and forgotten.
LEMMA Putting ==
    ASSUME NEW parts \in PartSet, Owned(parts), NEW q \in Nat, NEW b \in Seq(Bits), \A i \in 1..Len(b) : b[i].req = q
    PROVE  LET more == [p \in DOMAIN parts \cup {q} |-> IF p = q THEN b ELSE parts[p]] IN more \in PartSet /\ Owned(more)
<1> DEFINE more == [p \in DOMAIN parts \cup {q} |-> IF p = q THEN b ELSE parts[p]]
<1>1. PICK D \in SUBSET Nat : parts \in [D -> Seq(Bits)]
  BY DEF PartSet
<1>2. DOMAIN parts = D /\ D \cup {q} \in SUBSET Nat /\ more \in [D \cup {q} -> Seq(Bits)]
  BY <1>1
<1>3. Owned(more)
  BY <1>2 DEF Owned
<1> QED
  BY <1>2, <1>3 DEF PartSet

LEMMA Forgetting ==
    ASSUME NEW parts \in PartSet, Owned(parts), NEW q
    PROVE  LET less == [p \in DOMAIN parts \ {q} |-> parts[p]] IN less \in PartSet /\ Owned(less)
<1> DEFINE less == [p \in DOMAIN parts \ {q} |-> parts[p]]
<1>1. PICK D \in SUBSET Nat : parts \in [D -> Seq(Bits)]
  BY DEF PartSet
<1>2. DOMAIN parts = D /\ D \ {q} \in SUBSET Nat /\ less \in [D \ {q} -> Seq(Bits)]
  BY <1>1
<1>3. Owned(less)
  BY <1>1, <1>2 DEF Owned
<1> QED
  BY <1>2, <1>3 DEF PartSet

Reader(req, processed, st, from, token, seq, parts, more, wrong) ==
    [req |-> req, processed |-> processed, st |-> st, from |-> from, token |-> token, seq |-> seq, parts |-> parts,
     given |-> more, refused |-> wrong]

Told(r, processed, st, from, more) == [r EXCEPT !.processed = processed, !.st = st, !.from = from, !.given = more]

\* The fields that ProcessResponse sets, one after the other.
LEMMA Ending ==
    ASSUME NEW r, r = Reader(r.req, r.processed, r.st, r.from, r.token, r.seq, r.parts, r.given, r.refused),
           NEW w, NEW x, NEW y, NEW z
    PROVE  Told(r, w, x, y, z)
             = Reader(r.req, w, x, y, r.token, r.seq, r.parts, z, r.refused)
<1> SUFFICES ASSUME NEW p1, NEW p2, NEW p3, NEW p4, NEW p5, NEW p6, NEW p7, NEW p8, NEW p9,
                    r = Reader(p1, p2, p3, p4, p5, p6, p7, p8, p9)
             PROVE  [r EXCEPT !.processed = w, !.st = x, !.from = y, !.given = z] = Reader(p1, w, x, y, p5, p6, p7, z, p9)
  BY DEF Told
<1> DEFINE r1 == [r EXCEPT !.processed = w]
           r2 == [r1 EXCEPT !.st = x]
           r3 == [r2 EXCEPT !.from = y]
<1>1. r1 = Reader(p1, w, p3, p4, p5, p6, p7, p8, p9)
  <2>1. r1 = [Reader(p1, p2, p3, p4, p5, p6, p7, p8, p9) EXCEPT !.processed = w]
    OBVIOUS
  <2>2. [Reader(p1, p2, p3, p4, p5, p6, p7, p8, p9) EXCEPT !.processed = w] = Reader(p1, w, p3, p4, p5, p6, p7, p8, p9)
    BY DEF Reader
  <2> QED
    BY <2>1, <2>2
<1> HIDE DEF r1
<1>2. r2 = Reader(p1, w, x, p4, p5, p6, p7, p8, p9)
  <2>1. r2 = [Reader(p1, w, p3, p4, p5, p6, p7, p8, p9) EXCEPT !.st = x]
    BY <1>1
  <2>2. [Reader(p1, w, p3, p4, p5, p6, p7, p8, p9) EXCEPT !.st = x] = Reader(p1, w, x, p4, p5, p6, p7, p8, p9)
    BY DEF Reader
  <2> QED
    BY <2>1, <2>2
<1> HIDE DEF r2
<1>3. r3 = Reader(p1, w, x, y, p5, p6, p7, p8, p9)
  <2>1. r3 = [Reader(p1, w, x, p4, p5, p6, p7, p8, p9) EXCEPT !.from = y]
    BY <1>2
  <2>2. [Reader(p1, w, x, p4, p5, p6, p7, p8, p9) EXCEPT !.from = y] = Reader(p1, w, x, y, p5, p6, p7, p8, p9)
    BY DEF Reader
  <2> QED
    BY <2>1, <2>2
<1> HIDE DEF r3
<1>4. [r3 EXCEPT !.given = z] = Reader(p1, w, x, y, p5, p6, p7, z, p9)
  <2>1. [r3 EXCEPT !.given = z] = [Reader(p1, w, x, y, p5, p6, p7, p8, p9) EXCEPT !.given = z]
    BY <1>3
  <2>2. [Reader(p1, w, x, y, p5, p6, p7, p8, p9) EXCEPT !.given = z] = Reader(p1, w, x, y, p5, p6, p7, z, p9)
    BY DEF Reader
  <2> QED
    BY <2>1, <2>2
<1> QED
  BY <1>4 DEF r1, r2, r3

\* An answer ends the call GOOD only if it is to its request.
LEMMA Answering ==
    ASSUME NEW r \in Readers, NEW type \in {"MSG", "OPN"}, NEW req \in Nat, NEW body \in Seq(Bits),
           type = "MSG" => \A i \in 1..Len(body) : body[i].req = req
    PROVE  /\ ProcessResponse(r, type, req, body) \in Readers
           /\ ProcessResponse(r, type, req, body).given = IF type = "MSG" THEN Append(r.given, body) ELSE r.given
           /\ \A f \in {"req", "token", "seq", "parts", "refused"} : ProcessResponse(r, type, req, body)[f] = r[f]
<1> DEFINE st == IF type # "MSG" THEN "BadTcpMessageTypeInvalid"
                 ELSE IF req # r.req THEN "BadInternalError"
                 ELSE IF ~IsWhole(body) THEN "BadDecodingError" ELSE "Good"
           from == IF st = "Good" THEN body[1].req ELSE r.from
           more == IF type = "MSG" THEN Append(r.given, body) ELSE r.given
           new == [req |-> r.req, processed |-> TRUE, st |-> st, from |-> from, token |-> r.token, seq |-> r.seq,
                   parts |-> r.parts, given |-> more, refused |-> r.refused]
<1>1. r \in [req : Nat, processed : BOOLEAN, st : Statuses, from : Nat, token : Nat, seq : Nat, parts : PartSet,
             given : Seq(Seq(Bits)), refused : BOOLEAN] /\ Owned(r.parts)
  BY DEF Readers
<1>2. ProcessResponse(r, type, req, body) = new
  <2>1. ProcessResponse(r, type, req, body) = Told(r, TRUE, st, from, more)
    BY DEF ProcessResponse, Told
  <2>2. r = Reader(r.req, r.processed, r.st, r.from, r.token, r.seq, r.parts, r.given, r.refused)
    BY <1>1 DEF Reader
  <2> HIDE DEF st, from, more, new
  <2>3. \A w : Told(r, w, st, from, more) = Reader(r.req, w, st, from, r.token, r.seq, r.parts, more, r.refused)
    BY <2>2, Ending
  <2>4. Told(r, TRUE, st, from, more) = Reader(r.req, TRUE, st, from, r.token, r.seq, r.parts, more, r.refused)
    BY <2>3, Zenon
  <2> QED
    BY <2>1, <2>4 DEF Reader, new
<1>3. st \in Statuses /\ (st = "Good" => type = "MSG" /\ req = r.req /\ IsWhole(body))
  BY DEF Statuses
<1> HIDE DEF st
<1>4. st = "Good" => body[1].req = r.req
  BY <1>3 DEF IsWhole
<1>5. from \in Nat /\ more \in Seq(Seq(Bits))
  BY <1>1, <1>3, <1>4
<1>6. new \in Readers
  BY <1>1, <1>3, <1>4, <1>5 DEF Readers
<1>7. new.given = more /\ \A f \in {"req", "token", "seq", "parts", "refused"} : new[f] = r[f]
  BY <1>1
<1> HIDE DEF new
<1> QED
  BY <1>2, <1>6, <1>7

\* What the chunk adds to what is collected and to what is given.
PartsAfter(r, c) ==
    IF c.kind = "C" THEN [q \in DOMAIN r.parts \cup {c.req} |-> IF q = c.req THEN Collected(r, c) ELSE r.parts[q]]
    ELSE [q \in DOMAIN r.parts \ {c.req} |-> r.parts[q]]
GivenAfter(r, c) == IF c.kind = "F" THEN Append(r.given, Collected(r, c)) ELSE r.given

\* A chunk of a message that is not refused.
LEMMA Accepting ==
    ASSUME NEW r \in Readers, NEW c \in OwnChunks, c.type = "MSG", NEW short
    PROVE  LET n == Accepted([r EXCEPT !.seq = c.seq], c, short) IN
           /\ n \in Readers /\ n.req = r.req /\ n.token = r.token /\ n.seq = c.seq /\ n.refused = r.refused
           /\ short = "none" => n.parts = PartsAfter(r, c) /\ n.given = GivenAfter(r, c)
<1> DEFINE s == [r EXCEPT !.seq = c.seq]
           n == Accepted(s, c, short)
           known == c.req \in DOMAIN s.parts
<1>1. /\ r \in [req : Nat, processed : BOOLEAN, st : Statuses, from : Nat, token : Nat, seq : Nat, parts : PartSet,
                given : Seq(Seq(Bits)), refused : BOOLEAN]
      /\ Owned(r.parts) /\ (r.st = "Good" => r.from = r.req)
  BY DEF Readers
<1>2. c.seq \in Nat /\ c.req \in Nat /\ c.kind \in {"C", "F", "A"}
  BY DEF OwnChunks, ChunkSet
<1>3. /\ s \in [req : Nat, processed : BOOLEAN, st : Statuses, from : Nat, token : Nat, seq : Nat, parts : PartSet,
                given : Seq(Seq(Bits)), refused : BOOLEAN]
      /\ s.seq = c.seq /\ s.req = r.req /\ s.token = r.token /\ s.parts = r.parts /\ s.given = r.given
      /\ s.st = r.st /\ s.from = r.from /\ s.refused = r.refused
  BY <1>1, <1>2
<1> HIDE DEF s
<1>4. s \in Readers
  BY <1>1, <1>3 DEF Readers
<1>5. /\ Collected(s, c) = Collected(r, c) /\ Collected(r, c) \in Seq(Bits)
      /\ c.kind # "A" => \A i \in 1..Len(Collected(r, c)) : Collected(r, c)[i].req = c.req
  <2>1. Collected(s, c) = Collected(r, c)
    BY <1>3 DEF Collected
  <2> QED
    BY <1>1, <2>1, Collecting
<1> DEFINE more == [q \in DOMAIN s.parts \cup {c.req} |-> IF q = c.req THEN Collected(s, c) ELSE s.parts[q]]
           less == [q \in DOMAIN s.parts \ {c.req} |-> s.parts[q]]
<1>6. \A v \in PartSet : LET t == [s EXCEPT !.parts = v] IN
        Owned(v) => /\ t \in Readers /\ t.parts = v /\ t.req = s.req /\ t.token = s.token /\ t.seq = s.seq
                    /\ t.refused = s.refused /\ t.given = s.given
  <2> SUFFICES ASSUME NEW v \in PartSet, Owned(v)
               PROVE  LET t == [s EXCEPT !.parts = v] IN
                      /\ t \in Readers /\ t.parts = v /\ t.req = s.req /\ t.token = s.token /\ t.seq = s.seq
                      /\ t.refused = s.refused /\ t.given = s.given
    OBVIOUS
  <2> DEFINE t == [s EXCEPT !.parts = v]
  <2>1. /\ t \in [req : Nat, processed : BOOLEAN, st : Statuses, from : Nat, token : Nat, seq : Nat, parts : PartSet,
                  given : Seq(Seq(Bits)), refused : BOOLEAN]
        /\ t.parts = v /\ t.req = s.req /\ t.token = s.token /\ t.seq = s.seq
        /\ t.refused = s.refused /\ t.given = s.given /\ t.st = s.st /\ t.from = s.from
    BY <1>3
  <2> HIDE DEF t
  <2>2. t \in Readers
    BY <1>4, <2>1 DEF Readers
  <2> QED
    BY <2>1, <2>2 DEF t
<1>7. less \in PartSet /\ Owned(less)
  BY <1>1, <1>3, Forgetting
<1>8. c.kind = "C" => more \in PartSet /\ Owned(more)
  BY <1>1, <1>2, <1>3, <1>5, Putting
<1> DEFINE dropped == [s EXCEPT !.parts = less]
<1>9. dropped \in Readers /\ dropped.parts = less /\ dropped.req = s.req /\ dropped.token = s.token /\ dropped.seq = s.seq
      /\ dropped.refused = s.refused /\ dropped.given = s.given
  <2> HIDE DEF less
  <2> QED
    BY <1>6, <1>7
<1>10. Dropped(s, c.req) = dropped
  BY DEF Dropped
<1>11. PartsAfter(r, c) = (IF c.kind = "C" THEN more ELSE less)
  BY <1>3, <1>5 DEF PartsAfter
<1>12. CASE c.kind = "C" /\ short # "bytes" /\ ~(short = "entry" /\ ~known)
  <2>1. n = [s EXCEPT !.parts = more]
    BY <1>12 DEF Accepted, PutAside
  <2> HIDE DEF n, more, less, dropped, known
  <2> QED
    BY <1>3, <1>6, <1>8, <1>11, <1>12, <2>1 DEF GivenAfter, n, s
<1>15. CASE c.kind = "C" /\ short = "entry" /\ ~known
  <2>1. n = s
    BY <1>15 DEF Accepted
  <2> HIDE DEF n
  <2> QED
    BY <1>3, <1>4, <1>15, <2>1 DEF n, s
<1>16. CASE c.kind = "C" /\ short = "bytes"
  <2> DEFINE b == <<>>
             none == [q \in DOMAIN s.parts \cup {c.req} |-> IF q = c.req THEN b ELSE s.parts[q]]
  <2>1. n = [s EXCEPT !.parts = none]
    BY <1>16 DEF Accepted, PutAside
  <2>2. b \in Seq(Bits) /\ \A i \in 1..Len(b) : b[i].req = c.req
    <3>1. b \in Seq(Bits) /\ Len(b) = 0
      OBVIOUS
    <3> HIDE DEF b
    <3> QED
      BY <3>1
  <2> HIDE DEF b
  <2>3. none \in PartSet /\ Owned(none)
    BY <1>1, <1>2, <1>3, <2>2, Putting
  <2> HIDE DEF n, none
  <2> QED
    BY <1>3, <1>6, <1>16, <2>1, <2>3 DEF n, s
<1>17. CASE c.kind = "F" /\ short = "bytes" /\ known
  <2>1. n = dropped
    BY <1>10, <1>17 DEF Accepted
  <2> HIDE DEF n, dropped
  <2> QED
    BY <1>3, <1>9, <1>17, <2>1 DEF n, s
<1>13. CASE c.kind = "F" /\ ~(short = "bytes" /\ known)
  <2>1. n = ProcessResponse(dropped, "MSG", c.req, Collected(s, c))
    BY <1>10, <1>13 DEF Accepted
  <2> DEFINE b == Collected(s, c)
  <2>2. b \in Seq(Bits) /\ \A i \in 1..Len(b) : b[i].req = c.req
    BY <1>5, <1>13
  <2> HIDE DEF dropped, b
  <2>3. /\ ProcessResponse(dropped, "MSG", c.req, b) \in Readers
        /\ ProcessResponse(dropped, "MSG", c.req, b).given = Append(dropped.given, b)
        /\ \A f \in {"req", "token", "seq", "parts", "refused"} : ProcessResponse(dropped, "MSG", c.req, b)[f] = dropped[f]
    BY <1>2, <1>9, <2>2, Answering
  <2>4. n = ProcessResponse(dropped, "MSG", c.req, b)
    BY <2>1 DEF b
  <2>5. n.req = s.req /\ n.token = s.token /\ n.seq = s.seq /\ n.parts = less /\ n.refused = s.refused
    BY <1>9, <2>3, <2>4
  <2>6. GivenAfter(r, c) = Append(r.given, b)
    BY <1>5, <1>13 DEF GivenAfter, b
  <2> HIDE DEF n, more, less
  <2> QED
    BY <1>3, <1>9, <1>11, <1>13, <2>3, <2>4, <2>5, <2>6 DEF n, s
<1>14. CASE c.kind = "A"
  <2>1. n = dropped
    BY <1>10, <1>14 DEF Accepted
  <2>2. GivenAfter(r, c) = r.given
    BY <1>14 DEF GivenAfter
  <2> HIDE DEF n, more, less, dropped
  <2> QED
    BY <1>3, <1>9, <1>11, <1>14, <2>1, <2>2 DEF n, s
<1> QED
  BY <1>2, <1>12, <1>13, <1>14, <1>15, <1>16, <1>17

\* Any chunk, refused ones too.
LEMMA Processing ==
    ASSUME NEW r \in Readers, NEW c \in OwnChunks, NEW short
    PROVE  /\ processChunk(r, c, short) \in Readers
           /\ processChunk(r, c, short).req = r.req /\ processChunk(r, c, short).token = r.token
           /\ c.type = "MSG" /\ ~r.refused /\ c.token = r.token /\ SequenceMatches(c.seq, r.seq) /\ short = "none" =>
                LET n == processChunk(r, c, short) IN
                ~n.refused /\ n.seq = c.seq /\ n.parts = PartsAfter(r, c) /\ n.given = GivenAfter(r, c)
<1>1. r \in [req : Nat, processed : BOOLEAN, st : Statuses, from : Nat, token : Nat, seq : Nat, parts : PartSet,
             given : Seq(Seq(Bits)), refused : BOOLEAN]
  BY DEF Readers
<1>2. c.type \in {"MSG", "OPN"} /\ c.body \in Seq(Bits)
  BY DEF OwnChunks, ChunkSet
<1>3. CASE r.refused
  BY <1>3 DEF processChunk
<1>4. CASE ~r.refused /\ c.type = "OPN"
  <2>1. processChunk(r, c, short) = ProcessResponse(r, "OPN", 0, c.body)
    BY <1>4 DEF processChunk
  <2>2. /\ ProcessResponse(r, "OPN", 0, c.body) \in Readers
        /\ \A f \in {"req", "token", "seq", "parts", "refused"} : ProcessResponse(r, "OPN", 0, c.body)[f] = r[f]
    BY <1>2, Answering
  <2> QED
    BY <1>4, <2>1, <2>2
<1>5. CASE ~r.refused /\ c.type = "MSG" /\ (c.token # r.token \/ ~SequenceMatches(c.seq, r.seq))
  <2> DEFINE s == [r EXCEPT !.refused = TRUE]
  <2>1. processChunk(r, c, short) = s
    BY <1>5 DEF processChunk
  <2>2. /\ s \in [req : Nat, processed : BOOLEAN, st : Statuses, from : Nat, token : Nat, seq : Nat, parts : PartSet,
                  given : Seq(Seq(Bits)), refused : BOOLEAN]
        /\ s.parts = r.parts /\ s.req = r.req /\ s.token = r.token /\ s.st = r.st /\ s.from = r.from
    BY <1>1
  <2> HIDE DEF s
  <2>3. s \in Readers
    BY <2>2 DEF Readers
  <2> QED
    BY <1>5, <2>1, <2>2, <2>3
<1>6. CASE ~r.refused /\ c.type = "MSG" /\ c.token = r.token /\ SequenceMatches(c.seq, r.seq)
  <2> DEFINE n == Accepted([r EXCEPT !.seq = c.seq], c, short)
  <2>1. processChunk(r, c, short) = n
    BY <1>6 DEF processChunk
  <2>2. /\ n \in Readers /\ n.req = r.req /\ n.token = r.token /\ n.seq = c.seq /\ n.refused = r.refused
        /\ short = "none" => n.parts = PartsAfter(r, c) /\ n.given = GivenAfter(r, c)
    BY <1>6, Accepting
  <2> HIDE DEF n
  <2> QED
    BY <1>6, <2>1, <2>2
<1> QED
  BY <1>2, <1>3, <1>4, <1>5, <1>6

\* The client before it processes chunks.
Start ==
    [req |-> call.req, processed |-> FALSE, st |-> call.st, from |-> call.from, token |-> caller.token,
     seq |-> caller.seq, parts |-> caller.parts, given |-> given, refused |-> FALSE]

\* It is one of those the loop over the chunks goes through.
LEMMA Starting == ASSUME ChannelInv PROVE Start \in Readers
<1>1. /\ call.req \in Nat /\ call.st \in Statuses /\ call.from \in Nat /\ caller.token \in Nat /\ caller.seq \in Nat
      /\ caller.parts \in PartSet /\ given \in Seq(Seq(Bits)) /\ Owned(caller.parts)
      /\ call.st = "Good" => call.from = call.req
  BY DEF ChannelInv, ChannelTypes, GoodIsOwnAnswer
<1> QED
  BY <1>1 DEF Start, Readers

\* The loop over the chunks, chunk by chunk.
LEMMA ProcessRuns ==
    ASSUME ChannelInv, NEW chunks \in Seq(OwnChunks), NEW short
    PROVE  \E g \in [0..Len(chunks) -> Readers] :
             /\ g[0] = Start /\ \A k \in 1..Len(chunks) : g[k] = processChunk(g[k-1], chunks[k], FailsAt(short, k))
             /\ processChunks(chunks, short) = g[Len(chunks)]
<1> DEFINE n == Len(chunks)
           body(k, r) == processChunk(r, chunks[k], FailsAt(short, k))
           Runs(g) == g = [k \in 0..n |-> IF k = 0 THEN Start ELSE body(k, g[k-1])]
           after == CHOOSE g : Runs(g)
           F == [k \in 1..n |-> [r \in Readers |-> body(k, r)]]
<1>1. n \in Nat /\ \A k \in 1..n : chunks[k] \in OwnChunks
  OBVIOUS
<1>2. processChunks(chunks, short) = after[n]
  BY DEF processChunks, Start
<1>3. \A k \in 1..n : \A r \in Readers : body(k, r) \in Readers
  BY <1>1, Processing
<1>4. Start \in Readers
  BY Starting
<1> HIDE DEF n, body
<1>5. \E g : Computes(g, n, Readers, Start, F)
  <2>1. F \in Bodies(n, Readers)
    BY <1>3 DEF Bodies
  <2> HIDE DEF F
  <2> QED
    BY <1>1, <1>4, <2>1, Looped
<1>6. \E g \in [0..n -> Readers] : Runs(g)
  <2>1. PICK g : Computes(g, n, Readers, Start, F)
    BY <1>5
  <2>2. g \in [0..n -> Readers] /\ g[0] = Start
    BY <2>1 DEF Computes
  <2>3. ASSUME NEW k \in 1..n PROVE g[k] = body(k, g[k-1])
    <3>1. k - 1 \in 0..n
      BY <1>1
    <3>2. g[k-1] \in Readers
      BY <2>2, <3>1
    <3>3. g[k] = F[k][g[k-1]]
      BY <2>1 DEF Computes
    <3> QED
      BY <3>2, <3>3
  <2>4. \A k \in 0..n : k = 0 \/ k \in 1..n
    BY <1>1
  <2> QED
    BY <2>2, <2>3, <2>4
<1>7. Runs(after)
  BY <1>6
<1> HIDE DEF after
<1>8. after[0] = Start /\ \A k \in 1..n : after[k] = body(k, after[k-1])
  <2>1. 0 \in 0..n /\ \A k \in 1..n : k \in 0..n /\ k # 0
    BY <1>1
  <2> QED
    BY <1>7, <2>1
<1>9. after \in [0..n -> Readers]
  <2> DEFINE P == {k \in 0..n : after[k] \in Readers}
  <2>1. P \in SUBSET (0..n) /\ 0 \in P /\ \A k \in 1..n : k - 1 \in P => k \in P
    BY <1>1, <1>3, <1>4, <1>8
  <2>2. P = 0..n
    <3> HIDE DEF P
    <3> QED
      BY <1>1, <2>1, UpTo
  <2>3. after = [k \in 0..n |-> after[k]] /\ \A k \in 0..n : after[k] \in Readers
    BY <1>7, <2>2
  <2> QED
    BY <2>3
<1> QED
  BY <1>2, <1>8, <1>9 DEF n, body

\* completeChunksUntil before its first round, and at any time.
NoChunk == [until |-> 0, garbage |-> FALSE, chunks |-> <<>>]
Cuts == [until : Nat, garbage : BOOLEAN, chunks : Seq(OwnChunks)]

\* Each round leaves it so.
LEMMA Cutting ==
    ASSUME NEW msg \in Seq(UnitSet), NEW c \in Cuts, c.until <= Len(msg)
    PROVE  NextChunk(msg, c) \in Cuts /\ NextChunk(msg, c).until <= Len(msg)
<1> DEFINE first == msg[c.until + 1]
           until == c.until + 1 + Len(first.chunk.body)
<1>1. c.until \in Nat /\ Len(msg) \in Nat /\ c.chunks \in Seq(OwnChunks)
  BY DEF Cuts
<1>2. CASE c.garbage \/ c.until = Len(msg)
  BY <1>2 DEF NextChunk
<1>3. CASE ~c.garbage /\ c.until # Len(msg)
  <2>1. c.until + 1 \in 1..Len(msg)
    BY <1>1, <1>3
  <2>2. first \in UnitSet
    BY <2>1
  <2>3. first.chunk \in OwnChunks /\ first.chunk.body \in Seq(Bits)
    BY <2>2 DEF UnitSet, OwnChunks, ChunkSet
  <2>4. until \in Nat /\ Append(c.chunks, first.chunk) \in Seq(OwnChunks)
    <3>1. Len(first.chunk.body) \in Nat
      BY <2>3
    <3> HIDE DEF first
    <3> QED
      BY <1>1, <2>3, <3>1
  <2>5. /\ [c EXCEPT !.garbage = TRUE] \in Cuts /\ [c EXCEPT !.garbage = TRUE].until = c.until
    BY DEF Cuts
  <2> HIDE DEF first, until
  <2>6. LET d == [c EXCEPT !.until = until, !.chunks = Append(@, first.chunk)] IN d \in Cuts /\ d.until = until
    BY <2>4 DEF Cuts
  <2>7. \/ NextChunk(msg, c) = [c EXCEPT !.garbage = TRUE]
        \/ NextChunk(msg, c) = c
        \/ until <= Len(msg) /\ NextChunk(msg, c) = [c EXCEPT !.until = until, !.chunks = Append(@, first.chunk)]
    BY <1>1, <1>3, <2>4 DEF NextChunk, first, until
  <2> QED
    BY <2>5, <2>6, <2>7
<1> QED
  BY <1>2, <1>3

\* Its loop, round by round.
LEMMA CutRuns ==
    ASSUME NEW msg \in Seq(UnitSet)
    PROVE  \E g \in [0..Len(msg) -> {c \in Cuts : c.until <= Len(msg)}] :
             /\ g[0] = NoChunk /\ \A k \in 1..Len(msg) : g[k] = NextChunk(msg, g[k-1])
             /\ completeChunksUntil(msg) = g[Len(msg)]
<1> DEFINE n == Len(msg)
           S == {c \in Cuts : c.until <= Len(msg)}
           body(k, c) == NextChunk(msg, c)
           Runs(g) == g = [k \in 0..n |-> IF k = 0 THEN NoChunk ELSE body(k, g[k-1])]
           after == CHOOSE g : Runs(g)
           F == [k \in 1..n |-> [c \in S |-> body(k, c)]]
<1>1. n \in Nat
  OBVIOUS
<1>2. completeChunksUntil(msg) = after[n]
  BY DEF completeChunksUntil, NoChunk
<1>3. \A k \in 1..n : \A c \in S : body(k, c) \in S
  BY Cutting
<1>4. NoChunk \in S
  BY DEF NoChunk, Cuts
<1> HIDE DEF S
<1> HIDE DEF n, body
<1>5. \E g : Computes(g, n, S, NoChunk, F)
  <2>1. F \in Bodies(n, S)
    BY <1>3 DEF Bodies
  <2> HIDE DEF F
  <2> QED
    BY <1>1, <1>4, <2>1, Looped
<1>6. \E g \in [0..n -> S] : Runs(g)
  <2>1. PICK g : Computes(g, n, S, NoChunk, F)
    BY <1>5
  <2>2. g \in [0..n -> S] /\ g[0] = NoChunk
    BY <2>1 DEF Computes
  <2>3. ASSUME NEW k \in 1..n PROVE g[k] = body(k, g[k-1])
    <3>1. k - 1 \in 0..n
      BY <1>1
    <3>2. g[k-1] \in S
      BY <2>2, <3>1
    <3>3. g[k] = F[k][g[k-1]]
      BY <2>1 DEF Computes
    <3> QED
      BY <3>2, <3>3
  <2>4. \A k \in 0..n : k = 0 \/ k \in 1..n
    BY <1>1
  <2> QED
    BY <2>2, <2>3, <2>4
<1>7. Runs(after)
  BY <1>6
<1> HIDE DEF after
<1>8. after[0] = NoChunk /\ \A k \in 1..n : after[k] = body(k, after[k-1])
  <2>1. 0 \in 0..n /\ \A k \in 1..n : k \in 0..n /\ k # 0
    BY <1>1
  <2> QED
    BY <1>7, <2>1
<1>9. after \in [0..n -> S]
  <2> DEFINE P == {k \in 0..n : after[k] \in S}
  <2>1. P \in SUBSET (0..n) /\ 0 \in P /\ \A k \in 1..n : k - 1 \in P => k \in P
    BY <1>1, <1>3, <1>4, <1>8
  <2>2. P = 0..n
    <3> HIDE DEF P
    <3> QED
      BY <1>1, <2>1, UpTo
  <2>3. after = [k \in 0..n |-> after[k]] /\ \A k \in 0..n : after[k] \in S
    BY <1>7, <2>2
  <2> QED
    BY <2>3
<1> QED
  BY <1>2, <1>8, <1>9 DEF n, body, S

\* The units of a chunk, and of chunks one after the other.
LEMMA UnitsOf ==
    ASSUME NEW c \in OwnChunks
    PROVE  /\ Units(c) \in Seq(UnitSet) /\ Len(Units(c)) = 1 + Len(c.body) /\ Len(c.body) \in Nat
           /\ \A j \in 1..(1 + Len(c.body)) : Units(c)[j] = [chunk |-> c, k |-> j]
<1>1. c.body \in Seq(Bits)
  BY DEF OwnChunks, ChunkSet
<1> DEFINE n == 1 + Len(c.body)
<1>2. n \in Nat /\ Units(c) = [k \in 1..n |-> [chunk |-> c, k |-> k]]
  BY <1>1 DEF Units
<1>3. \A k \in 1..n : [chunk |-> c, k |-> k] \in UnitSet
  BY <1>2 DEF UnitSet
<1> HIDE DEF n
<1>4. Units(c) \in Seq(UnitSet) /\ Len(Units(c)) = n
  BY <1>2, <1>3
<1> QED
  BY <1>1, <1>2, <1>4 DEF n

\* The loop that puts the units of chunks one after the other.
LEMMA WireRuns ==
    ASSUME NEW chunks \in Seq(OwnChunks)
    PROVE  \E g \in [0..Len(chunks) -> Seq(UnitSet)] :
             /\ g[0] = <<>> /\ \A k \in 1..Len(chunks) : g[k] = g[k-1] \o Units(chunks[k])
             /\ OnWire(chunks) = g[Len(chunks)]
<1> DEFINE n == Len(chunks)
           S == Seq(UnitSet)
           body(k, t) == t \o Units(chunks[k])
           Runs(g) == g = [k \in 0..n |-> IF k = 0 THEN <<>> ELSE body(k, g[k-1])]
           after == CHOOSE g : Runs(g)
           F == [k \in 1..n |-> [t \in S |-> body(k, t)]]
<1>1. n \in Nat /\ \A k \in 1..n : chunks[k] \in OwnChunks
  OBVIOUS
<1>2. OnWire(chunks) = after[n]
  BY DEF OnWire
<1>3. \A k \in 1..n : \A t \in S : body(k, t) \in S
  <2>1. \A k \in 1..n : Units(chunks[k]) \in Seq(UnitSet)
    BY <1>1, UnitsOf
  <2> QED
    BY <2>1
<1>4. <<>> \in S
  OBVIOUS
<1> HIDE DEF S
<1> HIDE DEF n, body
<1>5. \E g : Computes(g, n, S, <<>>, F)
  <2>1. F \in Bodies(n, S)
    BY <1>3 DEF Bodies
  <2> HIDE DEF F
  <2> QED
    BY <1>1, <1>4, <2>1, Looped
<1>6. \E g \in [0..n -> S] : Runs(g)
  <2>1. PICK g : Computes(g, n, S, <<>>, F)
    BY <1>5
  <2>2. g \in [0..n -> S] /\ g[0] = <<>>
    BY <2>1 DEF Computes
  <2>3. ASSUME NEW k \in 1..n PROVE g[k] = body(k, g[k-1])
    <3>1. k - 1 \in 0..n
      BY <1>1
    <3>2. g[k-1] \in S
      BY <2>2, <3>1
    <3>3. g[k] = F[k][g[k-1]]
      BY <2>1 DEF Computes
    <3> QED
      BY <3>2, <3>3
  <2>4. \A k \in 0..n : k = 0 \/ k \in 1..n
    BY <1>1
  <2> QED
    BY <2>2, <2>3, <2>4
<1>7. Runs(after)
  BY <1>6
<1> HIDE DEF after
<1>8. after[0] = <<>> /\ \A k \in 1..n : after[k] = body(k, after[k-1])
  <2>1. 0 \in 0..n /\ \A k \in 1..n : k \in 0..n /\ k # 0
    BY <1>1
  <2> QED
    BY <1>7, <2>1
<1>9. after \in [0..n -> S]
  <2> DEFINE P == {k \in 0..n : after[k] \in S}
  <2>1. P \in SUBSET (0..n) /\ 0 \in P /\ \A k \in 1..n : k - 1 \in P => k \in P
    BY <1>1, <1>3, <1>4, <1>8
  <2>2. P = 0..n
    <3> HIDE DEF P
    <3> QED
      BY <1>1, <2>1, UpTo
  <2>3. after = [k \in 0..n |-> after[k]] /\ \A k \in 0..n : after[k] \in S
    BY <1>7, <2>2
  <2> QED
    BY <2>3
<1> QED
  BY <1>2, <1>8, <1>9 DEF n, body, S

CallSet == [pc : {"idle", "waiting", "renewing"}, req : Nat, st : Statuses, from : Nat, waited : BOOLEAN]

\* The call ends.
LEMMA Returning ==
    ASSUME call \in CallSet, NEW st \in Statuses, NEW from \in Nat
    PROVE  /\ LET c == [call EXCEPT !.pc = "idle", !.st = st, !.waited = FALSE] IN
              c \in CallSet /\ c.st = st /\ c.from = call.from /\ c.req = call.req /\ c.pc = "idle"
           /\ LET c == [call EXCEPT !.pc = "idle", !.st = st, !.from = from, !.waited = FALSE] IN
              c \in CallSet /\ c.st = st /\ c.from = from /\ c.req = call.req /\ c.pc = "idle"
           /\ LET c == [call EXCEPT !.waited = TRUE] IN
              c \in CallSet /\ c.st = call.st /\ c.from = call.from /\ c.req = call.req /\ c.pc = call.pc
<1> DEFINE c1 == [call EXCEPT !.pc = "idle"]
           c2 == [c1 EXCEPT !.st = st]
           c3 == [c2 EXCEPT !.from = from]
<1>1. c1 \in CallSet /\ c1.st = call.st /\ c1.from = call.from /\ c1.req = call.req /\ c1.pc = "idle"
  BY DEF CallSet
<1> HIDE DEF c1
<1>2. c2 \in CallSet /\ c2.st = st /\ c2.from = call.from /\ c2.req = call.req /\ c2.pc = "idle"
  BY <1>1 DEF CallSet
<1> HIDE DEF c2
<1>3. c3 \in CallSet /\ c3.st = st /\ c3.from = from /\ c3.req = call.req /\ c3.pc = "idle"
  BY <1>2 DEF CallSet
<1> HIDE DEF c3
<1>4. ASSUME NEW c \in CallSet, NEW w \in BOOLEAN
      PROVE  LET d == [c EXCEPT !.waited = w] IN
             d \in CallSet /\ d.st = c.st /\ d.from = c.from /\ d.req = c.req /\ d.pc = c.pc
  BY DEF CallSet
<1>5. \A c \in CallSet : \A w \in BOOLEAN : LET d == [c EXCEPT !.waited = w] IN
             d \in CallSet /\ d.st = c.st /\ d.from = c.from /\ d.req = c.req /\ d.pc = c.pc
  BY <1>4
<1>6. /\ LET d == [c2 EXCEPT !.waited = FALSE] IN
         d \in CallSet /\ d.st = c2.st /\ d.from = c2.from /\ d.req = c2.req /\ d.pc = c2.pc
      /\ LET d == [c3 EXCEPT !.waited = FALSE] IN
         d \in CallSet /\ d.st = c3.st /\ d.from = c3.from /\ d.req = c3.req /\ d.pc = c3.pc
      /\ LET d == [call EXCEPT !.waited = TRUE] IN
         d \in CallSet /\ d.st = call.st /\ d.from = call.from /\ d.req = call.req /\ d.pc = call.pc
  <2>1. TRUE \in BOOLEAN /\ FALSE \in BOOLEAN
    OBVIOUS
  <2> QED
    BY <1>2, <1>3, <1>5, <2>1, Zenon
<1>7. LET c == [c2 EXCEPT !.waited = FALSE] IN
      c \in CallSet /\ c.st = st /\ c.from = call.from /\ c.req = call.req /\ c.pc = "idle"
  BY <1>2, <1>6, Zenon
<1>8. LET c == [c3 EXCEPT !.waited = FALSE] IN
      c \in CallSet /\ c.st = st /\ c.from = from /\ c.req = call.req /\ c.pc = "idle"
  BY <1>3, <1>6, Zenon
<1> QED
  BY <1>6, <1>7, <1>8, Zenon DEF c1, c2, c3

\* The request of a call.
LEMMA Requesting ==
    ASSUME ChannelTypes, NEW pc \in {"waiting", "renewing"}, NEW opn \in BOOLEAN, NEW token \in Nat,
           SendRequest(pc, opn, token)
    PROVE  /\ caller' \in [seq : Nat, token : Nat, parts : PartSet, requestId : Nat]
           /\ caller'.seq = caller.seq /\ caller'.token = caller.token /\ caller'.parts = caller.parts
           /\ requests' \in Seq([req : Nat, opn : BOOLEAN, token : Nat])
           /\ requests' = Append(requests, [req |-> caller.requestId + 1, opn |-> opn, token |-> token])
           /\ call' \in CallSet /\ call'.st = "none" /\ call'.pc = pc
<1>1. caller \in [seq : Nat, token : Nat, parts : PartSet, requestId : Nat] /\ requests \in Seq([req : Nat, opn : BOOLEAN, token : Nat])
  BY DEF ChannelTypes
<1>2. /\ caller' = [caller EXCEPT !.requestId = @ + 1]
      /\ requests' = Append(requests, [req |-> caller.requestId + 1, opn |-> opn, token |-> token])
      /\ call' = [pc |-> pc, req |-> caller.requestId + 1, st |-> "none", from |-> 0, waited |-> FALSE]
  BY DEF SendRequest
<1>3. caller.requestId + 1 \in Nat
  BY <1>1
<1>4. [req |-> caller.requestId + 1, opn |-> opn, token |-> token] \in [req : Nat, opn : BOOLEAN, token : Nat]
  BY <1>3
<1>5. requests' \in Seq([req : Nat, opn : BOOLEAN, token : Nat])
  BY <1>1, <1>2, <1>4
<1>6. call' \in CallSet /\ call'.st = "none" /\ call'.pc = pc
  BY <1>2, <1>3 DEF CallSet, Statuses
<1>7. /\ caller' \in [seq : Nat, token : Nat, parts : PartSet, requestId : Nat]
      /\ caller'.seq = caller.seq /\ caller'.token = caller.token /\ caller'.parts = caller.parts
  <2>1. caller' = [caller EXCEPT !.requestId = caller.requestId + 1]
    BY <1>2
  <2> QED
    BY <1>1, <1>3, <2>1
<1> QED
  BY <1>2, <1>5, <1>6, <1>7

\* Where a message ends.
LEMMA Ends ==
    ASSUME ChannelConstants, NEW body \in Seq(Bits), Len(body) >= 1
    PROVE  /\ LastChunk(body) \in 1..Len(body)
           /\ TooLarge(body, LastChunk(body)) \/ LastChunk(body) * SendBuffer >= Len(body)
           /\ \A j \in 1..(LastChunk(body) - 1) : ~TooLarge(body, j) /\ j * SendBuffer < Len(body)
<1> DEFINE n == Len(body)
           ends == {i \in 1..n : TooLarge(body, i) \/ i * SendBuffer >= n}
           Least(i) == \A j \in ends : i <= j
           least == CHOOSE i \in ends : Least(i)
<1>1. n \in Nat /\ n >= 1 /\ SendBuffer \in Nat /\ SendBuffer > 0
  BY DEF ChannelConstants
<1>2. LastChunk(body) = least
  BY DEF LastChunk
<1> HIDE DEF n
<1>3. n * SendBuffer >= n
  BY <1>1
<1>4. n \in ends /\ ends \in SUBSET (0..n)
  BY <1>1, <1>3
<1>5. \E i \in ends : Least(i)
  <2> HIDE DEF ends
  <2> QED
    BY <1>1, <1>4, LeastNumber
<1>6. least \in ends /\ Least(least)
  <2> HIDE DEF ends, Least
  <2> QED
    BY <1>5
<1> HIDE DEF least
<1>7. least \in 1..n /\ (TooLarge(body, least) \/ least * SendBuffer >= n)
  BY <1>6
<1>8. ASSUME NEW j \in 1..(least - 1) PROVE ~TooLarge(body, j) /\ j * SendBuffer < n
  <2>1. j \in 1..n /\ ~(least <= j)
    BY <1>1, <1>7
  <2>2. j \notin ends
    <3> HIDE DEF ends
    <3> QED
      BY <1>6, <2>1
  <2>3. ~TooLarge(body, j) /\ ~(j * SendBuffer >= n)
    BY <2>1, <2>2
  <2>4. j * SendBuffer \in Nat
    BY <1>1, <2>1
  <2> QED
    BY <1>1, <2>3, <2>4
<1> QED
  BY <1>2, <1>7, <1>8 DEF n

\* A chunk's piece of a body.
LEMMA Slicing ==
    ASSUME ChannelConstants, NEW body \in Seq(Bits), NEW i \in Nat \ {0}
    PROVE  LET a == (i - 1) * SendBuffer
               b == IF a + SendBuffer < Len(body) THEN a + SendBuffer ELSE Len(body)
           IN /\ a \in Nat /\ b \in 0..Len(body)
              /\ Slice(body, i) = SubSeq(body, a + 1, b) /\ Slice(body, i) \in Seq(Bits)
              /\ \A j \in 1..Len(Slice(body, i)) : a + j \in 1..Len(body) /\ Slice(body, i)[j] = body[a + j]
<1> DEFINE a == (i - 1) * SendBuffer
           b == IF a + SendBuffer < Len(body) THEN a + SendBuffer ELSE Len(body)
<1>1. SendBuffer \in Nat /\ SendBuffer > 0 /\ Len(body) \in Nat
  BY DEF ChannelConstants
<1>2. a \in Nat /\ i * SendBuffer = a + SendBuffer
  <2>1. i - 1 \in Nat
    OBVIOUS
  <2>2. \A x, y \in Nat : x * y \in Nat /\ (x + 1) * y = x * y + y
    OBVIOUS
  <2>3. i = (i - 1) + 1
    OBVIOUS
  <2> QED
    BY <1>1, <2>1, <2>2, <2>3
<1>3. Slice(body, i) = SubSeq(body, a + 1, b)
  BY <1>2 DEF Slice
<1> HIDE DEF a
<1>4. b \in 0..Len(body)
  BY <1>1, <1>2
<1> HIDE DEF b
<1>5. /\ SubSeq(body, a + 1, b) \in Seq(Bits)
      /\ \A j \in 1..Len(SubSeq(body, a + 1, b)) : a + j \in 1..Len(body) /\ SubSeq(body, a + 1, b)[j] = body[a + j]
  BY <1>1, <1>2, <1>4
<1> QED
  BY <1>2, <1>3, <1>4, <1>5 DEF a, b

\* The body of an answer.
Answer(req, n) == [i \in 1..n |-> [req |-> req, i |-> i, n |-> n]]

\* Its units are pieces of the answer to the request.
LEMMA Answers ==
    ASSUME NEW req \in Nat, NEW n \in Nat \ {0}
    PROVE  /\ Answer(req, n) \in Seq(Bits) /\ Len(Answer(req, n)) = n
           /\ \A i \in 1..n : Answer(req, n)[i].req = req
<1>1. \A i \in 1..n : [req |-> req, i |-> i, n |-> n] \in Bits
  BY DEF Bits
<1>2. Answer(req, n) \in Seq(Bits) /\ Len(Answer(req, n)) = n
  BY <1>1 DEF Answer
<1>3. \A i \in 1..n : Answer(req, n)[i].req = req
  BY DEF Answer
<1> QED
  BY <1>2, <1>3

ChunkOf(s, req, body, i) ==
    LET n == LastChunk(body)
        aborted == TooLarge(body, n)
    IN [type |-> "MSG", seq |-> Plus(s.seq, i), req |-> req, token |-> s.token,
        kind |-> IF i < n THEN "C" ELSE IF aborted THEN "A" ELSE "F",
        body |-> IF i = n /\ aborted THEN <<"error">> ELSE Slice(body, i)]

\* The chunks of an answer.
LEMMA Chunking ==
    ASSUME ChannelConstants, server \in [seq : Nat, token : Nat, next : Nat, last : Nat], NEW req \in Nat, NEW body \in Seq(Bits), Len(body) >= 1,
           \A i \in 1..Len(body) : body[i].req = req
    PROVE  /\ sendBinaryMessage(server, req, body) \in Seq(OwnChunks)
           /\ Len(sendBinaryMessage(server, req, body)) = LastChunk(body)
           /\ \A i \in 1..LastChunk(body) : sendBinaryMessage(server, req, body)[i] = ChunkOf(server, req, body, i)
<1> DEFINE n == LastChunk(body)
           chunks == [i \in 1..n |-> ChunkOf(server, req, body, i)]
<1>1. n \in Nat /\ n >= 1
  BY Ends
<1>2. sendBinaryMessage(server, req, body) = chunks
  BY DEF sendBinaryMessage, ChunkOf
<1>3. ASSUME NEW i \in 1..n PROVE ChunkOf(server, req, body, i) \in OwnChunks
  <2> DEFINE c == ChunkOf(server, req, body, i)
  <2>1. Plus(server.seq, i) \in Nat
    <3>1. SeqRange \in Nat \ {0} /\ server.seq + i \in Nat
      BY <1>1 DEF ChannelConstants
    <3> QED
      BY <3>1 DEF Plus
  <2>2. /\ c.type = "MSG" /\ c.seq = Plus(server.seq, i) /\ c.req = req /\ c.token = server.token
        /\ c.kind = (IF i < n THEN "C" ELSE IF TooLarge(body, n) THEN "A" ELSE "F")
        /\ c.body = (IF i = n /\ TooLarge(body, n) THEN <<"error">> ELSE Slice(body, i))
        /\ c = [type |-> c.type, seq |-> c.seq, req |-> c.req, token |-> c.token, kind |-> c.kind, body |-> c.body]
    BY DEF ChunkOf
  <2>3. Slice(body, i) \in Seq(Bits) /\ \A j \in 1..Len(Slice(body, i)) : Slice(body, i)[j].req = req
    <3>1. i \in Nat \ {0}
      BY <1>1
    <3>2. PICK a \in Nat : Slice(body, i) \in Seq(Bits)
                           /\ \A j \in 1..Len(Slice(body, i)) : a + j \in 1..Len(body) /\ Slice(body, i)[j] = body[a + j]
      BY <3>1, Slicing
    <3> QED
      BY <3>2
  <2>4. <<"error">> \in Seq(Bits)
    BY DEF Bits
  <2> HIDE DEF c, n
  <2>5. c.body \in Seq(Bits) /\ c.kind \in {"C", "A", "F"} /\ server.token \in Nat
    BY <2>2, <2>3, <2>4
  <2>6. c.kind # "A" => c.body = Slice(body, i)
    BY <1>1, <2>2
  <2>7. c \in ChunkSet
    <3>1. c.seq \in Nat /\ c.type \in {"MSG", "OPN"} /\ c.req \in Nat /\ c.token \in Nat
      BY <2>1, <2>2, <2>5
    <3>2. [type |-> c.type, seq |-> c.seq, req |-> c.req, token |-> c.token, kind |-> c.kind, body |-> c.body] \in ChunkSet
      BY <2>5, <3>1 DEF ChunkSet
    <3> QED
      BY <2>2, <3>2
  <2> QED
    BY <2>2, <2>3, <2>6, <2>7 DEF OwnChunks, c
<1> HIDE DEF n
<1>4. chunks \in Seq(OwnChunks) /\ Len(chunks) = n /\ \A i \in 1..n : chunks[i] = ChunkOf(server, req, body, i)
  <2> DEFINE C(i) == ChunkOf(server, req, body, i)
  <2>1. \A i \in 1..n : C(i) \in OwnChunks
    BY <1>3
  <2> HIDE DEF C
  <2>2. [i \in 1..n |-> C(i)] \in [1..n -> OwnChunks]
    BY <2>1
  <2>3. [i \in 1..n |-> C(i)] \in Seq(OwnChunks) /\ Len([i \in 1..n |-> C(i)]) = n
    BY <1>1, <2>1
  <2>4. \A i \in 1..n : [k \in 1..n |-> C(k)][i] = C(i)
    OBVIOUS
  <2> QED
    BY <2>3, <2>4 DEF C
<1> QED
  BY <1>2, <1>4 DEF n

\* A receive separates whole chunks from what stays buffered.
LEMMA Completing ==
    ASSUME NEW old \in Seq(UnitSet), NEW new \in Seq(UnitSet), NEW short \in BOOLEAN
    PROVE  LET in == completeMessages(old, new, short) IN
           in.st \in Statuses /\ in.chunks \in Seq(OwnChunks) /\ in.keep \in Seq(UnitSet)
<1> DEFINE msg == old \o new
           c == completeChunksUntil(msg)
           in == completeMessages(old, new, short)
<1>1. msg \in Seq(UnitSet)
  OBVIOUS
<1> HIDE DEF msg
<1>2. c \in Cuts /\ c.until <= Len(msg)
  <2>1. PICK g \in [0..Len(msg) -> {d \in Cuts : d.until <= Len(msg)}] : c = g[Len(msg)]
    BY <1>1, CutRuns
  <2>2. Len(msg) \in 0..Len(msg)
    BY <1>1
  <2> HIDE DEF c
  <2> QED
    BY <2>1, <2>2
<1> HIDE DEF c
<1>3. c.chunks \in Seq(OwnChunks) /\ c.until \in Nat /\ Len(msg) \in Nat
  BY <1>1, <1>2 DEF Cuts
<1>4. SubSeq(msg, c.until + 1, Len(msg)) \in Seq(UnitSet)
  BY <1>1, <1>3
<1>5. in = (IF short /\ old # <<>> THEN [st |-> "BadOutOfMemory", chunks |-> <<>>, keep |-> <<>>] ELSE Separated(msg, c, short))
  BY DEF completeMessages, c, msg
<1>6. <<>> \in Seq(OwnChunks) /\ <<>> \in Seq(UnitSet)
  OBVIOUS
<1>7. \/ in = [st |-> "BadOutOfMemory", chunks |-> <<>>, keep |-> <<>>]
      \/ in = [st |-> "BadDecodingError", chunks |-> <<>>, keep |-> <<>>]
      \/ in = [st |-> "Good", chunks |-> c.chunks, keep |-> <<>>]
      \/ in = [st |-> "Good", chunks |-> c.chunks, keep |-> SubSeq(msg, c.until + 1, Len(msg))]
  BY <1>5 DEF Separated
<1> HIDE DEF in
<1>8. in.st \in Statuses /\ in.chunks \in Seq(OwnChunks) /\ in.keep \in Seq(UnitSet)
  <2> DEFINE rest == SubSeq(msg, c.until + 1, Len(msg))
             chunks == c.chunks
  <2>1. rest \in Seq(UnitSet) /\ chunks \in Seq(OwnChunks)
    BY <1>3, <1>4
  <2>2. \E st \in {"Good", "BadOutOfMemory", "BadDecodingError"}, x \in {<<>>, chunks}, y \in {<<>>, rest} :
          in = [st |-> st, chunks |-> x, keep |-> y]
    BY <1>7
  <2> HIDE DEF rest, chunks
  <2>3. PICK st \in {"Good", "BadOutOfMemory", "BadDecodingError"}, x \in {<<>>, chunks}, y \in {<<>>, rest} :
          in = [st |-> st, chunks |-> x, keep |-> y]
    BY <2>2
  <2>4. in.st = st /\ in.chunks = x /\ in.keep = y
    BY <2>3
  <2>5. st \in Statuses
    BY DEF Statuses
  <2>6. x \in Seq(OwnChunks) /\ y \in Seq(UnitSet)
    BY <1>6, <2>1, Zenon
  <2> QED
    BY <2>4, <2>5, <2>6
<1> QED
  BY <1>8 DEF in

\* The chunks of a receive are processed for the call that waits.
LEMMA Processed ==
    ASSUME ChannelInv, NEW chunks \in Seq(OwnChunks), NEW short
    PROVE  processChunks(chunks, short) \in Readers /\ processChunks(chunks, short).req = call.req
<1>1. PICK g \in [0..Len(chunks) -> Readers] :
           /\ g[0] = Start /\ \A k \in 1..Len(chunks) : g[k] = processChunk(g[k-1], chunks[k], FailsAt(short, k))
           /\ processChunks(chunks, short) = g[Len(chunks)]
  BY ProcessRuns
<1> DEFINE P == {k \in 0..Len(chunks) : g[k].req = call.req}
<1>2. Len(chunks) \in Nat
  OBVIOUS
<1>3. 0 \in P
  BY <1>1, <1>2 DEF Start
<1>4. ASSUME NEW k \in 1..Len(chunks), k - 1 \in P PROVE k \in P
  <2>1. k \in 0..Len(chunks) /\ k - 1 \in 0..Len(chunks) /\ chunks[k] \in OwnChunks
    BY <1>2
  <2>2. g[k-1] \in Readers /\ g[k-1].req = call.req
    BY <1>4, <2>1
  <2>3. processChunk(g[k-1], chunks[k], FailsAt(short, k)).req = call.req
    BY <2>1, <2>2, Processing
  <2> QED
    BY <1>1, <2>1, <2>3
<1>5. P = 0..Len(chunks)
  <2>1. P \in SUBSET (0..Len(chunks))
    OBVIOUS
  <2> HIDE DEF P
  <2> QED
    BY <1>2, <1>3, <1>4, <2>1, UpTo
<1>6. Len(chunks) \in 0..Len(chunks)
  BY <1>2
<1> QED
  BY <1>1, <1>5, <1>6

\* So it is at the start.
LEMMA ChannelInvInit == ASSUME ChannelConstants, ChannelInit PROVE ChannelInv
<1>1. PICK s \in Scenarios :
    /\ requests = <<>> /\ pending = {} /\ wire = <<>> /\ buffered = <<>> /\ open = TRUE
    /\ server = [seq |-> s.first, token |-> 1, next |-> 0, last |-> 0]
    /\ caller = [seq |-> s.first, token |-> 1, parts |-> <<>>, requestId |-> 0]
    /\ call = Idle
    /\ sent = <<>> /\ given = <<>> /\ refused = FALSE
    /\ left = [renewals |-> s.renewals, shortages |-> s.shortages, used |-> FALSE, torn |-> FALSE]
  BY DEF ChannelInit
<1>2. s.first \in Nat /\ s.renewals \in Nat /\ s.shortages \in Nat
  BY DEF ChannelConstants
<1>3. <<>> \in PartSet /\ Owned(<<>>)
  <2>1. <<>> \in [{} -> Seq(Bits)] /\ {} \in SUBSET Nat
    OBVIOUS
  <2>2. \A D \in SUBSET Nat : [D -> Seq(Bits)] \in {[E -> Seq(Bits)] : E \in SUBSET Nat}
    OBVIOUS
  <2>3. <<>> \in PartSet
    BY <2>1, <2>2 DEF PartSet
  <2> QED
    BY <2>3 DEF Owned
<1>4. call.pc = "idle" /\ call.req = 0 /\ call.st = "none" /\ call.from = 0 /\ call.waited = FALSE
      /\ call \in [pc : {"idle", "waiting", "renewing"}, req : Nat, st : Statuses, from : Nat, waited : BOOLEAN]
  BY <1>1 DEF Idle, Statuses
<1>5. caller \in [seq : Nat, token : Nat, parts : PartSet, requestId : Nat] /\ caller.parts = <<>>
  <2>1. 1 \in Nat /\ 0 \in Nat
    OBVIOUS
  <2> QED
    BY <1>1, <1>2, <1>3, <2>1
<1>6. server \in [seq : Nat, token : Nat, next : Nat, last : Nat] /\ left \in [renewals : Nat, shortages : Nat, used : BOOLEAN, torn : BOOLEAN]
  BY <1>1, <1>2
<1>7. ChannelTypes
  <2>1. /\ requests \in Seq([req : Nat, opn : BOOLEAN, token : Nat]) /\ wire \in Seq(UnitSet) /\ buffered \in Seq(UnitSet)
        /\ sent \in Seq(Seq(Bits)) /\ given \in Seq(Seq(Bits))
    BY <1>1
  <2>2. pending \in SUBSET Nat /\ refused \in BOOLEAN /\ open \in BOOLEAN
    BY <1>1, Zenon
  <2> QED
    BY <1>4, <1>5, <1>6, <2>1, <2>2, Zenon DEF ChannelTypes
<1> QED
  BY <1>3, <1>4, <1>5, <1>7 DEF ChannelInv, GoodIsOwnAnswer

\* What a receive leaves to its caller.
LEMMA Received ==
    ASSUME ChannelTypes, NEW n \in 1..RecvBuffer, NEW short \in Shortages, Receives(n, short)
    PROVE  /\ n \in 1..Len(wire) /\ SubSeq(wire, 1, n) \in Seq(UnitSet)
           /\ wire' = SubSeq(wire, n + 1, Len(wire)) /\ wire' \in Seq(UnitSet)
           /\ left' \in [renewals : Nat, shortages : Nat, used : BOOLEAN, torn : BOOLEAN] /\ (left.used \/ short[2] # "none" => left'.used)
           /\ pending' = pending /\ server' = server /\ open' = open /\ sent' = sent
<1>1. /\ wire \in Seq(UnitSet) /\ n \in 1..Len(wire) /\ wire' = SubSeq(wire, n + 1, Len(wire))
      /\ left \in [renewals : Nat, shortages : Nat, used : BOOLEAN, torn : BOOLEAN]
  BY DEF ChannelTypes, Receives
<1>2. SubSeq(wire, 1, n) \in Seq(UnitSet) /\ SubSeq(wire, n + 1, Len(wire)) \in Seq(UnitSet)
  <2>1. n \in Nat /\ n <= Len(wire) /\ Len(wire) \in Nat
    BY <1>1
  <2> QED
    BY <1>1, <2>1
<1>3. left' \in [renewals : Nat, shortages : Nat, used : BOOLEAN, torn : BOOLEAN] /\ (left.used \/ short[2] # "none" => left'.used)
  <2>1. CASE short[2] = "none"
    BY <1>1, <2>1 DEF Receives
  <2>2. CASE short[2] # "none"
    <3> DEFINE l1 == [left EXCEPT !.shortages = @ - 1]
    <3> DEFINE t == left.torn \/ short[1] > 0
    <3>1. left.shortages > 0 /\ left' = [l1 EXCEPT !.used = TRUE, !.torn = t]
      BY <2>2 DEF Receives
    <3>2. l1 \in [renewals : Nat, shortages : Nat, used : BOOLEAN, torn : BOOLEAN]
      <4>1. left.shortages - 1 \in Nat
        BY <1>1, <3>1
      <4> QED
        BY <1>1, <4>1
    <3> HIDE DEF l1
    <3>3. \A v, w \in BOOLEAN : LET l == [l1 EXCEPT !.used = v, !.torn = w] IN l \in [renewals : Nat, shortages : Nat, used : BOOLEAN, torn : BOOLEAN] /\ l.used = v
      BY <3>2
    <3>4. t \in BOOLEAN /\ TRUE \in BOOLEAN
      BY <1>1, Zenon
    <3> HIDE DEF t
    <3>5. left' \in [renewals : Nat, shortages : Nat, used : BOOLEAN, torn : BOOLEAN] /\ left'.used = TRUE
      BY <3>1, <3>3, <3>4, Zenon
    <3> QED
      BY <3>5
  <2> QED
    BY <2>1, <2>2
<1> QED
  BY <1>1, <1>2, <1>3 DEF Receives

\* Sequence numbers are numbers below the range.
LEMMA Numbered ==
    ASSUME ChannelConstants, NEW s \in Nat, NEW n \in Nat
    PROVE  Plus(s, n) \in Nat /\ Plus(s, n) < SeqRange
<1>1. SeqRange \in Nat \ {0} /\ s + n \in Nat
  BY DEF ChannelConstants
<1> QED
  BY <1>1 DEF Plus

\* The first of a sequence, and the rest.
LEMMA Taking ==
    ASSUME NEW S, NEW s \in Seq(S), s # <<>>
    PROVE  Head(s) \in S /\ Tail(s) \in Seq(S)
  OBVIOUS

\* The end of a sequence.
LEMMA Rest ==
    ASSUME NEW S, NEW s \in Seq(S), NEW b \in Nat, NEW m \in Nat, b <= m, m <= Len(s)
    PROVE  /\ SubSeq(s, b + 1, m) \in Seq(S) /\ Len(SubSeq(s, b + 1, m)) = m - b
           /\ \A p \in 1..(m - b) : SubSeq(s, b + 1, m)[p] = s[p + b]
<1>1. SubSeq(s, b + 1, m) \in Seq(S) /\ Len(SubSeq(s, b + 1, m)) = m - b
  OBVIOUS
<1>2. ASSUME NEW p \in 1..(m - b) PROVE SubSeq(s, b + 1, m)[p] = s[p + b]
  <2>1. SubSeq(s, b + 1, m)[p] = s[(b + 1) + p - 1]
    OBVIOUS
  <2>2. (b + 1) + p - 1 = p + b
    OBVIOUS
  <2> QED
    BY <2>1, <2>2
<1> QED
  BY <1>1, <1>2

\* What is always so stays so with every step.
LEMMA ChannelInvNext ==
    ASSUME ChannelConstants, ChannelInv, [ChannelNext]_channelVars
    PROVE  ChannelInv'
<1>0. /\ requests \in Seq([req : Nat, opn : BOOLEAN, token : Nat])
      /\ pending \in SUBSET Nat
      /\ server \in [seq : Nat, token : Nat, next : Nat, last : Nat]
      /\ wire \in Seq(UnitSet) /\ buffered \in Seq(UnitSet)
      /\ caller \in [seq : Nat, token : Nat, parts : PartSet, requestId : Nat]
      /\ call \in CallSet
      /\ sent \in Seq(Seq(Bits)) /\ given \in Seq(Seq(Bits))
      /\ refused \in BOOLEAN /\ open \in BOOLEAN
      /\ left \in [renewals : Nat, shortages : Nat, used : BOOLEAN, torn : BOOLEAN]
      /\ Owned(caller.parts) /\ GoodIsOwnAnswer /\ ChannelTypes
  BY DEF ChannelTypes, CallSet, ChannelInv
<1> DEFINE Requests == Seq([req : Nat, opn : BOOLEAN, token : Nat])
           Callers == [seq : Nat, token : Nat, parts : PartSet, requestId : Nat]
           Lefts == [renewals : Nat, shortages : Nat, used : BOOLEAN, torn : BOOLEAN]
           Servers == [seq : Nat, token : Nat, next : Nat, last : Nat]
<1>i. ASSUME requests' \in Requests, pending' \in SUBSET Nat, server' \in Servers, wire' \in Seq(UnitSet),
             buffered' \in Seq(UnitSet), caller' \in Callers, call' \in CallSet, sent' \in Seq(Seq(Bits)),
             given' \in Seq(Seq(Bits)), refused' \in BOOLEAN, open' \in BOOLEAN, left' \in Lefts,
             Owned(caller'.parts), call'.st = "Good" => call'.from = call'.req
      PROVE  ChannelInv'
  BY <1>i, Zenon DEF ChannelInv, ChannelTypes, CallSet, GoodIsOwnAnswer, Owned
<1>1. CASE CallService
  <2>1. ChannelTypes /\ FALSE \in BOOLEAN /\ caller.token \in Nat /\ SendRequest("waiting", FALSE, caller.token)
    BY <1>0, <1>1 DEF CallService
  <2>2. /\ caller' \in Callers /\ caller'.parts = caller.parts /\ requests' \in Requests
        /\ call' \in CallSet /\ call'.st = "none"
    BY <2>1, Requesting
  <2> QED
    BY <1>0, <1>1, <1>i, <2>2 DEF CallService
<1>2. CASE RenewToken
  <2>1. ChannelTypes /\ TRUE \in BOOLEAN /\ caller.token \in Nat /\ SendRequest("renewing", TRUE, caller.token)
    BY <1>0, <1>2 DEF RenewToken
  <2>2. /\ caller' \in Callers /\ caller'.parts = caller.parts /\ requests' \in Requests
        /\ call' \in CallSet /\ call'.st = "none"
    BY <2>1, Requesting
  <2>3. left' \in Lefts
    <3> DEFINE l1 == [left EXCEPT !.renewals = @ - 1]
    <3>1. left.renewals > 0 /\ left.renewals - 1 \in Nat /\ left' = [l1 EXCEPT !.used = TRUE]
      <4>1. left.renewals > 0 /\ left' = [l1 EXCEPT !.used = TRUE]
        BY <1>2 DEF RenewToken
      <4>2. left.renewals \in Nat
        BY <1>0
      <4> QED
        BY <4>1, <4>2
    <3>2. l1 \in Lefts
      BY <1>0, <3>1
    <3> HIDE DEF l1
    <3>3. \A w \in BOOLEAN : [l1 EXCEPT !.used = w] \in Lefts
      BY <3>2
    <3> QED
      BY <3>1, <3>3, Zenon
  <2> HIDE DEF Lefts
  <2> QED
    BY <1>0, <1>2, <1>i, <2>2, <2>3 DEF RenewToken
<1>3. CASE ServerReceives
  <2> DEFINE q == Head(requests)
             z == IF q.token = server.token THEN server.next ELSE 0
  <2>1. requests # <<>> /\ requests' = Tail(requests)
    BY <1>3 DEF ServerReceives
  <2>2. q \in [req : Nat, opn : BOOLEAN, token : Nat] /\ requests' \in Requests
    BY <1>0, <2>1, Taking
  <2>3. pending' = pending \cup {q.req} /\ server' = [server EXCEPT !.last = q.req, !.token = q.token, !.next = z]
    BY <1>3 DEF ServerReceives
  <2>4. z \in Nat
    BY <1>0
  <2> HIDE DEF q, z
  <2>5. pending' \in SUBSET Nat /\ server' \in Servers
    BY <1>0, <2>2, <2>3, <2>4
  <2>6. UNCHANGED <<wire, open, buffered, caller, call, sent, given, refused, left>>
    BY <1>3 DEF ServerReceives
  <2>7. call'.st = "Good" => call'.from = call'.req
    BY <1>0, <2>6 DEF GoodIsOwnAnswer
  <2> QED
    BY <1>0, <1>i, <2>2, <2>5, <2>6, <2>7
<1>10. ASSUME NEW k \in 1..Len(requests), ServerRefuses(k) PROVE ChannelInv'
  <2>1. /\ requests' = SubSeq(requests, k + 1, Len(requests))
        /\ UNCHANGED <<pending, server, wire, open, buffered, caller, call, sent, given, refused, left>>
    BY <1>10 DEF ServerRefuses
  <2>2. requests' \in Requests
    <3>1. requests \in Requests /\ k \in Nat /\ Len(requests) \in Nat /\ k <= Len(requests) /\ Len(requests) <= Len(requests)
      BY <1>0
    <3> QED
      BY <2>1, <3>1, Rest
  <2>3. call'.st = "Good" => call'.from = call'.req
    BY <1>0, <2>1 DEF GoodIsOwnAnswer
  <2> QED
    BY <1>0, <1>i, <2>1, <2>2, <2>3
<1>11. CASE ServerRevolves
  <2>1. server' = [server EXCEPT !.token = server.next, !.next = 0]
    BY <1>11 DEF ServerRevolves
  <2>2. server' \in Servers
    BY <1>0, <2>1
  <2>3. UNCHANGED <<requests, pending, wire, open, buffered, caller, call, sent, given, refused, left>>
    BY <1>11 DEF ServerRevolves
  <2>4. call'.st = "Good" => call'.from = call'.req
    BY <1>0, <2>3 DEF GoodIsOwnAnswer
  <2> QED
    BY <1>0, <1>i, <2>2, <2>3, <2>4
<1>4. CASE ServerRenews
  <2> DEFINE q == Head(requests)
             c == [type |-> "OPN", seq |-> server'.seq, req |-> q.req, kind |-> "F", token |-> server'.next, body |-> <<"opn">>]
  <2>1. requests # <<>> /\ requests' = Tail(requests)
    BY <1>4 DEF ServerRenews
  <2>2. q \in [req : Nat, opn : BOOLEAN, token : Nat] /\ requests' \in Requests
    BY <1>0, <2>1, Taking
  <2>3. server' \in Servers
    <3>1. Plus(server.seq, 1) \in Nat
      <4>1. server.seq \in Nat
        BY <1>0
      <4> QED
        BY <4>1, Numbered
    <3> DEFINE z == IF server.next = 0 THEN q.req + 1 ELSE server.next
    <3>2. q.req \in Nat /\ z \in Nat
      <4>1. q.req \in Nat /\ server.next \in Nat
        BY <1>0, <2>2
      <4> HIDE DEF q
      <4> QED
        BY <4>1
    <3>3. server' = [server EXCEPT !.seq = Plus(server.seq, 1), !.last = q.req, !.next = z]
      BY <1>4 DEF ServerRenews
    <3> HIDE DEF q, z
    <3> QED
      BY <1>0, <3>1, <3>2, <3>3
  <2>4. c \in OwnChunks
    <3>1. <<"opn">> \in Seq(Bits)
      BY DEF Bits
    <3>2. server'.seq \in Nat /\ server'.next \in Nat /\ q.req \in Nat
      BY <2>2, <2>3
    <3> HIDE DEF q
    <3>3. c \in ChunkSet
      BY <3>1, <3>2 DEF ChunkSet
    <3>4. c.type = "OPN"
      OBVIOUS
    <3> HIDE DEF c
    <3> QED
      BY <3>3, <3>4 DEF OwnChunks
  <2>5. wire' = wire \o Units(c)
    BY <1>4 DEF ServerRenews
  <2> HIDE DEF c, q
  <2>6. Units(c) \in Seq(UnitSet)
    BY <2>4, UnitsOf
  <2>7. wire' \in Seq(UnitSet)
    BY <1>0, <2>5, <2>6
  <2>8. UNCHANGED <<pending, open, buffered, caller, call, sent, given, refused, left>>
    BY <1>4 DEF ServerRenews
  <2>9. call'.st = "Good" => call'.from = call'.req
    BY <1>0, <2>8 DEF GoodIsOwnAnswer
  <2> QED
    BY <1>0, <1>i, <2>2, <2>3, <2>7, <2>8, <2>9
<1>5. ASSUME NEW req \in pending, NEW n \in Sizes, ServerAnswers(req, n)
      PROVE  ChannelInv'
  <2> DEFINE body == Answer(req, n)
             chunks == sendBinaryMessage(server, req, body)
  <2>1. req \in Nat /\ n \in Nat \ {0}
    BY <1>0 DEF ChannelConstants
  <2>2. /\ pending' = pending \ {req} /\ wire' = wire \o OnWire(chunks)
        /\ server' = [server EXCEPT !.seq = Plus(@, Len(chunks))]
        /\ sent' \in {sent, Append(sent, body)}
    BY <1>5 DEF ServerAnswers, Answer
  <2>3. body \in Seq(Bits) /\ Len(body) >= 1 /\ \A i \in 1..Len(body) : body[i].req = req
    <3>1. body \in Seq(Bits) /\ Len(body) = n /\ \A i \in 1..n : body[i].req = req
      BY <2>1, Answers
    <3> HIDE DEF body
    <3> QED
      BY <2>1, <3>1
  <2> HIDE DEF body
  <2>4. chunks \in Seq(OwnChunks)
    BY <1>0, <2>1, <2>3, Chunking
  <2> HIDE DEF chunks
  <2>5. OnWire(chunks) \in Seq(UnitSet)
    <3>1. PICK g \in [0..Len(chunks) -> Seq(UnitSet)] : OnWire(chunks) = g[Len(chunks)]
      BY <2>4, WireRuns
    <3>2. Len(chunks) \in 0..Len(chunks)
      BY <2>4
    <3> QED
      BY <3>1, <3>2
  <2>6. server' \in Servers
    <3>1. Plus(server.seq, Len(chunks)) \in Nat
      <4>1. server.seq \in Nat /\ Len(chunks) \in Nat
        BY <1>0, <2>4
      <4> QED
        BY <4>1, Numbered
    <3>2. server' = [server EXCEPT !.seq = Plus(server.seq, Len(chunks))]
      BY <2>2
    <3> QED
      BY <1>0, <3>1, <3>2
  <2>7. wire' \in Seq(UnitSet) /\ sent' \in Seq(Seq(Bits)) /\ pending' \in SUBSET Nat
    <3>1. wire \in Seq(UnitSet) /\ sent \in Seq(Seq(Bits)) /\ pending \in SUBSET Nat
      BY <1>0
    <3>2. wire \o OnWire(chunks) \in Seq(UnitSet)
      BY <2>5, <3>1
    <3>3. Append(sent, body) \in Seq(Seq(Bits))
      BY <2>3, <3>1
    <3> QED
      BY <2>2, <3>1, <3>2, <3>3
  <2>8. UNCHANGED <<requests, open, buffered, caller, call, given, refused, left>>
    BY <1>5 DEF ServerAnswers
  <2>9. call'.st = "Good" => call'.from = call'.req
    BY <1>0, <2>8 DEF GoodIsOwnAnswer
  <2>10. requests' \in Requests /\ open' \in BOOLEAN /\ left' \in Lefts /\ caller' \in Callers
    BY <1>0, <2>8
  <2> HIDE DEF Requests, Callers, Lefts, Servers
  <2> QED
    BY <1>0, <1>i, <2>6, <2>7, <2>8, <2>9, <2>10
<1>6. ASSUME NEW n \in 1..RecvBuffer, NEW short \in Shortages, ReceiveAnswer(n, short)
      PROVE  ChannelInv'
  <2> DEFINE in == completeMessages(buffered, SubSeq(wire, 1, n), short[2] = "buffer")
             r == processChunks(in.chunks, short)
  <2>1. Receives(n, short)
    BY <1>6 DEF ReceiveAnswer
  <2>2. /\ SubSeq(wire, 1, n) \in Seq(UnitSet) /\ wire' \in Seq(UnitSet) /\ left' \in Lefts
        /\ pending' = pending /\ server' = server /\ open' = open /\ sent' = sent
    BY <1>0, <2>1, Received
  <2>3. in.st \in Statuses /\ in.chunks \in Seq(OwnChunks) /\ in.keep \in Seq(UnitSet)
    <3>1. (short[2] = "buffer") \in BOOLEAN
      BY Zenon
    <3> QED
      BY <1>0, <2>2, <3>1, Completing
  <2>4. r \in Readers /\ r.req = call.req
    <3> HIDE DEF in
    <3> QED
      BY <2>3, Processed
  <2>5. /\ buffered' = in.keep /\ caller' = [caller EXCEPT !.seq = r.seq, !.parts = r.parts]
        /\ given' = r.given /\ refused' = (refused \/ r.refused) /\ requests' = requests
        /\ IF in.st # "Good" THEN Returns(in.st)
           ELSE IF r.processed THEN call' = [call EXCEPT !.pc = "idle", !.st = r.st, !.from = r.from, !.waited = FALSE]
           ELSE call' = [call EXCEPT !.waited = TRUE]
    BY <1>6 DEF ReceiveAnswer
  <2> HIDE DEF in, r
  <2>6. /\ r.st \in Statuses /\ r.from \in Nat /\ r.seq \in Nat /\ r.parts \in PartSet /\ Owned(r.parts)
        /\ r.given \in Seq(Seq(Bits)) /\ r.refused \in BOOLEAN /\ (r.st = "Good" => r.from = call.req)
    BY <2>4 DEF Readers
  <2>7. caller' \in Callers /\ caller'.parts = r.parts
    BY <1>0, <2>5, <2>6
  <2>8. call' \in CallSet /\ (call'.st = "Good" => call'.from = call'.req)
    <3>1. CASE in.st # "Good"
      <4>1. call' = [call EXCEPT !.pc = "idle", !.st = in.st, !.waited = FALSE]
        BY <2>5, <3>1 DEF Returns
      <4>2. LET c == [call EXCEPT !.pc = "idle", !.st = in.st, !.waited = FALSE] IN
              c \in CallSet /\ c.st = in.st
        BY <1>0, <2>3, <2>6, Returning
      <4> QED
        BY <3>1, <4>1, <4>2, Zenon
    <3>2. CASE in.st = "Good" /\ r.processed
      <4>1. call' = [call EXCEPT !.pc = "idle", !.st = r.st, !.from = r.from, !.waited = FALSE]
        BY <2>5, <3>2
      <4>2. LET c == [call EXCEPT !.pc = "idle", !.st = r.st, !.from = r.from, !.waited = FALSE] IN
              c \in CallSet /\ c.st = r.st /\ c.from = r.from /\ c.req = call.req
        <5>1. call \in CallSet
          BY <1>0
        <5> QED
          BY <2>6, <5>1, Returning
      <4>3. call' \in CallSet /\ call'.st = r.st /\ call'.from = r.from /\ call'.req = call.req
        BY <4>1, <4>2, Zenon
      <4> QED
        BY <2>6, <4>3
    <3>3. CASE in.st = "Good" /\ ~r.processed
      <4>1. call' = [call EXCEPT !.waited = TRUE]
        BY <2>5, <3>3
      <4>2. LET c == [call EXCEPT !.waited = TRUE] IN
              c \in CallSet /\ c.st = call.st /\ c.from = call.from /\ c.req = call.req
        BY <1>0, <2>6, Returning
      <4>3. call' \in CallSet /\ call'.st = call.st /\ call'.from = call.from /\ call'.req = call.req
        BY <4>1, <4>2, Zenon
      <4> QED
        BY <1>0, <4>3 DEF GoodIsOwnAnswer
    <3> QED
      BY <3>1, <3>2, <3>3
  <2>9. refused' \in BOOLEAN
    BY <2>5, Zenon
  <2> QED
    BY <1>0, <1>i, <2>2, <2>3, <2>5, <2>6, <2>7, <2>8, <2>9
<1>7. ASSUME NEW n \in 1..RecvBuffer, NEW short \in Shortages, ReceiveToken(n, short)
      PROVE  ChannelInv'
  <2> DEFINE in == completeMessages(buffered, SubSeq(wire, 1, n), short[2] = "buffer")
  <2>1. Receives(n, short)
    BY <1>7 DEF ReceiveToken
  <2>2. /\ SubSeq(wire, 1, n) \in Seq(UnitSet) /\ wire' \in Seq(UnitSet) /\ left' \in Lefts
        /\ pending' = pending /\ server' = server /\ open' = open /\ sent' = sent
    BY <1>0, <2>1, Received
  <2>3. in.st \in Statuses /\ in.chunks \in Seq(OwnChunks) /\ in.keep \in Seq(UnitSet)
    <3>1. (short[2] = "buffer") \in BOOLEAN
      BY Zenon
    <3> QED
      BY <1>0, <2>2, <3>1, Completing
  <2>4. /\ buffered' = in.keep /\ given' = given /\ refused' = refused
        /\ IF in.st # "Good" THEN Returns(in.st) /\ UNCHANGED <<caller, requests>>
           ELSE IF in.chunks = <<>> THEN call' = [call EXCEPT !.waited = TRUE] /\ UNCHANGED <<caller, requests>>
           ELSE IF in.chunks[1].type # "OPN" THEN Returns("BadInternalError") /\ UNCHANGED <<caller, requests>>
           ELSE /\ caller' = [caller EXCEPT !.seq = in.chunks[1].seq, !.token = in.chunks[1].token, !.requestId = @ + 1]
                /\ requests' = Append(requests, [req |-> caller.requestId + 1, opn |-> FALSE, token |-> in.chunks[1].token])
                /\ call' = [pc |-> "waiting", req |-> caller.requestId + 1, st |-> "none", from |-> 0, waited |-> FALSE]
    BY <1>7 DEF ReceiveToken
  <2> HIDE DEF in
  <2>5. CASE UNCHANGED <<caller, requests>> /\ \E st \in Statuses \ {"Good"} : Returns(st)
    <3>1. PICK st \in Statuses \ {"Good"} : call' = [call EXCEPT !.pc = "idle", !.st = st, !.waited = FALSE]
      BY <2>5 DEF Returns
    <3>2. LET c == [call EXCEPT !.pc = "idle", !.st = st, !.waited = FALSE] IN c \in CallSet /\ c.st = st
      <4>1. call.from \in Nat
        BY <1>0 DEF CallSet
      <4> QED
        BY <1>0, <4>1, Returning
    <3>3. call' \in CallSet /\ call'.st # "Good"
      BY <3>1, <3>2, Zenon
    <3> QED
      BY <1>0, <1>i, <2>2, <2>3, <2>4, <2>5, <3>3
  <2>6. CASE UNCHANGED <<caller, requests>> /\ call' = [call EXCEPT !.waited = TRUE]
    <3>1. LET c == [call EXCEPT !.waited = TRUE] IN
            c \in CallSet /\ c.st = call.st /\ c.from = call.from /\ c.req = call.req
      <4>1. call.from \in Nat /\ call.st \in Statuses
        BY <1>0 DEF CallSet
      <4> QED
        BY <1>0, <4>1, Returning
    <3>2. call' \in CallSet /\ call'.st = call.st /\ call'.from = call.from /\ call'.req = call.req
      BY <2>6, <3>1, Zenon
    <3>3. call'.st = "Good" => call'.from = call'.req
      BY <1>0, <3>2 DEF GoodIsOwnAnswer
    <3> QED
      BY <1>0, <1>i, <2>2, <2>3, <2>4, <2>6, <3>2, <3>3
  <2>7. CASE /\ in.chunks # <<>>
             /\ caller' = [caller EXCEPT !.seq = in.chunks[1].seq, !.token = in.chunks[1].token, !.requestId = @ + 1]
             /\ requests' = Append(requests, [req |-> caller.requestId + 1, opn |-> FALSE, token |-> in.chunks[1].token])
             /\ call' = [pc |-> "waiting", req |-> caller.requestId + 1, st |-> "none", from |-> 0, waited |-> FALSE]
    <3> DEFINE c == in.chunks[1]
    <3>1. c \in OwnChunks
      BY <2>3, <2>7
    <3>2. c.seq \in Nat /\ c.token \in Nat
      BY <3>1 DEF OwnChunks, ChunkSet
    <3>3. caller.requestId + 1 \in Nat
      <4>1. caller.requestId \in Nat
        BY <1>0
      <4> QED
        BY <4>1
    <3>4. /\ caller' = [caller EXCEPT !.seq = c.seq, !.token = c.token, !.requestId = caller.requestId + 1]
          /\ requests' = Append(requests, [req |-> caller.requestId + 1, opn |-> FALSE, token |-> c.token])
      BY <2>7
    <3> HIDE DEF c
    <3>5. caller' \in Callers /\ caller'.parts = caller.parts
      BY <1>0, <3>2, <3>3, <3>4
    <3>6. requests' \in Requests
      <4>1. [req |-> caller.requestId + 1, opn |-> FALSE, token |-> c.token] \in [req : Nat, opn : BOOLEAN, token : Nat]
        BY <3>2, <3>3
      <4> QED
        BY <1>0, <3>4, <4>1
    <3>7. call' \in CallSet /\ call'.st = "none"
      BY <2>7, <3>3 DEF CallSet, Statuses
    <3> QED
      BY <1>0, <1>i, <2>2, <2>3, <2>4, <3>5, <3>6, <3>7
  <2>8. "BadInternalError" \in Statuses \ {"Good"}
    BY DEF Statuses
  <2> QED
    BY <2>3, <2>4, <2>5, <2>6, <2>7, <2>8
<1>8. ASSUME TimesOut \/ SocketTimesOut PROVE ChannelInv'
  <2>1. PICK st \in Statuses \ {"Good"} : call' = [call EXCEPT !.pc = "idle", !.st = st, !.waited = FALSE]
    BY <1>8 DEF TimesOut, SocketTimesOut, Returns, Statuses
  <2>2. LET c == [call EXCEPT !.pc = "idle", !.st = st, !.waited = FALSE] IN c \in CallSet /\ c.st = st
    <3>1. call.from \in Nat
      BY <1>0 DEF CallSet
    <3> QED
      BY <1>0, <3>1, Returning
  <2>3. call' \in CallSet /\ call'.st # "Good"
    BY <2>1, <2>2, Zenon
  <2>4. UNCHANGED <<requests, pending, server, wire, buffered, caller, sent, given, refused, left>> /\ open' \in BOOLEAN
    BY <1>0, <1>8 DEF TimesOut, SocketTimesOut
  <2> QED
    BY <1>0, <1>i, <2>3, <2>4
<1>9. CASE UNCHANGED channelVars
  BY <1>0, <1>9, <1>i DEF channelVars, GoodIsOwnAnswer
<1> QED
  BY <1>1, <1>2, <1>3, <1>4, <1>5, <1>6, <1>7, <1>8, <1>9, <1>10, <1>11 DEF ChannelNext

\* In every state of every run collected pieces belong to the answer of the request they
\* are collected under (UA_SecureChannel_processChunks), and a GOOD call has its own.
THEOREM ChannelInvariance == ChannelSpec => []ChannelInv
<1>1. ChannelInit => ChannelInv
  BY ChannelInvInit, ChannelConstants
<1>2. ChannelInv /\ [ChannelNext]_channelVars => ChannelInv'
  BY ChannelInvNext, ChannelConstants
<1> QED
  BY <1>1, <1>2, PTL DEF ChannelSpec

\* The client between two chunks: its number, what it has collected, what it was given.
States == {x \in [seq : Nat, parts : PartSet, given : Seq(Seq(Bits))] : Owned(x.parts)}

\* The chunk takes it from one state to the next, without being refused.
Carries(x, c, y) ==
    /\ c.type = "MSG" /\ c.token = 1 /\ c.seq = Plus(x.seq, 1)
    /\ y.seq = c.seq /\ y.parts = PartsAfter(x, c) /\ y.given = GivenAfter(x, c)

Before(s, t) == Len(s) <= Len(t) /\ \A i \in 1..Len(s) : s[i] = t[i]

\* Between the units of the stream are the states that they carry the client to: whole
\* chunks one after the other, each with the next number.
Stream(u, d) ==
    /\ d \in [0..Len(u) -> States]
    /\ u # <<>> => u[1].k = 1
    /\ \A p \in 1..Len(u) : u[p].k = 1 =>
         LET e == p + Len(u[p].chunk.body) IN
         /\ e <= Len(u) /\ (e < Len(u) => u[e+1].k = 1)
         /\ Carries(d[p-1], u[p].chunk, d[e])
    /\ \A p \in 0..Len(u) : Before(d[p].given, d[Len(u)].given)

Border(u, b) == b = Len(u) \/ u[b+1].k = 1

\* A unit of a sequence, two sequences joined.
LEMMA UnitIn ==
    ASSUME NEW u \in Seq(UnitSet), NEW p \in 1..Len(u)
    PROVE  u[p] \in UnitSet /\ u[p].chunk \in OwnChunks /\ Len(u[p].chunk.body) \in Nat
<1>1. u[p] \in UnitSet
  OBVIOUS
<1>2. u[p].chunk \in OwnChunks
  BY <1>1 DEF UnitSet
<1> QED
  BY <1>1, <1>2, UnitsOf

LEMMA Joined ==
    ASSUME NEW S, NEW s \in Seq(S), NEW t \in Seq(S)
    PROVE  /\ s \o t \in Seq(S) /\ Len(s \o t) = Len(s) + Len(t) /\ Len(s) \in Nat /\ Len(t) \in Nat
           /\ \A p \in 1..Len(s) : (s \o t)[p] = s[p]
           /\ \A j \in 1..Len(t) : (s \o t)[Len(s) + j] = t[j]
  OBVIOUS

\* A chunk takes the client from a state to a state.
LEMMA Stepping ==
    ASSUME NEW x \in States, NEW c \in OwnChunks, c.type = "MSG"
    PROVE  [seq |-> c.seq, parts |-> PartsAfter(x, c), given |-> GivenAfter(x, c)] \in States
<1>1. x.parts \in PartSet /\ x.given \in Seq(Seq(Bits)) /\ Owned(x.parts)
  BY DEF States
<1>2. c.seq \in Nat /\ c.req \in Nat /\ c.kind \in {"C", "F", "A"}
  BY DEF OwnChunks, ChunkSet
<1> DEFINE b == Collected(x, c)
           more == [q \in DOMAIN x.parts \cup {c.req} |-> IF q = c.req THEN b ELSE x.parts[q]]
           less == [q \in DOMAIN x.parts \ {c.req} |-> x.parts[q]]
<1>3. b \in Seq(Bits) /\ (c.kind # "A" => \A i \in 1..Len(b) : b[i].req = c.req)
  BY <1>1, Collecting
<1> HIDE DEF b
<1>4. c.kind = "C" => more \in PartSet /\ Owned(more)
  BY <1>1, <1>2, <1>3, Putting
<1>5. less \in PartSet /\ Owned(less)
  BY <1>1, Forgetting
<1>6. PartsAfter(x, c) = (IF c.kind = "C" THEN more ELSE less)
  BY DEF PartsAfter, b
<1> HIDE DEF more, less
<1>7. PartsAfter(x, c) \in PartSet /\ Owned(PartsAfter(x, c))
  BY <1>4, <1>5, <1>6
<1>8. GivenAfter(x, c) \in Seq(Seq(Bits))
  <2>1. Append(x.given, b) \in Seq(Seq(Bits))
    BY <1>1, <1>3
  <2>2. GivenAfter(x, c) = (IF c.kind = "F" THEN Append(x.given, b) ELSE x.given)
    BY DEF GivenAfter, b
  <2> QED
    BY <1>1, <2>1, <2>2
<1> QED
  BY <1>2, <1>7, <1>8 DEF States

\* A chunk more at the end.
LEMMA Extending ==
    ASSUME NEW u \in Seq(UnitSet), NEW d, Stream(u, d), NEW c \in OwnChunks, NEW y \in States,
           Carries(d[Len(u)], c, y), Before(d[Len(u)].given, y.given)
    PROVE  \E e : /\ Stream(u \o Units(c), e) /\ e[0] = d[0]
                  /\ e[Len(u \o Units(c))] = y
<1> DEFINE v == u \o Units(c)
           m == Len(u)
           l == Len(c.body)
           n == m + 1 + l
           e == [p \in 0..n |-> IF p <= m THEN d[p] ELSE y]
<1>1. /\ Units(c) \in Seq(UnitSet) /\ Len(Units(c)) = 1 + l /\ l \in Nat
      /\ \A j \in 1..(1 + l) : Units(c)[j] = [chunk |-> c, k |-> j]
  BY UnitsOf
<1>2. /\ m \in Nat /\ n \in Nat /\ Len(v) = n /\ v \in Seq(UnitSet)
      /\ \A p \in 1..m : v[p] = u[p]
      /\ \A j \in 1..(1 + l) : v[m + j] = Units(c)[j]
  <2>1. /\ v \in Seq(UnitSet) /\ Len(v) = m + Len(Units(c)) /\ m \in Nat
        /\ \A p \in 1..m : v[p] = u[p]
        /\ \A j \in 1..Len(Units(c)) : v[m + j] = Units(c)[j]
    <3>1. u \in Seq(UnitSet) /\ Units(c) \in Seq(UnitSet)
      BY <1>1
    <3> DEFINE t == Units(c)
    <3> HIDE DEF t
    <3>2. /\ u \o t \in Seq(UnitSet) /\ Len(u \o t) = Len(u) + Len(t) /\ Len(u) \in Nat
          /\ \A p \in 1..Len(u) : (u \o t)[p] = u[p]
          /\ \A j \in 1..Len(t) : (u \o t)[Len(u) + j] = t[j]
      <4>1. u \in Seq(UnitSet) /\ t \in Seq(UnitSet)
        BY <3>1 DEF t
      <4> QED
        BY <4>1, Joined
    <3> QED
      BY <3>2 DEF t
  <2> HIDE DEF v, m, l
  <2> QED
    BY <1>1, <2>1
<1>3. (\A p \in 1..m : v[p] = u[p]) /\ \A p \in (m+1)..n : v[p] = [chunk |-> c, k |-> p - m]
  <2> HIDE DEF v, m, l
  <2>1. ASSUME NEW p \in (m+1)..n PROVE v[p] = [chunk |-> c, k |-> p - m]
    <3>1. p - m \in 1..(1 + l) /\ m + (p - m) = p
      BY <1>1, <1>2
    <3>2. v[p] = Units(c)[p - m]
      BY <1>2, <3>1
    <3> QED
      BY <1>1, <3>1, <3>2
  <2> QED
    BY <1>2, <2>1
<1>4. /\ d \in [0..m -> States]
      /\ u # <<>> => u[1].k = 1
      /\ \A p \in 1..m : u[p].k = 1 =>
           /\ p + Len(u[p].chunk.body) <= m /\ (p + Len(u[p].chunk.body) < m => u[p + Len(u[p].chunk.body) + 1].k = 1)
           /\ Carries(d[p-1], u[p].chunk, d[p + Len(u[p].chunk.body)])
      /\ \A p \in 0..m : Before(d[p].given, d[m].given)
  BY DEF Stream
<1>5. \A p \in 1..m : Len(u[p].chunk.body) \in Nat
  BY UnitIn
<1>6. u = <<>> <=> m = 0
  OBVIOUS
<1> HIDE DEF v, m, l
<1>7. /\ e \in [0..n -> States] /\ (\A p \in 0..m : e[p] = d[p]) /\ \A p \in (m+1)..n : e[p] = y
  BY <1>1, <1>2, <1>4
<1>8. e[n] = y /\ e[0] = d[0]
  BY <1>1, <1>2, <1>7
<1>9. v[m+1].k = 1 /\ v[m+1].chunk = c /\ \A p \in (m+2)..n : v[p].k # 1
  <2>1. m + 1 \in (m+1)..n
    BY <1>1, <1>2
  <2>2. \A p \in (m+1)..n : v[p].k = p - m /\ v[p].chunk = c
    <3> SUFFICES ASSUME NEW p \in (m+1)..n PROVE v[p].k = p - m /\ v[p].chunk = c
      OBVIOUS
    <3>1. v[p] = [chunk |-> c, k |-> p - m]
      BY <1>3
    <3> QED
      BY <3>1
  <2> HIDE DEF n
  <2>3. v[m+1].k = 1 /\ v[m+1].chunk = c
    <3> DEFINE p == m + 1
    <3>1. p \in (m+1)..n /\ p - m = 1
      BY <1>2, <2>1
    <3> HIDE DEF p
    <3>2. v[p].k = p - m /\ v[p].chunk = c
      BY <2>2, <3>1
    <3> QED
      BY <3>1, <3>2 DEF p
  <2>4. ASSUME NEW p \in (m+2)..n PROVE v[p].k # 1
    <3>1. p \in (m+1)..n /\ p - m # 1
      BY <1>2
    <3> QED
      BY <2>2, <3>1
  <2> QED
    BY <2>3, <2>4
<1>10. v # <<>> => v[1].k = 1
  BY <1>2, <1>3, <1>4, <1>6, <1>9
<1> HIDE DEF e
<1>11. ASSUME NEW p \in 1..n, v[p].k = 1
       PROVE  LET f == p + Len(v[p].chunk.body) IN
              f <= n /\ (f < n => v[f+1].k = 1) /\ Carries(e[p-1], v[p].chunk, e[f])
  <2>1. CASE p \in 1..m
    <3> DEFINE f == p + Len(u[p].chunk.body)
    <3>1. v[p] = u[p] /\ f <= m /\ (f < m => u[f+1].k = 1) /\ Carries(d[p-1], u[p].chunk, d[f])
      BY <1>3, <1>4, <1>11, <2>1
    <3>2. f \in 1..m /\ f + 1 \in Nat
      <4> DEFINE k == Len(u[p].chunk.body)
      <4>1. k \in Nat
        BY <1>5, <2>1
      <4>2. p + k <= m
        BY <3>1
      <4> HIDE DEF k
      <4>3. p + k \in 1..m /\ p + k + 1 \in Nat
        BY <1>2, <2>1, <4>1, <4>2
      <4> QED
        BY <4>3 DEF k
    <3>3. f = p + Len(v[p].chunk.body)
      BY <3>1
    <3> HIDE DEF f
    <3>4. e[p-1] = d[p-1] /\ e[f] = d[f]
      BY <1>2, <1>7, <2>1, <3>2
    <3>5. v[f+1].k = 1
      <4>1. CASE f < m
        <5>1. f + 1 \in 1..m
          BY <1>2, <3>2, <4>1
        <5> QED
          BY <1>3, <3>1, <4>1, <5>1
      <4>2. CASE f = m
        BY <1>9, <4>2
      <4> QED
        BY <1>2, <3>2, <4>1, <4>2
    <3>6. f <= n
      <4>1. f \in 1..m
        BY <3>2
      <4>2. m \in Nat /\ n \in Nat /\ m <= n
        <5>1. m \in Nat /\ l \in Nat
          BY <1>1, <1>2
        <5> QED
          BY <5>1
      <4> HIDE DEF n, m
      <4> QED
        BY <4>1, <4>2
    <3>7. Carries(e[p-1], v[p].chunk, e[f])
      BY <3>1, <3>4
    <3> QED
      BY <3>3, <3>5, <3>6, <3>7
  <2>2. CASE p = m + 1
    <3>1. v[p].chunk = c /\ p + Len(v[p].chunk.body) = n
      BY <1>1, <1>2, <1>9, <2>2 DEF l
    <3>2. e[p-1] = d[m] /\ e[n] = y
      BY <1>2, <1>7, <1>8, <2>2
    <3>3. Carries(d[m], c, y)
      BY DEF m
    <3> HIDE DEF n
    <3>4. Carries(e[p-1], v[p].chunk, e[n])
      BY <3>1, <3>2, <3>3
    <3> QED
      BY <1>2, <3>1, <3>4
  <2>3. p \in 1..m \/ p = m + 1 \/ p \in (m+2)..n
    BY <1>1, <1>2
  <2> QED
    BY <1>9, <1>11, <2>1, <2>2, <2>3
<1>12. ASSUME NEW p \in 0..n PROVE Before(e[p].given, e[n].given)
  <2>1. CASE p \in 0..m
    <3>1. Before(d[p].given, d[m].given) /\ Before(d[m].given, y.given) /\ e[p] = d[p] /\ e[n] = y
      BY <1>4, <1>7, <1>8, <2>1 DEF m
    <3>2. d[p] \in States /\ d[m] \in States /\ y \in States
      BY <1>2, <1>4, <2>1
    <3>3. Len(d[p].given) \in Nat /\ Len(d[m].given) \in Nat /\ Len(y.given) \in Nat
      BY <3>2 DEF States
    <3> DEFINE a == d[p].given
               b == d[m].given
               z == y.given
    <3>5. Before(a, b) /\ Before(b, z) /\ Len(a) \in Nat /\ Len(b) \in Nat /\ Len(z) \in Nat
      BY <3>1, <3>3
    <3> HIDE DEF a, b, z
    <3>6. Before(a, z)
      <4>1. \A i \in 1..Len(a) : i \in 1..Len(b)
        BY <3>5 DEF Before
      <4> QED
        BY <3>5, <4>1 DEF Before
    <3>4. Before(d[p].given, y.given)
      BY <3>6 DEF a, z
    <3> QED
      BY <3>1, <3>4
  <2>2. CASE p \in (m+1)..n
    <3>1. e[p] = y /\ e[n] = y /\ Len(y.given) \in Nat
      BY <1>7, <1>8, <2>2 DEF States
    <3> QED
      BY <3>1 DEF Before
  <2> QED
    BY <1>1, <1>2, <2>1, <2>2
<1>13. Stream(v, e)
  BY <1>2, <1>7, <1>10, <1>11, <1>12 DEF Stream
<1> QED
  BY <1>2, <1>8, <1>13 DEF v

\* What is left of it after the chunks before a border.
LEMMA Shortening ==
    ASSUME NEW u \in Seq(UnitSet), NEW d, Stream(u, d), NEW b \in 0..Len(u), Border(u, b)
    PROVE  \E e : /\ Stream(SubSeq(u, b + 1, Len(u)), e) /\ e[0] = d[b]
                  /\ e[Len(SubSeq(u, b + 1, Len(u)))] = d[Len(u)]
<1> DEFINE v == SubSeq(u, b + 1, Len(u))
           m == Len(u)
           n == m - b
           e == [p \in 0..n |-> d[p + b]]
<1>1. m \in Nat /\ n \in Nat /\ b \in Nat /\ m = n + b /\ b <= m
  OBVIOUS
<1>2. v \in Seq(UnitSet) /\ Len(v) = n /\ \A p \in 1..n : v[p] = u[p + b]
  <2>1. m \in Nat /\ b \in Nat /\ b <= m /\ m <= Len(u) /\ u \in Seq(UnitSet)
    BY <1>1
  <2> HIDE DEF m
  <2>2. /\ SubSeq(u, b + 1, m) \in Seq(UnitSet) /\ Len(SubSeq(u, b + 1, m)) = m - b
        /\ \A p \in 1..(m - b) : SubSeq(u, b + 1, m)[p] = u[p + b]
    BY <2>1, Rest
  <2> QED
    BY <2>2 DEF m
<1>3. /\ d \in [0..m -> States]
      /\ \A p \in 1..m : u[p].k = 1 =>
           /\ p + Len(u[p].chunk.body) <= m /\ (p + Len(u[p].chunk.body) < m => u[p + Len(u[p].chunk.body) + 1].k = 1)
           /\ Carries(d[p-1], u[p].chunk, d[p + Len(u[p].chunk.body)])
      /\ \A p \in 0..m : Before(d[p].given, d[m].given)
  BY DEF Stream
<1>4. \A p \in 1..m : Len(u[p].chunk.body) \in Nat
  BY UnitIn
<1>5. b = m \/ u[b+1].k = 1
  BY DEF Border
<1>6. v = <<>> <=> n = 0
  <2> HIDE DEF v, n
  <2> QED
    BY <1>2
<1> HIDE DEF v, m
<1>7. e \in [0..n -> States] /\ \A p \in 0..n : e[p] = d[p + b]
  BY <1>1, <1>3
<1>8. e[0] = d[b] /\ e[n] = d[m]
  BY <1>1, <1>7
<1> HIDE DEF n, e
<1>9. v # <<>> => v[1].k = 1
  <2>1. ASSUME n # 0 PROVE v[1].k = 1
    <3>1. v[1] = u[1 + b] /\ 1 + b = b + 1 /\ b # m
      BY <1>1, <1>2, <2>1
    <3> QED
      BY <1>5, <3>1
  <2> QED
    BY <1>6, <2>1
<1>10. ASSUME NEW p \in 1..n, v[p].k = 1
       PROVE  LET f == p + Len(v[p].chunk.body) IN
              f <= n /\ (f < n => v[f+1].k = 1) /\ Carries(e[p-1], v[p].chunk, e[f])
  <2> DEFINE q == p + b
             l == Len(u[q].chunk.body)
  <2>1. q \in 1..m /\ v[p] = u[q] /\ u[q].k = 1
    BY <1>1, <1>2, <1>10
  <2>2. l \in Nat /\ q + l <= m /\ (q + l < m => u[q + l + 1].k = 1) /\ Carries(d[q-1], u[q].chunk, d[q + l])
    BY <1>3, <1>4, <2>1
  <2>3. l = Len(v[p].chunk.body)
    BY <2>1
  <2> HIDE DEF l
  <2>4. p + l <= n /\ p + l \in 1..n /\ p - 1 \in 0..n /\ (p + l) + b = q + l /\ (p - 1) + b = q - 1 /\ p + l \in 0..n
    BY <1>1, <2>2
  <2>5. e[p-1] = d[q-1] /\ e[p+l] = d[q+l]
    BY <1>7, <2>4
  <2>6. ASSUME p + l < n PROVE v[p+l+1].k = 1
    <3>1. p + l + 1 \in 1..n /\ (p + l + 1) + b = q + l + 1 /\ q + l < m
      BY <1>1, <2>2, <2>4, <2>6
    <3>2. v[p+l+1] = u[q+l+1]
      BY <1>2, <3>1
    <3> QED
      BY <2>2, <3>1, <3>2
  <2> HIDE DEF q
  <2>7. Carries(e[p-1], v[p].chunk, e[p+l])
    BY <2>1, <2>2, <2>5
  <2> QED
    BY <2>3, <2>4, <2>6, <2>7
<1>11. ASSUME NEW p \in 0..n PROVE Before(e[p].given, e[n].given)
  <2>1. p + b \in 0..m
    BY <1>1
  <2> QED
    BY <1>3, <1>7, <1>8, <2>1
<1>12. Stream(v, e)
  BY <1>2, <1>7, <1>9, <1>10, <1>11 DEF Stream
<1> QED
  BY <1>2, <1>8, <1>12 DEF v, m

\* The chunks take the client from one state to another.
Carried(chunks, x, y) ==
    \E h \in [0..Len(chunks) -> States] :
      h[0] = x /\ h[Len(chunks)] = y /\ \A i \in 1..Len(chunks) : Carries(h[i-1], chunks[i], h[i])

\* A chunk more.
LEMMA CarriedOn ==
    ASSUME NEW chunks \in Seq(OwnChunks), NEW x, NEW y, NEW z \in States, NEW c \in OwnChunks,
           Carried(chunks, x, y), Carries(y, c, z)
    PROVE  Carried(Append(chunks, c), x, z)
<1> DEFINE n == Len(chunks)
           more == Append(chunks, c)
<1>1. PICK h \in [0..n -> States] : h[0] = x /\ h[n] = y /\ \A i \in 1..n : Carries(h[i-1], chunks[i], h[i])
  BY DEF Carried
<1>2. n \in Nat /\ Len(more) = n + 1 /\ more[n+1] = c /\ \A i \in 1..n : more[i] = chunks[i]
  OBVIOUS
<1> HIDE DEF n, more
<1> DEFINE g == [i \in 0..(n+1) |-> IF i <= n THEN h[i] ELSE z]
<1>3. g \in [0..(n+1) -> States] /\ g[0] = x /\ g[n+1] = z /\ (\A i \in 0..n : g[i] = h[i])
  BY <1>1, <1>2
<1> HIDE DEF g
<1>4. ASSUME NEW i \in 1..(n+1) PROVE Carries(g[i-1], more[i], g[i])
  <2>1. CASE i \in 1..n
    <3>1. i - 1 \in 0..n /\ i \in 0..n
      BY <1>2, <2>1
    <3>2. g[i-1] = h[i-1] /\ g[i] = h[i] /\ more[i] = chunks[i]
      BY <1>2, <1>3, <2>1, <3>1
    <3> QED
      BY <1>1, <2>1, <3>2
  <2>2. CASE i = n + 1
    <3>1. i - 1 = n /\ n \in 0..n
      BY <1>2, <2>2
    <3>2. g[i-1] = y /\ g[i] = z /\ more[i] = c
      BY <1>1, <1>2, <1>3, <2>2, <3>1
    <3> QED
      BY <3>2
  <2> QED
    BY <1>2, <2>1, <2>2
<1> QED
  BY <1>2, <1>3, <1>4 DEF Carried, more

\* Whole chunks have been taken off.
Cut(u, d, n, c) ==
    /\ c \in Cuts /\ ~c.garbage /\ c.until <= n /\ Border(u, c.until)
    /\ Carried(c.chunks, d[0], d[c.until])

\* Each round of completeChunksUntil cuts at a border again.
LEMMA CuttingOn ==
    ASSUME NEW u \in Seq(UnitSet), NEW d, Stream(u, d), NEW n \in 0..Len(u), NEW msg \in Seq(UnitSet), Len(msg) = n,
           \A p \in 1..n : msg[p] = u[p], NEW c, Cut(u, d, n, c)
    PROVE  Cut(u, d, n, NextChunk(msg, c))
<1>1. c.until \in Nat /\ n \in Nat /\ Len(u) \in Nat /\ n <= Len(u) /\ c.chunks \in Seq(OwnChunks) /\ c.until <= n /\ ~c.garbage
  BY DEF Cut, Cuts
<1>2. CASE c.until = n
  BY <1>1, <1>2 DEF NextChunk
<1>3. CASE c.until < n
  <2> DEFINE p == c.until + 1
             l == Len(u[p].chunk.body)
             e == p + l
             first == u[p]
  <2>1. p \in 1..n /\ p \in 1..Len(u) /\ p - 1 = c.until /\ p \in Nat /\ msg[p] = u[p] /\ c.until # Len(u)
    BY <1>1, <1>3
  <2>2. first.chunk \in OwnChunks /\ l \in Nat
    BY <2>1, UnitIn
  <2>3. first.k = 1
    BY <2>1 DEF Cut, Border
  <2>4. e <= Len(u) /\ (e < Len(u) => u[e+1].k = 1) /\ Carries(d[c.until], first.chunk, d[e]) /\ d \in [0..Len(u) -> States]
    BY <2>1, <2>3 DEF Stream
  <2> HIDE DEF l
  <2>5. e \in 0..Len(u) /\ e \in Nat /\ Border(u, e)
    BY <1>1, <2>1, <2>2, <2>4 DEF Border
  <2>6. NextChunk(msg, c) = (IF e > n THEN c ELSE [c EXCEPT !.until = e, !.chunks = Append(@, first.chunk)])
    BY <1>1, <1>3, <2>1, <2>3 DEF NextChunk, l
  <2> HIDE DEF e, first, p
  <2>7. CASE e <= n
    <3> DEFINE a == [c EXCEPT !.until = e, !.chunks = Append(@, first.chunk)]
    <3>1. /\ Append(c.chunks, first.chunk) \in Seq(OwnChunks)
      BY <1>1, <2>2
    <3>2. a \in Cuts /\ a.until = e /\ a.chunks = Append(c.chunks, first.chunk) /\ a.garbage = c.garbage
      <4>1. c \in Cuts
        BY DEF Cut
      <4> QED
        BY <2>5, <3>1, <4>1 DEF Cuts
    <3>3. NextChunk(msg, c) = a
      BY <1>1, <2>5, <2>6, <2>7
    <3> HIDE DEF a
    <3>4. d[e] \in States /\ Carried(c.chunks, d[0], d[c.until])
      BY <2>4, <2>5 DEF Cut
    <3>5. Carried(Append(c.chunks, first.chunk), d[0], d[e])
      BY <1>1, <2>2, <2>4, <3>4, CarriedOn
    <3> QED
      BY <1>1, <2>5, <2>7, <3>2, <3>3, <3>5 DEF Cut
  <2>8. CASE e > n
    BY <2>6, <2>8
  <2> QED
    BY <1>1, <2>5, <2>7, <2>8
<1> QED
  BY <1>1, <1>2, <1>3

\* Any part of the stream is cut at a border.
LEMMA CutAtBorder ==
    ASSUME NEW u \in Seq(UnitSet), NEW d, Stream(u, d), NEW n \in 0..Len(u), NEW msg \in Seq(UnitSet), Len(msg) = n,
           \A p \in 1..n : msg[p] = u[p]
    PROVE  Cut(u, d, n, completeChunksUntil(msg))
<1>1. PICK g \in [0..Len(msg) -> {c \in Cuts : c.until <= Len(msg)}] :
             /\ g[0] = NoChunk /\ \A k \in 1..Len(msg) : g[k] = NextChunk(msg, g[k-1])
             /\ completeChunksUntil(msg) = g[Len(msg)]
  BY CutRuns
<1> DEFINE P == {k \in 0..n : Cut(u, d, n, g[k])}
<1>2. n \in Nat /\ Len(u) \in Nat
  OBVIOUS
<1>3. 0 \in P
  <2>1. 0 \in 0..n /\ g[0] \in Cuts /\ g[0] = NoChunk
    BY <1>1, <1>2
  <2>2. NoChunk.until = 0 /\ NoChunk.garbage = FALSE /\ NoChunk.chunks = <<>>
    BY DEF NoChunk
  <2>3. Border(u, 0)
    <3>1. u = <<>> \/ u[1].k = 1
      BY DEF Stream
    <3> QED
      BY <3>1 DEF Border
  <2>4. Carried(<<>>, d[0], d[0])
    <3>1. d[0] \in States
      BY <1>2 DEF Stream
    <3> DEFINE h == [i \in 0..0 |-> d[0]]
    <3>2. h \in [0..Len(<<>>) -> States] /\ h[0] = d[0] /\ Len(<<>>) = 0
      BY <3>1
    <3> HIDE DEF h
    <3> QED
      BY <3>2 DEF Carried
  <2>5. Cut(u, d, n, NoChunk)
    <3>1. 0 <= n
      BY <1>2
    <3> QED
      BY <2>1, <2>2, <2>3, <2>4, <3>1 DEF Cut
  <2> QED
    BY <2>1, <2>5
<1>4. ASSUME NEW k \in 1..n, k - 1 \in P PROVE k \in P
  <2>1. Cut(u, d, n, g[k-1]) /\ k \in 0..n /\ g[k] = NextChunk(msg, g[k-1])
    BY <1>1, <1>2, <1>4
  <2>2. Cut(u, d, n, NextChunk(msg, g[k-1]))
    BY <2>1, CuttingOn
  <2> QED
    BY <2>1, <2>2
<1>5. P = 0..n
  <2>1. P \in SUBSET (0..n)
    OBVIOUS
  <2> HIDE DEF P
  <2> QED
    BY <1>2, <1>3, <1>4, <2>1, UpTo
<1>6. n \in P
  BY <1>2, <1>5
<1> QED
  BY <1>1, <1>6

\* Chunks that follow each other are not refused, and carry the client on.
LEMMA CarriedAlong ==
    ASSUME ChannelInv, NEW chunks \in Seq(OwnChunks), NEW x, NEW y, Carried(chunks, x, y), caller.token = 1,
           x.seq = caller.seq, x.parts = caller.parts, x.given = given, NEW short, short[2] = "none"
    PROVE  LET r == processChunks(chunks, short) IN ~r.refused /\ r.seq = y.seq /\ r.parts = y.parts /\ r.given = y.given
<1> DEFINE n == Len(chunks)
<1>1. PICK g \in [0..n -> Readers] :
           /\ g[0] = Start /\ \A k \in 1..n : g[k] = processChunk(g[k-1], chunks[k], FailsAt(short, k))
           /\ processChunks(chunks, short) = g[n]
  BY ProcessRuns
<1>2. PICK h \in [0..n -> States] : h[0] = x /\ h[n] = y /\ \A i \in 1..n : Carries(h[i-1], chunks[i], h[i])
  BY DEF Carried
<1> DEFINE Same(k) == ~g[k].refused /\ g[k].token = 1 /\ g[k].seq = h[k].seq /\ g[k].parts = h[k].parts /\ g[k].given = h[k].given
           P == {k \in 0..n : Same(k)}
<1>3. n \in Nat
  OBVIOUS
<1>4. 0 \in P
  <2>1. Start.refused = FALSE /\ Start.token = 1 /\ Start.seq = x.seq /\ Start.parts = x.parts /\ Start.given = x.given
    BY DEF Start
  <2>2. ~Start.refused
    BY <2>1
  <2>3. Same(0)
    BY <1>1, <1>2, <2>1, <2>2
  <2> QED
    BY <1>3, <2>3
<1>5. ASSUME NEW k \in 1..n, k - 1 \in P PROVE k \in P
  <2> DEFINE r == g[k-1]
             c == chunks[k]
             z == h[k-1]
  <2>1. k \in 0..n /\ k - 1 \in 0..n /\ c \in OwnChunks /\ r \in Readers /\ g[k] = processChunk(r, c, FailsAt(short, k)) /\ FailsAt(short, k) = "none"
    BY <1>1, <1>3 DEF FailsAt
  <2>2. ~r.refused /\ r.token = 1 /\ r.seq = z.seq /\ r.parts = z.parts /\ r.given = z.given
    BY <1>5
  <2>3. /\ c.type = "MSG" /\ c.token = 1 /\ c.seq = Plus(z.seq, 1)
        /\ h[k].seq = c.seq /\ h[k].parts = PartsAfter(z, c) /\ h[k].given = GivenAfter(z, c)
    BY <1>2 DEF Carries
  <2> HIDE DEF r, c, z
  <2>4. SequenceMatches(c.seq, r.seq)
    BY <2>2, <2>3 DEF SequenceMatches
  <2>5. PartsAfter(r, c) = PartsAfter(z, c) /\ GivenAfter(r, c) = GivenAfter(z, c)
    BY <2>2 DEF PartsAfter, GivenAfter, Collected
  <2>6. /\ processChunk(r, c, FailsAt(short, k)).token = r.token
        /\ ~processChunk(r, c, FailsAt(short, k)).refused /\ processChunk(r, c, FailsAt(short, k)).seq = c.seq
        /\ processChunk(r, c, FailsAt(short, k)).parts = PartsAfter(r, c) /\ processChunk(r, c, FailsAt(short, k)).given = GivenAfter(r, c)
    <3>1. c.type = "MSG" /\ ~r.refused /\ c.token = r.token /\ SequenceMatches(c.seq, r.seq) /\ FailsAt(short, k) = "none"
      BY <2>1, <2>2, <2>3, <2>4
    <3>2. r \in Readers /\ c \in OwnChunks
      BY <2>1
    <3> QED
      BY <3>1, <3>2, Processing, Zenon
  <2>7. Same(k)
    BY <2>1, <2>2, <2>3, <2>5, <2>6
  <2> QED
    BY <2>1, <2>7
<1>6. P = 0..n
  <2>1. P \in SUBSET (0..n)
    OBVIOUS
  <2> HIDE DEF P
  <2> QED
    BY <1>3, <1>4, <1>5, <2>1, UpTo
<1>7. Same(n)
  <2>1. n \in P
    BY <1>3, <1>6
  <2> QED
    BY <2>1
<1> QED
  BY <1>1, <1>2, <1>7

\* Two sequences with the same elements.
LEMMA SameSeq ==
    ASSUME NEW S, NEW s \in Seq(S), NEW t \in Seq(S), Len(s) = Len(t), \A i \in 1..Len(s) : s[i] = t[i]
    PROVE  s = t
  OBVIOUS

LEMMA Regrouped ==
    ASSUME NEW S, NEW a \in Seq(S), NEW b \in Seq(S), NEW c \in Seq(S)
    PROVE  (a \o b) \o c = a \o (b \o c)
  OBVIOUS

\* The beginning of a sequence and what follows.
LEMMA Pieces ==
    ASSUME NEW S, NEW s \in Seq(S), NEW a \in Nat, NEW b \in Nat, a <= b, b <= Len(s)
    PROVE  SubSeq(s, 1, a) \o SubSeq(s, a + 1, b) = SubSeq(s, 1, b)
<1> DEFINE x == SubSeq(s, 1, a)
           y == SubSeq(s, a + 1, b)
           z == SubSeq(s, 1, b)
<1>1. Len(s) \in Nat
  OBVIOUS
<1>2. x \in Seq(S) /\ Len(x) = a /\ \A p \in 1..a : x[p] = s[p]
  BY <1>1
<1>3. y \in Seq(S) /\ Len(y) = b - a /\ \A p \in 1..(b - a) : y[p] = s[p + a]
  BY <1>1, Rest
<1>4. z \in Seq(S) /\ Len(z) = b /\ \A p \in 1..b : z[p] = s[p]
  BY <1>1
<1> HIDE DEF x, y, z
<1>5. /\ x \o y \in Seq(S) /\ Len(x \o y) = b
      /\ \A p \in 1..a : (x \o y)[p] = x[p]
      /\ \A j \in 1..(b - a) : (x \o y)[a + j] = y[j]
  <2>1. /\ x \o y \in Seq(S) /\ Len(x \o y) = Len(x) + Len(y)
        /\ \A p \in 1..Len(x) : (x \o y)[p] = x[p]
        /\ \A j \in 1..Len(y) : (x \o y)[Len(x) + j] = y[j]
    <3>1. x \in Seq(S) /\ y \in Seq(S)
      BY <1>2, <1>3
    <3> QED
      BY <3>1, Joined
  <2>2. a + (b - a) = b
    OBVIOUS
  <2> QED
    BY <1>2, <1>3, <2>1, <2>2
<1>6. ASSUME NEW p \in 1..b PROVE (x \o y)[p] = z[p]
  <2>1. CASE p <= a
    <3>1. p \in 1..a
      BY <2>1
    <3> QED
      BY <1>2, <1>4, <1>5, <3>1
  <2>2. CASE p > a
    <3>1. p - a \in 1..(b - a) /\ a + (p - a) = p /\ (p - a) + a = p
      BY <2>2
    <3>2. (x \o y)[p] = y[p - a] /\ y[p - a] = s[p]
      BY <1>3, <1>5, <3>1
    <3> QED
      BY <1>4, <3>2
  <2>3. p <= a \/ p > a
    OBVIOUS
  <2> QED
    BY <2>1, <2>2, <2>3
<1>7. x \o y = z
  BY <1>4, <1>5, <1>6, SameSeq
<1> QED
  BY <1>7 DEF x, y, z

\* Quotient and remainder, and that there is only one remainder.
LEMMA DividedAs ==
    ASSUME NEW R \in Nat \ {0}, NEW x \in Int
    PROVE  x % R \in 0..(R - 1) /\ x \div R \in Int /\ x = R * (x \div R) + (x % R)
  OBVIOUS

LEMMA DividedOnce ==
    ASSUME NEW R \in Nat \ {0}, NEW q \in Int, NEW r \in 0..(R - 1), NEW p \in Int, NEW s \in 0..(R - 1), R * q + r = R * p + s
    PROVE  r = s
<1>1. CASE q > p
  <2>1. R * (q - p) = s - r
    OBVIOUS
  <2>2. q - p >= 1 /\ q - p \in Int
    BY <1>1
  <2>3. R * (q - p) >= R
    BY <2>2
  <2> QED
    BY <2>1, <2>3
<1>2. CASE q < p
  <2>1. R * (p - q) = r - s
    OBVIOUS
  <2>2. p - q >= 1 /\ p - q \in Int
    BY <1>2
  <2>3. R * (p - q) >= R
    BY <2>2
  <2> QED
    BY <2>1, <2>3
<1>3. CASE q = p
  BY <1>3
<1> QED
  BY <1>1, <1>2, <1>3

\* The number after a number.
LEMMA NextNumber ==
    ASSUME ChannelConstants, NEW s \in Nat, NEW k \in Nat
    PROVE  Plus(Plus(s, k), 1) = Plus(s, k + 1)
<1>0. SeqRange \in Nat \ {0}
  BY DEF ChannelConstants
<1> DEFINE R == SeqRange
           x == s + k
           q == x \div R
           r == x % R
           p == (r + 1) \div R
           v == (r + 1) % R
           t == (x + 1) \div R
           u == (x + 1) % R
<1>1. x \in Int /\ q \in Int /\ r \in 0..(R - 1) /\ x = R * q + r
  <2>1. x \in Int
    OBVIOUS
  <2> HIDE DEF x
  <2> QED
    BY <1>0, <2>1, DividedAs
<1>a. Plus(Plus(s, k), 1) = v /\ Plus(s, k + 1) = u
  <2>1. s + (k + 1) = x + 1
    OBVIOUS
  <2> QED
    BY <2>1 DEF Plus
<1> HIDE DEF x, R
<1>2. r + 1 \in Int /\ x + 1 \in Int /\ R \in Nat \ {0}
  BY <1>0, <1>1 DEF R
<1> HIDE DEF q, r
<1>3. p \in Int /\ v \in 0..(R - 1) /\ r + 1 = R * p + v
  BY <1>2, DividedAs
<1>4. t \in Int /\ u \in 0..(R - 1) /\ x + 1 = R * t + u
  BY <1>2, DividedAs
<1> HIDE DEF p, v, t, u
<1> DEFINE a == q + p
<1>5. R * a + v = R * t + u
  BY <1>1, <1>2, <1>3, <1>4
<1>6. a \in Int
  BY <1>1, <1>3
<1> HIDE DEF a
<1>7. v = u
  BY <1>2, <1>3, <1>4, <1>5, <1>6, DividedOnce
<1> QED
  BY <1>7, <1>a

\* What has been collected of an answer when its k-th chunk has been taken.
SoFar(x, req) == IF req \in DOMAIN x.parts THEN x.parts[req] ELSE <<>>

\* The state after k chunks of an answer.
After(x, k, req, body, whole) ==
    /\ x \in States
    /\ x.seq = (IF k = 0 THEN server.seq ELSE Plus(server.seq, k))
    /\ x.given = (IF k = LastChunk(body) THEN whole ELSE sent)
    /\ k = LastChunk(body) => DOMAIN x.parts = {}
    /\ k < LastChunk(body) => DOMAIN x.parts \subseteq {req} /\ SoFar(x, req) = SubSeq(body, 1, k * SendBuffer)

\* The next chunk of the answer goes on from there.
LEMMA OneMore ==
    ASSUME ChannelConstants, server \in [seq : Nat, token : Nat, next : Nat, last : Nat], server.token = 1, sent \in Seq(Seq(Bits)),
           NEW req \in Nat, NEW body \in Seq(Bits), Len(body) >= 1, \A i \in 1..Len(body) : body[i].req = req,
           NEW k \in 1..LastChunk(body), NEW whole,
           whole = (IF TooLarge(body, LastChunk(body)) THEN sent ELSE Append(sent, body)),
           NEW x, After(x, k - 1, req, body, whole), ChunkOf(server, req, body, k) \in OwnChunks
    PROVE  \E y \in States : /\ Carries(x, ChunkOf(server, req, body, k), y) /\ After(y, k, req, body, whole)
                             /\ Before(x.given, y.given)
<1> DEFINE n == LastChunk(body)
           c == ChunkOf(server, req, body, k)
           y == [seq |-> c.seq, parts |-> PartsAfter(x, c), given |-> GivenAfter(x, c)]
           aborted == TooLarge(body, n)
           a == (k - 1) * SendBuffer
           m == Len(body)
           b == IF a + SendBuffer < m THEN a + SendBuffer ELSE m
<1>1. n \in Nat /\ n >= 1 /\ m \in Nat /\ SendBuffer \in Nat /\ k \in Nat \ {0}
  <2>1. LastChunk(body) \in 1..Len(body)
    BY Ends
  <2>2. Len(body) \in Nat /\ SendBuffer \in Nat
    BY DEF ChannelConstants
  <2>3. k \in 1..LastChunk(body)
    OBVIOUS
  <2> QED
    BY <2>1, <2>2, <2>3
<1>2. /\ c.type = "MSG" /\ c.seq = Plus(server.seq, k) /\ c.req = req /\ c.token = 1
      /\ c.kind = (IF k < n THEN "C" ELSE IF aborted THEN "A" ELSE "F")
      /\ c.body = (IF k = n /\ aborted THEN <<"error">> ELSE Slice(body, k))
  BY DEF ChunkOf
<1>3. a \in Nat /\ b \in 0..m /\ Slice(body, k) = SubSeq(body, a + 1, b)
  BY <1>1, Slicing
<1>4. k * SendBuffer = a + SendBuffer
  <2>1. \A p, q \in Nat : (p + 1) * q = p * q + q
    OBVIOUS
  <2>2. k - 1 \in Nat /\ k = (k - 1) + 1
    BY <1>1
  <2> QED
    BY <1>1, <2>1, <2>2
<1>5. /\ k > 1 => a < m
      /\ k < n => a + SendBuffer < m
      /\ k = n /\ ~aborted => a + SendBuffer >= m
  <2>1. \A j \in 1..(n - 1) : j * SendBuffer < m
    BY Ends
  <2>2. ~aborted => n * SendBuffer >= m
    BY Ends
  <2>3. k > 1 => k - 1 \in 1..(n - 1)
    BY <1>1
  <2>4. k < n => k \in 1..(n - 1)
    BY <1>1
  <2> HIDE DEF m, n, aborted
  <2> QED
    BY <1>4, <2>1, <2>2, <2>3, <2>4
<1>6. a <= b
  <2>1. k = 1 => a = 0
    BY <1>1
  <2> HIDE DEF a, m
  <2>2. a <= m
    BY <1>1, <1>3, <1>5, <2>1
  <2> QED
    BY <1>1, <1>3, <2>2
<1>7. /\ x \in States /\ x.seq = (IF k = 1 THEN server.seq ELSE Plus(server.seq, k - 1)) /\ x.given = sent
      /\ DOMAIN x.parts \subseteq {req} /\ SoFar(x, req) = SubSeq(body, 1, a)
  <2>1. k - 1 < n /\ k - 1 # n /\ (k - 1 = 0 <=> k = 1)
    BY <1>1
  <2> QED
    BY <2>1 DEF After
<1> HIDE DEF n, c, aborted, a, m, b
<1>8. c.seq = Plus(x.seq, 1)
  <2>1. CASE k = 1
    BY <1>2, <1>7, <2>1
  <2>2. CASE k # 1
    <3>1. k - 1 \in Nat /\ (k - 1) + 1 = k /\ server.seq \in Nat
      BY <1>1
    <3>2. Plus(Plus(server.seq, k - 1), 1) = Plus(server.seq, (k - 1) + 1)
      BY <3>1, NextNumber
    <3> QED
      BY <1>2, <1>7, <2>2, <3>1, <3>2
  <2> QED
    BY <2>1, <2>2
<1>9. y \in States
  <2>1. c \in OwnChunks
    BY DEF c
  <2> QED
    BY <1>2, <1>7, <2>1, Stepping
<1>10. y.seq = c.seq /\ y.parts = PartsAfter(x, c) /\ y.given = GivenAfter(x, c)
  OBVIOUS
<1>11. Carries(x, c, y)
  BY <1>2, <1>8, <1>10 DEF Carries
<1> HIDE DEF y
<1>12. Collected(x, c) = SubSeq(body, 1, a) \o c.body
  BY <1>2, <1>7 DEF Collected, SoFar
<1>13. ASSUME c.body = Slice(body, k) PROVE Collected(x, c) = SubSeq(body, 1, b)
  <2>1. SubSeq(body, 1, a) \o SubSeq(body, a + 1, b) = SubSeq(body, 1, b)
    <3>1. b \in Nat /\ b <= Len(body)
      BY <1>1, <1>3 DEF m
    <3> QED
      BY <1>3, <1>6, <3>1, Pieces
  <2> QED
    BY <1>3, <1>12, <1>13, <2>1
<1>14. CASE k < n
  <2>1. c.kind = "C" /\ c.body = Slice(body, k)
    BY <1>1, <1>2, <1>14
  <2>2. Collected(x, c) = SubSeq(body, 1, k * SendBuffer)
    <3>1. b = a + SendBuffer
      BY <1>5, <1>14 DEF b
    <3> QED
      BY <1>4, <1>13, <2>1, <3>1
  <2>3. y.parts = [q \in DOMAIN x.parts \cup {req} |-> IF q = req THEN Collected(x, c) ELSE x.parts[q]]
    BY <1>2, <1>10, <2>1 DEF PartsAfter
  <2>4. DOMAIN y.parts = {req} /\ y.parts[req] = Collected(x, c)
    BY <1>7, <2>3
  <2>5. y.given = sent
    BY <1>7, <1>10, <2>1 DEF GivenAfter
  <2>6. SoFar(y, req) = SubSeq(body, 1, k * SendBuffer)
    BY <2>2, <2>4 DEF SoFar
  <2>7. After(y, k, req, body, whole)
    <3>1. k # n /\ k # 0 /\ k # LastChunk(body)
      BY <1>1, <1>14 DEF n
    <3> QED
      BY <1>2, <1>9, <1>10, <2>4, <2>5, <2>6, <3>1 DEF After
  <2>8. Before(x.given, y.given)
    BY <1>7, <2>5 DEF Before
  <2> QED
    BY <1>9, <1>11, <2>7, <2>8 DEF c
<1>15. CASE k = n
  <2>1. c.kind # "C" /\ (c.kind = "F" <=> ~aborted)
    BY <1>1, <1>2, <1>15
  <2>2. y.parts = [q \in DOMAIN x.parts \ {req} |-> x.parts[q]]
    BY <1>2, <1>10, <2>1 DEF PartsAfter
  <2>3. DOMAIN y.parts = {}
    BY <1>7, <2>2
  <2>4. y.given = whole
    <3>1. CASE aborted
      BY <1>7, <1>10, <2>1, <3>1 DEF GivenAfter, aborted, n
    <3>2. CASE ~aborted
      <4>1. c.body = Slice(body, k)
        BY <1>2, <3>2
      <4>2. b = m
        BY <1>1, <1>3, <1>5, <1>15, <3>2 DEF b
      <4>3. SubSeq(body, 1, m) = body
        BY DEF m
      <4>4. Collected(x, c) = body
        BY <1>13, <4>1, <4>2, <4>3
      <4>5. whole = Append(sent, body)
        BY <3>2 DEF aborted, n
      <4> QED
        BY <1>7, <1>10, <2>1, <3>2, <4>4, <4>5 DEF GivenAfter
    <3> QED
      BY <3>1, <3>2
  <2>5. After(y, k, req, body, whole)
    <3>1. k = LastChunk(body) /\ k # 0 /\ ~(k < LastChunk(body))
      BY <1>1, <1>15 DEF n
    <3> QED
      BY <1>2, <1>9, <1>10, <2>3, <2>4, <3>1 DEF After
  <2>6. Before(x.given, y.given)
    <3>1. whole = sent \/ whole = Append(sent, body)
      OBVIOUS
    <3>2. /\ Len(sent) \in Nat /\ Len(Append(sent, body)) = Len(sent) + 1
          /\ \A i \in 1..Len(sent) : Append(sent, body)[i] = sent[i]
      OBVIOUS
    <3> QED
      BY <1>7, <2>4, <3>1, <3>2 DEF Before
  <2> QED
    BY <1>9, <1>11, <2>5, <2>6 DEF c
<1> QED
  BY <1>1, <1>14, <1>15 DEF n

\* Units put at the end of a part are at the end of the whole.
LEMMA LastUnits ==
    ASSUME NEW u \in Seq(UnitSet), NEW w \in Seq(UnitSet), NEW c \in OwnChunks
    PROVE  u \o w \in Seq(UnitSet) /\ u \o (w \o Units(c)) = (u \o w) \o Units(c)
<1> DEFINE t == Units(c)
<1>1. t \in Seq(UnitSet)
  BY UnitsOf
<1> HIDE DEF t
<1>2. u \o (w \o t) = (u \o w) \o t
  BY <1>1, Regrouped
<1> QED
  BY <1>2 DEF t

Extended(v, e, d, k, whole) ==
    /\ Stream(v, e) /\ e[0] = d[0]
    /\ e[Len(v)].seq = Plus(server.seq, k) /\ DOMAIN e[Len(v)].parts = {} /\ e[Len(v)].given = whole

\* An answer more at the end.
LEMMA AnswerExtends ==
    ASSUME ChannelConstants, server \in [seq : Nat, token : Nat, next : Nat, last : Nat], server.token = 1, sent \in Seq(Seq(Bits)),
           NEW req \in Nat, NEW body \in Seq(Bits), Len(body) >= 1, \A i \in 1..Len(body) : body[i].req = req,
           NEW chunks, chunks = sendBinaryMessage(server, req, body),
           NEW whole, whole = (IF Last(chunks).kind = "F" THEN Append(sent, body) ELSE sent),
           NEW u \in Seq(UnitSet), NEW d, Stream(u, d),
           d[Len(u)].seq = server.seq, DOMAIN d[Len(u)].parts = {}, d[Len(u)].given = sent
    PROVE  \E e : Extended(u \o OnWire(chunks), e, d, Len(chunks), whole)
<1> DEFINE n == LastChunk(body)
<1>1. /\ chunks \in Seq(OwnChunks) /\ Len(chunks) = n
      /\ \A i \in 1..n : chunks[i] = ChunkOf(server, req, body, i)
  BY Chunking
<1>2. n \in Nat /\ n >= 1 /\ n # 0
  <2>1. n \in 1..Len(body)
    BY Ends
  <2>2. Len(body) \in Nat
    OBVIOUS
  <2> HIDE DEF n
  <2> QED
    BY <2>1, <2>2
<1>3. whole = (IF TooLarge(body, n) THEN sent ELSE Append(sent, body))
  <2>1. Last(chunks) = ChunkOf(server, req, body, n)
    <3>1. n \in 1..n
      BY <1>2
    <3> QED
      BY <1>1, <3>1 DEF Last
  <2>2. Last(chunks).kind = (IF TooLarge(body, n) THEN "A" ELSE "F")
    BY <1>2, <2>1 DEF ChunkOf
  <2> QED
    BY <2>2
<1>4. PICK g \in [0..n -> Seq(UnitSet)] :
        g[0] = <<>> /\ (\A k \in 1..n : g[k] = g[k-1] \o Units(chunks[k])) /\ OnWire(chunks) = g[n]
  BY <1>1, WireRuns
<1> DEFINE Q(k, e) == Stream(u \o g[k], e) /\ e[0] = d[0] /\ After(e[Len(u \o g[k])], k, req, body, whole)
           P == {k \in 0..n : \E e : Q(k, e)}
<1>5. 0 \in P
  <2>1. u \o g[0] = u
    BY <1>4
  <2>2. After(d[Len(u)], 0, req, body, whole)
    <3>1. d[Len(u)] \in States
      <4>1. Len(u) \in 0..Len(u)
        OBVIOUS
      <4> QED
        BY <4>1 DEF Stream
    <3>2. SubSeq(body, 1, 0 * SendBuffer) = <<>>
      <4>1. 0 * SendBuffer = 0
        BY DEF ChannelConstants
      <4> QED
        BY <4>1
    <3>3. SoFar(d[Len(u)], req) = <<>>
      BY DEF SoFar
    <3>4. 0 # LastChunk(body)
      BY <1>2
    <3> QED
      BY <3>1, <3>2, <3>3, <3>4 DEF After
  <2>3. Q(0, d)
    BY <2>1, <2>2
  <2>4. 0 \in 0..n
    BY <1>2
  <2> QED
    BY <2>3, <2>4
<1>6. ASSUME NEW k \in 1..n, k - 1 \in P PROVE k \in P
  <2>1. PICK e : Q(k - 1, e)
    BY <1>6
  <2> DEFINE v == u \o g[k-1]
             c == chunks[k]
  <2>2. k \in 0..n /\ k - 1 \in 0..n /\ g[k-1] \in Seq(UnitSet) /\ c = ChunkOf(server, req, body, k) /\ c \in OwnChunks
    <3>1. k \in 0..n /\ k - 1 \in 0..n
      <4> HIDE DEF n
      <4> QED
        BY <1>2
    <3>2. c = ChunkOf(server, req, body, k) /\ c \in OwnChunks
      BY <1>1
    <3> QED
      BY <3>1, <3>2
  <2>3. v \in Seq(UnitSet) /\ u \o g[k] = v \o Units(c)
    <3>1. Units(c) \in Seq(UnitSet) /\ g[k] = g[k-1] \o Units(c)
      BY <1>4, <2>2, UnitsOf
    <3> DEFINE w == g[k-1]
    <3>2. w \in Seq(UnitSet) /\ c \in OwnChunks
      BY <2>2
    <3> HIDE DEF w, c
    <3>3. u \o w \in Seq(UnitSet) /\ u \o (w \o Units(c)) = (u \o w) \o Units(c)
      BY <3>2, LastUnits
    <3> QED
      BY <3>1, <3>3, Zenon DEF w
  <2> HIDE DEF c
  <2>4. PICK y \in States : Carries(e[Len(v)], c, y) /\ After(y, k, req, body, whole) /\ Before(e[Len(v)].given, y.given)
    <3>1. After(e[Len(v)], k - 1, req, body, whole)
      BY <2>1
    <3>2. ChunkOf(server, req, body, k) \in OwnChunks
      BY <2>2
    <3> HIDE DEF v
    <3> QED
      BY <1>3, <2>2, <3>1, <3>2, OneMore
  <2>5. PICK f : Stream(v \o Units(c), f) /\ f[0] = e[0] /\ f[Len(v \o Units(c))] = y
    <3>1. Stream(v, e)
      BY <2>1
    <3> HIDE DEF v
    <3> QED
      <4>1. v \in Seq(UnitSet)
        BY <2>3
      <4>2. c \in OwnChunks
        BY <2>2
      <4>3. Carries(e[Len(v)], c, y) /\ Before(e[Len(v)].given, y.given)
        BY <2>4
      <4> QED
        BY <3>1, <4>1, <4>2, <4>3, Extending
  <2>6. Q(k, f)
    BY <2>1, <2>3, <2>4, <2>5
  <2> HIDE DEF Q
  <2> QED
    BY <2>2, <2>6
<1>7. P = 0..n
  <2>1. P \in SUBSET (0..n)
    OBVIOUS
  <2> HIDE DEF P, n
  <2> QED
    BY <1>2, <1>5, <1>6, <2>1, UpTo
<1>8. PICK e : Q(n, e)
  <2>1. n \in P
    <3> HIDE DEF P, n
    <3> QED
      BY <1>2, <1>7
  <2> QED
    BY <2>1
<1>9. After(e[Len(u \o g[n])], n, req, body, whole)
  BY <1>8
<1>10. /\ e[Len(u \o g[n])].seq = Plus(server.seq, n) /\ DOMAIN e[Len(u \o g[n])].parts = {}
       /\ e[Len(u \o g[n])].given = whole
  BY <1>2, <1>9 DEF After
<1> QED
  BY <1>1, <1>4, <1>8, <1>10 DEF Extended

\* From the state of the client the stream leads to the state of the server.
Flow(u, here, seq, whole) ==
    \E d : /\ Stream(u, d) /\ d[0] = here
           /\ d[Len(u)].seq = seq /\ DOMAIN d[Len(u)].parts = {} /\ d[Len(u)].given = whole

Here == [seq |-> caller.seq, parts |-> caller.parts, given |-> given]

Intact ==
    /\ call.pc # "renewing" /\ ~refused /\ caller.token = 1 /\ server.token = 1 /\ server.next = 0
    /\ \A i \in 1..Len(requests) : ~requests[i].opn /\ requests[i].token = 1
    /\ Flow(buffered \o wire, Here, server.seq, sent)

\* As long as nothing is lost, the stream is intact.
StreamInv == ~left.used => Intact

\* Nothing is under way at the start.
LEMMA StreamInit == ASSUME ChannelConstants, ChannelInit PROVE StreamInv
<1>1. PICK s \in Scenarios :
    /\ requests = <<>> /\ wire = <<>> /\ buffered = <<>>
    /\ server = [seq |-> s.first, token |-> 1, next |-> 0, last |-> 0]
    /\ caller = [seq |-> s.first, token |-> 1, parts |-> <<>>, requestId |-> 0]
    /\ call = Idle
    /\ sent = <<>> /\ given = <<>> /\ refused = FALSE
  BY DEF ChannelInit
<1>2. ChannelInv
  BY ChannelInvInit
<1>3. /\ caller.seq = s.first /\ caller.token = 1 /\ caller.parts = <<>>
      /\ server.seq = s.first /\ server.token = 1 /\ server.next = 0 /\ call.pc # "renewing" /\ ~refused
  BY <1>1 DEF Idle
<1>4. Here \in States
  BY <1>2 DEF ChannelInv, ChannelTypes, States, Here
<1> DEFINE d == [p \in 0..0 |-> Here]
<1>5. d \in [0..Len(<<>>) -> States] /\ d[0] = Here /\ Len(<<>>) = 0
  BY <1>4
<1> HIDE DEF d
<1>6. Before(d[0].given, d[0].given)
  <2>1. Len(Here.given) \in Nat
    BY <1>4 DEF States
  <2> QED
    BY <1>5, <2>1 DEF Before
<1>7. Stream(<<>>, d)
  <2>1. \A p \in 0..Len(<<>>) : p = 0
    BY <1>5
  <2>2. \A p \in 1..Len(<<>>) : FALSE
    BY <1>5
  <2> QED
    BY <1>5, <1>6, <2>1, <2>2, Zenon DEF Stream
<1>8. Here.seq = server.seq /\ DOMAIN Here.parts = {} /\ Here.given = sent
  BY <1>1, <1>3 DEF Here
<1>9. Flow(<<>>, Here, server.seq, sent)
  BY <1>5, <1>7, <1>8 DEF Flow
<1>10. buffered \o wire = <<>>
  BY <1>1
<1>11. \A i \in 1..Len(requests) : ~requests[i].opn /\ requests[i].token = 1
  BY <1>1
<1> QED
  BY <1>3, <1>9, <1>10, <1>11 DEF StreamInv, Intact

\* With enough memory, what follows the complete chunks stays buffered.
LEMMA Keeping ==
    ASSUME NEW msg, NEW c, ~c.garbage
    PROVE  Separated(msg, c, FALSE)
             = [st |-> "Good", chunks |-> c.chunks,
                keep |-> IF c.until = Len(msg) THEN <<>> ELSE SubSeq(msg, c.until + 1, Len(msg))]
  BY Zenon DEF Separated

LEMMA KeptFields ==
    ASSUME NEW a, NEW b
    PROVE  [st |-> "Good", chunks |-> a, keep |-> b].chunks = a /\ [st |-> "Good", chunks |-> a, keep |-> b].keep = b
  OBVIOUS

\* What the client takes from an intact stream, and what stays.
LEMMA Taken ==
    ASSUME ChannelInv, Intact, NEW n \in 1..Len(wire),
           NEW got, got = completeMessages(buffered, SubSeq(wire, 1, n), FALSE), NEW short, short[2] = "none"
    PROVE  LET r == processChunks(got.chunks, short) IN
           /\ ~r.refused
           /\ Flow(got.keep \o SubSeq(wire, n + 1, Len(wire)), [seq |-> r.seq, parts |-> r.parts, given |-> r.given],
                   server.seq, sent)
<1> DEFINE u == buffered \o wire
           new == SubSeq(wire, 1, n)
           rest == SubSeq(wire, n + 1, Len(wire))
           msg == buffered \o new
           m == Len(buffered) + n
           l == Len(u)
           c == completeChunksUntil(msg)
           b == c.until
<1>0. buffered \in Seq(UnitSet) /\ wire \in Seq(UnitSet) /\ Len(buffered) \in Nat /\ Len(wire) \in Nat /\ n \in Nat /\ n <= Len(wire)
  <2>1. buffered \in Seq(UnitSet) /\ wire \in Seq(UnitSet)
    BY DEF ChannelInv, ChannelTypes
  <2> QED
    BY <2>1
<1>1. /\ u \in Seq(UnitSet) /\ l = Len(buffered) + Len(wire) /\ l \in Nat /\ m \in Nat /\ m <= l
      /\ \A p \in 1..Len(buffered) : u[p] = buffered[p]
      /\ \A j \in 1..Len(wire) : u[Len(buffered) + j] = wire[j]
  <2>1. /\ u \in Seq(UnitSet) /\ l = Len(buffered) + Len(wire)
        /\ \A p \in 1..Len(buffered) : u[p] = buffered[p]
        /\ \A j \in 1..Len(wire) : u[Len(buffered) + j] = wire[j]
    BY <1>0, Joined
  <2> HIDE DEF u, l
  <2> QED
    BY <1>0, <2>1
<1>2. new \in Seq(UnitSet) /\ Len(new) = n /\ \A j \in 1..n : new[j] = wire[j]
  BY <1>0
<1>3. rest \in Seq(UnitSet) /\ Len(rest) = Len(wire) - n /\ \A j \in 1..(Len(wire) - n) : rest[j] = wire[j + n]
  <2>1. Len(wire) <= Len(wire)
    BY <1>0
  <2> QED
    BY <1>0, <2>1, Rest
<1> HIDE DEF u, l, new, rest
<1>4. msg \in Seq(UnitSet) /\ Len(msg) = m /\ \A p \in 1..m : msg[p] = u[p]
  <2>1. /\ msg \in Seq(UnitSet) /\ Len(msg) = Len(buffered) + Len(new)
        /\ \A p \in 1..Len(buffered) : msg[p] = buffered[p]
        /\ \A j \in 1..Len(new) : msg[Len(buffered) + j] = new[j]
    <3>1. buffered \in Seq(UnitSet) /\ new \in Seq(UnitSet)
      BY <1>0, <1>2
    <3> QED
      BY <3>1, Joined
  <2> HIDE DEF msg
  <2>2. ASSUME NEW p \in 1..m PROVE msg[p] = u[p]
    <3>1. CASE p <= Len(buffered)
      <4>1. p \in 1..Len(buffered)
        BY <1>0, <3>1
      <4> QED
        BY <1>1, <2>1, <4>1
    <3>2. CASE p > Len(buffered)
      <4> DEFINE j == p - Len(buffered)
      <4>1. j \in 1..n /\ j \in 1..Len(wire) /\ Len(buffered) + j = p
        BY <1>0, <3>2
      <4> HIDE DEF j
      <4>2. msg[p] = new[j] /\ u[p] = wire[j] /\ new[j] = wire[j]
        BY <1>1, <1>2, <2>1, <4>1
      <4> QED
        BY <4>2
    <3> QED
      BY <1>0, <3>1, <3>2
  <2> QED
    BY <1>2, <2>1, <2>2
<1> HIDE DEF msg, m
<1>5. PICK d : Stream(u, d) /\ d[0] = Here /\ d[l].seq = server.seq /\ DOMAIN d[l].parts = {} /\ d[l].given = sent
  BY DEF Intact, Flow, u, l
<1>6. Cut(u, d, m, c)
  <2>1. m \in 0..Len(u)
    BY <1>1 DEF l
  <2> QED
    BY <1>1, <1>4, <1>5, <2>1, CutAtBorder
<1> HIDE DEF c
<1>7. /\ c.chunks \in Seq(OwnChunks) /\ b \in Nat /\ b <= m /\ ~c.garbage /\ Border(u, b)
      /\ Carried(c.chunks, Here, d[b])
  BY <1>5, <1>6 DEF Cut, Cuts
<1> DEFINE keep == SubSeq(msg, b + 1, m)
<1>8. keep \in Seq(UnitSet) /\ Len(keep) = m - b /\ \A p \in 1..(m - b) : keep[p] = msg[p + b]
  <2>1. m <= Len(msg) /\ m \in Nat /\ b \in Nat /\ b <= m /\ msg \in Seq(UnitSet)
    BY <1>1, <1>4, <1>7
  <2> HIDE DEF b
  <2> QED
    BY <2>1, Rest
<1> HIDE DEF b, keep
<1>9. got.chunks = c.chunks /\ got.keep = keep
  <2>1. got = Separated(msg, c, FALSE)
    BY DEF completeMessages, c, msg, new
  <2>2. got.chunks = c.chunks /\ got.keep = (IF c.until = Len(msg) THEN <<>> ELSE SubSeq(msg, c.until + 1, Len(msg)))
    <3> DEFINE x == c.chunks
               y == IF c.until = Len(msg) THEN <<>> ELSE SubSeq(msg, c.until + 1, Len(msg))
               R == [st |-> "Good", chunks |-> x, keep |-> y]
    <3>1. got = R
      BY <1>7, <2>1, Keeping, Zenon
    <3>2. R.chunks = x /\ R.keep = y
      <4> HIDE DEF x, y
      <4> QED
        BY KeptFields
    <3> HIDE DEF R
    <3>3. got.chunks = R.chunks /\ got.keep = R.keep
      BY <3>1
    <3> QED
      BY <3>2, <3>3, Zenon
  <2>3. CASE b = m
    <3>1. keep = <<>>
      <4>1. Len(keep) = 0
        BY <1>1, <1>8, <2>3
      <4> QED
        BY <1>8, <4>1
    <3>2. c.until = Len(msg)
      BY <1>4, <2>3 DEF b
    <3> QED
      BY <2>2, <3>1, <3>2, Zenon
  <2>4. CASE b # m
    <3>1. c.until # Len(msg) /\ keep = SubSeq(msg, c.until + 1, Len(msg))
      BY <1>4, <2>4 DEF b, keep
    <3> QED
      BY <2>2, <3>1, Zenon
  <2> QED
    BY <2>3, <2>4
<1>10. keep \o rest = SubSeq(u, b + 1, l)
  <2> DEFINE x == keep \o rest
             y == SubSeq(u, b + 1, l)
  <2>1. /\ x \in Seq(UnitSet) /\ Len(x) = Len(keep) + Len(rest)
        /\ \A p \in 1..Len(keep) : x[p] = keep[p]
        /\ \A j \in 1..Len(rest) : x[Len(keep) + j] = rest[j]
    <3>1. keep \in Seq(UnitSet) /\ rest \in Seq(UnitSet)
      BY <1>3, <1>8
    <3> QED
      BY <3>1, Joined
  <2>2. y \in Seq(UnitSet) /\ Len(y) = l - b /\ \A p \in 1..(l - b) : y[p] = u[p + b]
    <3>1. b <= l /\ l <= Len(u) /\ b \in Nat /\ l \in Nat /\ u \in Seq(UnitSet)
      BY <1>1, <1>7 DEF l
    <3> QED
      BY <3>1, Rest
  <2> HIDE DEF x, y
  <2>3. Len(x) = Len(y) /\ l - b \in Nat /\ Len(keep) + Len(rest) = l - b /\ m - b \in Nat
    BY <1>0, <1>1, <1>3, <1>7, <1>8, <2>1, <2>2 DEF m
  <2>4. ASSUME NEW p \in 1..(l - b) PROVE x[p] = y[p]
    <3>1. CASE p <= m - b
      <4>1. p \in 1..(m - b) /\ p + b \in 1..m
        BY <1>1, <1>7, <2>3, <3>1
      <4> QED
        BY <1>4, <1>8, <2>1, <2>2, <4>1
    <3>2. CASE p > m - b
      <4> DEFINE j == p - (m - b)
      <4>1. /\ j \in 1..(Len(wire) - n) /\ (m - b) + j = p /\ j + n \in 1..Len(wire) /\ Len(buffered) + (j + n) = p + b
        <5>1. l = Len(buffered) + Len(wire) /\ m = Len(buffered) + n /\ b \in Nat /\ b <= m
          BY <1>1, <1>7 DEF m
        <5>2. p \in Int /\ p <= l - b /\ p > m - b
          BY <2>3, <3>2
        <5> QED
          BY <1>0, <5>1, <5>2
      <4> HIDE DEF j
      <4>2. x[p] = rest[j] /\ rest[j] = wire[j + n]
        BY <1>3, <1>8, <2>1, <4>1
      <4>3. y[p] = u[p + b] /\ u[p + b] = wire[j + n]
        BY <1>1, <2>2, <4>1
      <4> QED
        BY <4>2, <4>3
    <3> QED
      BY <2>3, <3>1, <3>2
  <2>5. x = y
    BY <2>1, <2>2, <2>3, <2>4, SameSeq
  <2> QED
    BY <2>5 DEF x, y
<1> DEFINE r == processChunks(got.chunks, short)
           there == [seq |-> r.seq, parts |-> r.parts, given |-> r.given]
<1>11. ~r.refused /\ r.seq = d[b].seq /\ r.parts = d[b].parts /\ r.given = d[b].given
  <2>1. Here.seq = caller.seq /\ Here.parts = caller.parts /\ Here.given = given
    BY DEF Here
  <2>2. caller.token = 1
    BY DEF Intact
  <2>3. ~processChunks(c.chunks, short).refused /\ processChunks(c.chunks, short).seq = d[b].seq
        /\ processChunks(c.chunks, short).parts = d[b].parts /\ processChunks(c.chunks, short).given = d[b].given
    BY <1>7, <2>1, <2>2, CarriedAlong
  <2> QED
    BY <1>9, <2>3
<1> HIDE DEF r
<1>12. there = d[b]
  <2>1. d[b] \in States
    BY <1>1, <1>5, <1>7 DEF Stream, l
  <2>2. d[b] \in [seq : Nat, parts : PartSet, given : Seq(Seq(Bits))]
    BY <2>1 DEF States
  <2> QED
    BY <1>11, <2>2
<1>13. Flow(SubSeq(u, b + 1, l), d[b], server.seq, sent)
  <2>1. b \in 0..Len(u)
    BY <1>1, <1>7 DEF l
  <2>2. PICK e : /\ Stream(SubSeq(u, b + 1, Len(u)), e) /\ e[0] = d[b]
                 /\ e[Len(SubSeq(u, b + 1, Len(u)))] = d[Len(u)]
    BY <1>1, <1>5, <1>7, <2>1, Shortening
  <2> QED
    BY <1>5, <2>2 DEF Flow, l
<1>14. Flow(got.keep \o rest, there, server.seq, sent)
  BY <1>9, <1>10, <1>12, <1>13
<1> QED
  BY <1>11, <1>14 DEF r, rest

\* One more at the end of a sequence, and one less at its beginning.
LEMMA Longer ==
    ASSUME NEW S, NEW s \in Seq(S), NEW q \in S
    PROVE  /\ Len(Append(s, q)) = Len(s) + 1 /\ Len(s) \in Nat /\ Append(s, q)[Len(s) + 1] = q
           /\ \A i \in 1..Len(s) : Append(s, q)[i] = s[i]
  OBVIOUS

LEMMA Shorter ==
    ASSUME NEW S, NEW s \in Seq(S), s # <<>>
    PROVE  /\ Head(s) = s[1] /\ 1 \in 1..Len(s) /\ Len(Tail(s)) = Len(s) - 1 /\ Len(s) \in Nat
           /\ \A i \in 1..Len(Tail(s)) : Tail(s)[i] = s[i + 1]
<1>1. Head(s) = s[1] /\ 1 \in 1..Len(s) /\ Len(Tail(s)) = Len(s) - 1 /\ Len(s) \in Nat
  OBVIOUS
<1>2. \A i \in 1..(Len(s) - 1) : Tail(s)[i] = s[i + 1]
  OBVIOUS
<1> QED
  BY <1>1, <1>2

LEMMA UnitsRegrouped == \A x, y, z \in Seq(UnitSet) : (x \o y) \o z = x \o (y \o z)
<1> SUFFICES ASSUME NEW x \in Seq(UnitSet), NEW y \in Seq(UnitSet), NEW z \in Seq(UnitSet)
             PROVE  (x \o y) \o z = x \o (y \o z)
  OBVIOUS
<1> QED
  OBVIOUS

\* With every step the stream stays intact, or something was lost before.
LEMMA StreamNext ==
    ASSUME ChannelConstants, ChannelInv, StreamInv, [ChannelNext]_channelVars
    PROVE  StreamInv'
<1> SUFFICES ASSUME ~left'.used PROVE Intact'
  BY DEF StreamInv
<1>0. /\ requests \in Seq([req : Nat, opn : BOOLEAN, token : Nat])
      /\ pending \in SUBSET Nat
      /\ server \in [seq : Nat, token : Nat, next : Nat, last : Nat]
      /\ wire \in Seq(UnitSet) /\ buffered \in Seq(UnitSet)
      /\ caller \in [seq : Nat, token : Nat, parts : PartSet, requestId : Nat]
      /\ call \in CallSet /\ call.from \in Nat /\ call.st \in Statuses
      /\ sent \in Seq(Seq(Bits)) /\ given \in Seq(Seq(Bits))
      /\ left \in [renewals : Nat, shortages : Nat, used : BOOLEAN, torn : BOOLEAN]
      /\ ChannelTypes
  BY DEF ChannelInv, ChannelTypes, CallSet
<1>s. ASSUME ~left.used
      PROVE  /\ Intact /\ call.pc # "renewing" /\ ~refused /\ caller.token = 1 /\ server.token = 1 /\ server.next = 0
             /\ \A i \in 1..Len(requests) : ~requests[i].opn /\ requests[i].token = 1
             /\ Flow(buffered \o wire, Here, server.seq, sent)
  BY <1>s DEF StreamInv, Intact
<1>i. ASSUME ~left.used, UNCHANGED <<buffered, wire, sent, given, refused>>,
             server'.seq = server.seq, server'.token = server.token, server'.next = server.next,
             caller'.seq = caller.seq, caller'.parts = caller.parts, caller'.token = caller.token, call'.pc # "renewing",
             \A i \in 1..Len(requests') : ~requests'[i].opn /\ requests'[i].token = 1
      PROVE  Intact'
  <2>1. Here' = Here /\ buffered' \o wire' = buffered \o wire /\ server'.seq = server.seq /\ sent' = sent
    BY <1>i DEF Here
  <2>2. Flow(buffered' \o wire', Here', server'.seq, sent')
    BY <1>s, <1>i, <2>1
  <2>3. call'.pc # "renewing" /\ ~refused' /\ caller'.token = 1 /\ server'.token = 1 /\ server'.next = 0
    BY <1>s, <1>i
  <2> QED
    BY <1>i, <2>2, <2>3 DEF Intact
<1>1. CASE CallService
  <2>1. ChannelTypes /\ FALSE \in BOOLEAN /\ caller.token \in Nat /\ SendRequest("waiting", FALSE, caller.token)
    BY <1>0, <1>1 DEF CallService
  <2>2. /\ caller'.seq = caller.seq /\ caller'.token = caller.token /\ caller'.parts = caller.parts
        /\ requests' = Append(requests, [req |-> caller.requestId + 1, opn |-> FALSE, token |-> caller.token])
        /\ call'.pc = "waiting"
    BY <2>1, Requesting
  <2>3. UNCHANGED <<buffered, wire, server, sent, given, refused, left>>
    BY <1>1 DEF CallService
  <2> DEFINE q == [req |-> caller.requestId + 1, opn |-> FALSE, token |-> caller.token]
  <2>4. ~q.opn /\ q.token = 1
    BY <1>s, <2>3
  <2> HIDE DEF q
  <2>5. \A i \in 1..Len(requests') : ~requests'[i].opn /\ requests'[i].token = 1
    <3>1. requests' = Append(requests, q)
      BY <2>2 DEF q
    <3>2. /\ Len(requests') = Len(requests) + 1 /\ Len(requests) \in Nat /\ requests'[Len(requests) + 1] = q
          /\ \A i \in 1..Len(requests) : requests'[i] = requests[i]
      <4>1. q \in [req : Nat, opn : BOOLEAN, token : Nat] /\ requests \in Seq([req : Nat, opn : BOOLEAN, token : Nat])
        <5>1. caller.requestId \in Nat /\ caller.token \in Nat
          BY <1>0
        <5>2. requests \in Seq([req : Nat, opn : BOOLEAN, token : Nat])
          BY <1>0
        <5>3. q \in [req : Nat, opn : BOOLEAN, token : Nat]
          BY <5>1 DEF q
        <5> QED
          BY <5>2, <5>3
      <4> QED
        BY <3>1, <4>1, Longer
    <3>3. \A i \in 1..(Len(requests) + 1) : i \in 1..Len(requests) \/ i = Len(requests) + 1
      BY <3>2
    <3> QED
      BY <1>s, <2>3, <2>4, <3>2, <3>3
  <2> QED
    BY <1>i, <2>2, <2>3, <2>5
<1>2. CASE RenewToken
  <2> DEFINE l1 == [left EXCEPT !.renewals = @ - 1]
  <2>1. left.renewals > 0 /\ left' = [l1 EXCEPT !.used = TRUE]
    BY <1>2 DEF RenewToken
  <2>2. left.renewals - 1 \in Nat
    BY <1>0, <2>1
  <2>3. l1 \in [renewals : Nat, shortages : Nat, used : BOOLEAN, torn : BOOLEAN]
    BY <1>0, <2>2
  <2> HIDE DEF l1
  <2>4. \A w \in BOOLEAN : [l1 EXCEPT !.used = w].used = w
    BY <2>3
  <2>5. TRUE \in BOOLEAN
    OBVIOUS
  <2>6. left'.used = TRUE
    BY <2>1, <2>4, <2>5, Zenon
  <2> QED
    BY <2>6
<1>3. CASE ServerReceives
  <2>1. UNCHANGED <<wire, buffered, caller, call, sent, given, refused, left>>
    BY <1>3 DEF ServerReceives
  <2>2. requests # <<>> /\ requests' = Tail(requests)
    BY <1>3 DEF ServerReceives
  <2>3. /\ Head(requests) = requests[1] /\ 1 \in 1..Len(requests) /\ Len(requests') = Len(requests) - 1 /\ Len(requests) \in Nat
        /\ \A i \in 1..Len(requests') : requests'[i] = requests[i + 1]
    <3>1. requests \in Seq([req : Nat, opn : BOOLEAN, token : Nat])
      BY <1>0
    <3> QED
      BY <2>2, <3>1, Shorter
  <2>4. Head(requests).token = server.token
    BY <1>s, <2>1, <2>3
  <2>5. server'.seq = server.seq /\ server'.token = server.token /\ server'.next = server.next
    <3> DEFINE q == Head(requests)
    <3>1. server' = [server EXCEPT !.last = q.req, !.token = q.token, !.next = IF q.token = server.token THEN server.next ELSE 0]
      BY <1>3 DEF ServerReceives
    <3> HIDE DEF q
    <3>2. server' = [server EXCEPT !.last = q.req, !.token = server.token, !.next = server.next]
      BY <2>4, <3>1 DEF q
    <3> QED
      BY <1>0, <3>2
  <2>6. \A i \in 1..Len(requests') : ~requests'[i].opn /\ requests'[i].token = 1
    <3>1. \A i \in 1..Len(requests') : i + 1 \in 1..Len(requests)
      BY <2>3
    <3> QED
      BY <1>s, <2>1, <2>3, <3>1
  <2> QED
    BY <1>i, <1>s, <2>1, <2>5, <2>6
<1>10. ASSUME NEW k \in 1..Len(requests), ServerRefuses(k) PROVE Intact'
  <2>1. /\ requests' = SubSeq(requests, k + 1, Len(requests))
        /\ UNCHANGED <<server, wire, buffered, caller, call, sent, given, refused, left>>
    BY <1>10 DEF ServerRefuses
  <2>2. /\ Len(requests') = Len(requests) - k /\ Len(requests) \in Nat /\ k \in Nat
        /\ \A i \in 1..(Len(requests) - k) : requests'[i] = requests[i + k]
    <3>1. /\ requests \in Seq([req : Nat, opn : BOOLEAN, token : Nat])
          /\ k \in Nat /\ Len(requests) \in Nat /\ k <= Len(requests) /\ Len(requests) <= Len(requests)
      <4>1. requests \in Seq([req : Nat, opn : BOOLEAN, token : Nat])
        BY <1>0
      <4> QED
        BY <4>1
    <3> QED
      BY <2>1, <3>1, Rest
  <2>3. \A i \in 1..Len(requests') : ~requests'[i].opn /\ requests'[i].token = 1
    <3>1. \A i \in 1..(Len(requests) - k) : i + k \in 1..Len(requests)
      BY <2>2
    <3> QED
      BY <1>s, <2>1, <2>2, <3>1
  <2> QED
    BY <1>i, <1>s, <2>1, <2>3
<1>11. CASE ServerRevolves
  <2>1. server.next # 0 /\ left' = left
    BY <1>11 DEF ServerRevolves
  <2> QED
    BY <1>s, <2>1
<1>4. CASE ServerRenews
  <2>1. requests # <<>> /\ Head(requests).opn /\ left' = left
    BY <1>4 DEF ServerRenews
  <2>2. Head(requests) = requests[1] /\ 1 \in 1..Len(requests)
    BY <1>0, <2>1
  <2>3. ~requests[1].opn
    BY <1>s, <2>1, <2>2
  <2> QED
    BY <2>1, <2>2, <2>3
<1>5. ASSUME NEW req \in pending, NEW n \in Sizes, ServerAnswers(req, n)
      PROVE  Intact'
  <2> DEFINE body == Answer(req, n)
             chunks == sendBinaryMessage(server, req, body)
             whole == IF Last(chunks).kind = "F" THEN Append(sent, body) ELSE sent
             u == buffered \o wire
  <2>1. req \in Nat /\ n \in Nat \ {0}
    BY <1>0 DEF ChannelConstants
  <2>2. /\ wire' = wire \o OnWire(chunks)
        /\ server' = [server EXCEPT !.seq = Plus(@, Len(chunks))]
        /\ sent' = whole
    BY <1>5 DEF ServerAnswers, Answer
  <2>3. UNCHANGED <<requests, buffered, caller, call, given, refused, left>>
    BY <1>5 DEF ServerAnswers
  <2>4. body \in Seq(Bits) /\ Len(body) >= 1 /\ \A i \in 1..Len(body) : body[i].req = req
    <3>1. body \in Seq(Bits) /\ Len(body) = n /\ \A i \in 1..n : body[i].req = req
      BY <2>1, Answers
    <3> HIDE DEF body
    <3> QED
      BY <2>1, <3>1
  <2> HIDE DEF body
  <2>5. chunks \in Seq(OwnChunks)
    BY <1>0, <2>1, <2>4, Chunking
  <2> HIDE DEF chunks, whole
  <2>6. u \in Seq(UnitSet)
    BY <1>0
  <2>7. OnWire(chunks) \in Seq(UnitSet)
    <3>1. PICK g \in [0..Len(chunks) -> Seq(UnitSet)] : OnWire(chunks) = g[Len(chunks)]
      BY <2>5, WireRuns
    <3>2. Len(chunks) \in 0..Len(chunks)
      BY <2>5
    <3> QED
      BY <3>1, <3>2
  <2>8. buffered' \o wire' = u \o OnWire(chunks)
    <3> DEFINE w == OnWire(chunks)
    <3>1. w \in Seq(UnitSet)
      BY <2>7
    <3> HIDE DEF w
    <3>2. (buffered \o wire) \o w = buffered \o (wire \o w)
      <4>1. buffered \in Seq(UnitSet) /\ wire \in Seq(UnitSet)
        BY <1>0
      <4> QED
        BY <3>1, <4>1, UnitsRegrouped, Zenon
    <3> QED
      BY <2>2, <2>3, <3>2, Zenon DEF w
  <2>9. PICK d : /\ Stream(u, d) /\ d[0] = Here /\ d[Len(u)].seq = server.seq
                 /\ DOMAIN d[Len(u)].parts = {} /\ d[Len(u)].given = sent
    BY <1>s, <2>3 DEF Flow
  <2>10. PICK e : Extended(u \o OnWire(chunks), e, d, Len(chunks), whole)
    <3>1. chunks = sendBinaryMessage(server, req, body)
      BY DEF chunks
    <3>2. whole = (IF Last(chunks).kind = "F" THEN Append(sent, body) ELSE sent)
      BY DEF whole
    <3>3. server.token = 1 /\ server \in [seq : Nat, token : Nat, next : Nat, last : Nat] /\ sent \in Seq(Seq(Bits))
      BY <1>0, <1>s, <2>3
    <3> HIDE DEF u
    <3>4. /\ Stream(u, d) /\ d[Len(u)].seq = server.seq /\ DOMAIN d[Len(u)].parts = {} /\ d[Len(u)].given = sent
      BY <2>9
    <3>5. req \in Nat /\ body \in Seq(Bits) /\ Len(body) >= 1 /\ \A i \in 1..Len(body) : body[i].req = req
      BY <2>1, <2>4
    <3> QED
      BY <2>6, <3>1, <3>2, <3>3, <3>4, <3>5, AnswerExtends
  <2>11. Here' = Here
    BY <2>3 DEF Here
  <2>12. server'.seq = Plus(server.seq, Len(chunks)) /\ server'.token = 1 /\ server'.next = 0
    <3>1. server' = [server EXCEPT !.seq = Plus(server.seq, Len(chunks))]
      BY <2>2
    <3> QED
      BY <1>0, <1>s, <2>3, <3>1
  <2>13. Flow(buffered' \o wire', Here', server'.seq, sent')
    <3>1. Flow(u \o OnWire(chunks), Here, Plus(server.seq, Len(chunks)), whole)
      BY <2>9, <2>10 DEF Flow, Extended
    <3> QED
      BY <2>2, <2>8, <2>11, <2>12, <3>1
  <2>14. /\ call'.pc # "renewing" /\ ~refused' /\ caller'.token = 1
         /\ \A i \in 1..Len(requests') : ~requests'[i].opn /\ requests'[i].token = 1
    BY <1>s, <2>3
  <2> QED
    BY <2>12, <2>13, <2>14 DEF Intact
<1>6. ASSUME NEW n \in 1..RecvBuffer, NEW short \in Shortages, ReceiveAnswer(n, short)
      PROVE  Intact'
  <2> DEFINE got == completeMessages(buffered, SubSeq(wire, 1, n), FALSE)
             r == processChunks(got.chunks, short)
  <2>1. Receives(n, short)
    BY <1>6 DEF ReceiveAnswer
  <2>2. /\ n \in 1..Len(wire) /\ SubSeq(wire, 1, n) \in Seq(UnitSet)
        /\ wire' = SubSeq(wire, n + 1, Len(wire)) /\ (left.used \/ short[2] # "none" => left'.used)
        /\ server' = server /\ sent' = sent
    BY <1>0, <2>1, Received
  <2>3. short[2] = "none" /\ (short[2] = "buffer") = FALSE /\ ~left.used
    BY <2>2
  <2>4. /\ buffered' = got.keep /\ caller' = [caller EXCEPT !.seq = r.seq, !.parts = r.parts]
        /\ given' = r.given /\ refused' = (refused \/ r.refused) /\ requests' = requests
        /\ IF got.st # "Good" THEN Returns(got.st)
           ELSE IF r.processed THEN call' = [call EXCEPT !.pc = "idle", !.st = r.st, !.from = r.from, !.waited = FALSE]
           ELSE call' = [call EXCEPT !.waited = TRUE]
    BY <1>6, <2>3 DEF ReceiveAnswer
  <2>5. got.st \in Statuses /\ got.chunks \in Seq(OwnChunks)
    <3>1. FALSE \in BOOLEAN
      OBVIOUS
    <3> QED
      BY <1>0, <2>2, <3>1, Completing
  <2>6. /\ ~r.refused
        /\ Flow(got.keep \o SubSeq(wire, n + 1, Len(wire)), [seq |-> r.seq, parts |-> r.parts, given |-> r.given], server.seq, sent)
    BY <1>s, <2>2, <2>3, Taken
  <2> HIDE DEF got
  <2>7. r \in Readers
    BY <2>5, Processed
  <2> HIDE DEF r
  <2>8. r.st \in Statuses /\ r.from \in Nat /\ r.seq \in Nat /\ r.parts \in PartSet
    BY <2>7 DEF Readers
  <2>9. caller'.seq = r.seq /\ caller'.parts = r.parts /\ caller'.token = 1
    BY <1>0, <1>s, <2>3, <2>4, <2>8
  <2>10. Flow(buffered' \o wire', Here', server'.seq, sent')
    <3>1. Here' = [seq |-> r.seq, parts |-> r.parts, given |-> r.given]
      BY <2>4, <2>9 DEF Here
    <3>2. buffered' \o wire' = got.keep \o SubSeq(wire, n + 1, Len(wire))
      BY <2>2, <2>4
    <3> QED
      BY <2>2, <2>6, <3>1, <3>2, Zenon
  <2>11. call'.pc # "renewing"
    <3>1. CASE got.st # "Good"
      <4>1. call' = [call EXCEPT !.pc = "idle", !.st = got.st, !.waited = FALSE]
        BY <2>4, <3>1 DEF Returns
      <4>2. LET c == [call EXCEPT !.pc = "idle", !.st = got.st, !.waited = FALSE] IN c.pc = "idle"
        BY <1>0, <2>5, Returning
      <4> QED
        BY <4>1, <4>2
    <3>2. CASE got.st = "Good" /\ r.processed
      <4>1. call' = [call EXCEPT !.pc = "idle", !.st = r.st, !.from = r.from, !.waited = FALSE]
        BY <2>4, <3>2
      <4>2. LET c == [call EXCEPT !.pc = "idle", !.st = r.st, !.from = r.from, !.waited = FALSE] IN c.pc = "idle"
        <5>1. call \in CallSet
          BY <1>0
        <5> QED
          BY <2>8, <5>1, Returning
      <4> QED
        BY <4>1, <4>2
    <3>3. CASE got.st = "Good" /\ ~r.processed
      <4>1. call' = [call EXCEPT !.waited = TRUE]
        BY <2>4, <3>3
      <4>2. LET c == [call EXCEPT !.waited = TRUE] IN c.pc = call.pc
        BY <1>0, Returning
      <4>3. call.pc # "renewing"
        BY <1>s, <2>3
      <4> QED
        BY <4>1, <4>2, <4>3
    <3> QED
      BY <3>1, <3>2, <3>3
  <2>12. /\ ~refused' /\ server'.token = 1 /\ server'.next = 0
         /\ \A i \in 1..Len(requests') : ~requests'[i].opn /\ requests'[i].token = 1
    BY <1>s, <2>2, <2>3, <2>4, <2>6
  <2> QED
    BY <2>9, <2>10, <2>11, <2>12 DEF Intact
<1>7. ASSUME NEW n \in 1..RecvBuffer, NEW short \in Shortages, ReceiveToken(n, short)
      PROVE  Intact'
  <2>1. Receives(n, short) /\ call.pc = "renewing"
    BY <1>7 DEF ReceiveToken
  <2>2. left.used => left'.used
    BY <1>0, <2>1, Received
  <2> QED
    BY <1>s, <2>1, <2>2
<1>8. ASSUME TimesOut \/ SocketTimesOut PROVE Intact'
  <2>1. PICK st \in Statuses : call' = [call EXCEPT !.pc = "idle", !.st = st, !.waited = FALSE]
    BY <1>8 DEF TimesOut, SocketTimesOut, Returns, Statuses
  <2>2. LET c == [call EXCEPT !.pc = "idle", !.st = st, !.waited = FALSE] IN c.pc = "idle"
    BY <1>0, Returning
  <2>3. call'.pc # "renewing"
    BY <2>1, <2>2
  <2>4. UNCHANGED <<requests, server, wire, buffered, caller, sent, given, refused, left>>
    BY <1>8 DEF TimesOut, SocketTimesOut
  <2> QED
    BY <1>i, <1>s, <2>3, <2>4
<1>9. CASE UNCHANGED channelVars
  <2>1. UNCHANGED <<requests, server, wire, buffered, caller, call, sent, given, refused, left>>
    BY <1>9 DEF channelVars
  <2> QED
    BY <1>i, <1>s, <2>1
<1> QED
  BY <1>1, <1>2, <1>3, <1>4, <1>5, <1>6, <1>7, <1>8, <1>9, <1>10, <1>11 DEF ChannelNext

\* The stream is intact in every state of every run that has lost nothing.
THEOREM StreamInvariance == ChannelSpec => []StreamInv
<1>1. ChannelInit => StreamInv
  BY StreamInit, ChannelConstants
<1>2. ChannelInv /\ StreamInv /\ [ChannelNext]_channelVars => StreamInv'
  BY StreamNext, ChannelConstants
<1>3. ChannelSpec => []ChannelInv
  BY ChannelInvariance
<1> QED
  BY <1>1, <1>2, <1>3, PTL DEF ChannelSpec

\* A call that returns GOOD has the answer to the request it sent itself: every piece
\* collected under a request is of the answer to it, and ProcessResponse takes no other.
THEOREM AnswerIsToOwnRequest == ChannelSpec => []GoodIsOwnAnswer
<1>1. ChannelInv => GoodIsOwnAnswer
  BY DEF ChannelInv
<1> QED
  BY <1>1, ChannelInvariance, PTL

\* processSequenceNumber and the token check refuse no chunk of a stream of which nothing
\* was lost, for any range of numbers and wherever the receives cut it.
THEOREM NothingIsRefused == ChannelSpec => []NothingRefused
<1>1. StreamInv => NothingRefused
  BY DEF StreamInv, Intact, NothingRefused
<1> QED
  BY <1>1, StreamInvariance, PTL

\* As long as nothing is lost, what was given are the first messages that were sent.
WholeWhileIntact ==
    ~left.used => Len(given) <= Len(sent) /\ given = SubSeq(sent, 1, Len(given))

\* What ProcessResponse was given is then exactly the beginning of what the server sent,
\* message by message and whole, however many units each recv brings.
THEOREM IntactIsWhole == ChannelSpec => []WholeWhileIntact
<1>1. ASSUME ChannelInv, StreamInv PROVE WholeWhileIntact
  <2> SUFFICES ASSUME ~left.used PROVE Len(given) <= Len(sent) /\ given = SubSeq(sent, 1, Len(given))
    BY DEF WholeWhileIntact
  <2> DEFINE u == buffered \o wire
  <2>1. PICK d : Stream(u, d) /\ d[0] = Here /\ d[Len(u)].given = sent
    BY <1>1 DEF StreamInv, Intact, Flow
  <2>2. given \in Seq(Seq(Bits)) /\ sent \in Seq(Seq(Bits)) /\ u \in Seq(UnitSet)
    BY <1>1 DEF ChannelInv, ChannelTypes
  <2> HIDE DEF u
  <2>3. 0 \in 0..Len(u)
    BY <2>2
  <2>4. Before(d[0].given, d[Len(u)].given)
    BY <2>1, <2>3 DEF Stream
  <2>5. Here.given = given
    BY DEF Here
  <2>6. Before(given, sent)
    BY <2>1, <2>4, <2>5
  <2>7. Len(given) \in Nat /\ Len(sent) \in Nat /\ Len(given) <= Len(sent) /\ \A i \in 1..Len(given) : given[i] = sent[i]
    BY <2>2, <2>6 DEF Before
  <2> DEFINE t == SubSeq(sent, 1, Len(given))
  <2>8. t \in Seq(Seq(Bits)) /\ Len(t) = Len(given) /\ \A i \in 1..Len(given) : t[i] = sent[i]
    BY <2>2, <2>7
  <2> HIDE DEF t
  <2>9. given = t
    BY <2>2, <2>7, <2>8, SameSeq
  <2> QED
    BY <2>7, <2>9 DEF t
<1> QED
  BY <1>1, ChannelInvariance, StreamInvariance, PTL
=============================================================================
