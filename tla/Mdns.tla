---------------------------------- MODULE Mdns ---------------------------------
(***************************************************************************)
(* The servers a discovery server hears of on the network: src/server/     *)
(* ua_mdns.c and FindServersOnNetwork in ua_services_discovery_multicast.c *)
(*                                                                         *)
(* A server announces itself by an SRV record (host and port) and a TXT    *)
(* record (path and capabilities).  Both may be lost, repeated or arrive   *)
(* in either order; a record with a time to live of 0 withdraws a server.  *)
(***************************************************************************)
EXTENDS Integers, Sequences, SequencesExt

CONSTANTS
  Announced,     \* name -> [host, path, caps], a name being a sequence of characters
  BucketOf,      \* name -> hash of its records, modulo SERVER_ON_NETWORK_HASH_PRIME
  Searches,      \* FindServersOnNetwork requests: [start, max, filter]
  MaxRecords     \* bound on record ids

ASSUME MdnsConstants ==
  /\ DOMAIN BucketOf = DOMAIN Announced /\ MaxRecords \in Nat
  /\ \A q \in Searches : q.start \in Nat /\ q.max \in Nat

VARIABLES
  serverOnNetwork,                \* the list, newest first
  serverOnNetworkRecordIdCounter,
  serverOnNetworkSize,            \* decremented only: an UInt32, here an integer
  pathHeap,                           \* "ok", or "broken" once a path was freed twice
  told,                           \* the last call of the serverOnNetworkCallback
  found                           \* the last answer of FindServersOnNetwork
mdnsVars == <<serverOnNetwork, serverOnNetworkRecordIdCounter, serverOnNetworkSize, pathHeap, told, found>>

NoPath == <<>>
Freed == <<"freed">>

\* The names are compared up to the length of the shorter one.
SameName(a, b) == IsPrefix(a, b) \/ IsPrefix(b, a)

\* mdns_record_add_or_get: the entry in the bucket of the record, 0 for none.
EntryOf(name) ==
  LET hits == {k \in DOMAIN serverOnNetwork :
                 BucketOf[serverOnNetwork[k].name] = BucketOf[name] /\ SameName(serverOnNetwork[k].name, name)}
  IN IF hits = {} THEN 0 ELSE CHOOSE k \in hits : \A j \in hits : k <= j

NewEntry(name) ==
  [id |-> serverOnNetworkRecordIdCounter, name |-> name, txtSet |-> FALSE, srvSet |-> FALSE,
   pathTmp |-> NoPath, url |-> <<>>, caps |-> <<>>]

\* setTxt: a path that arrives before the SRV record is kept aside.
setTxt(e, r) ==
  [e EXCEPT !.txtSet = TRUE, !.caps = r.caps,
            !.pathTmp = IF r.path # "/" /\ ~e.srvSet THEN <<r.path>> ELSE @,
            !.url = IF r.path # "/" /\ e.srvSet THEN Append(@, r.path) ELSE @]

\* Mutant: the path that was kept aside is forgotten.
setSrv_noPath(e, r) == [e EXCEPT !.srvSet = TRUE, !.url = <<r.host>>]

\* setSrv: the path kept aside is appended and freed; the pointer stays.
setSrv(e, r) ==
  [e EXCEPT !.srvSet = TRUE, !.url = <<r.host>> \o e.pathTmp,
            !.pathTmp = IF e.pathTmp = NoPath THEN NoPath ELSE Freed]

\* mdns_record_received, for a name that has an entry.
Refreshed(e, type, r) ==
  IF type = "TXT" /\ ~e.txtSet THEN setTxt(e, r) ELSE IF type = "SRV" /\ ~e.srvSet THEN setSrv(e, r) ELSE e

Tells(e, added) == told' = [name |-> e.name, url |-> e.url, added |-> added, txt |-> e.txtSet]

Received(name, type) ==
  LET k == EntryOf(name)
      list == IF k = 0 THEN <<NewEntry(name)>> \o serverOnNetwork ELSE serverOnNetwork
      at == IF k = 0 THEN 1 ELSE k
      e == Refreshed(list[at], type, Announced[name])
  IN /\ pathHeap = "ok"
     /\ k = 0 => serverOnNetworkRecordIdCounter < MaxRecords
     /\ serverOnNetwork' = [list EXCEPT ![at] = e]
     /\ serverOnNetworkRecordIdCounter' = serverOnNetworkRecordIdCounter + (IF k = 0 THEN 1 ELSE 0)
     /\ IF e.srvSet /\ ~(list[at].srvSet /\ list[at].txtSet) THEN Tells(e, TRUE) ELSE UNCHANGED told
     /\ UNCHANGED <<serverOnNetworkSize, pathHeap, found>>

\* The record says goodbye: mdns_record_remove.
Withdrawn(name) ==
  LET k == EntryOf(name)
      e == serverOnNetwork[k]
  IN /\ pathHeap = "ok" /\ k # 0
     /\ serverOnNetwork' = RemoveAt(serverOnNetwork, k)
     /\ serverOnNetworkSize' = serverOnNetworkSize - 1
     /\ pathHeap' = IF e.pathTmp = Freed THEN "broken" ELSE "ok"
     /\ Tells(e, FALSE)
     /\ UNCHANGED <<serverOnNetworkRecordIdCounter, found>>

--------------------------------------------------------------------------------
(* FindServersOnNetwork *)

\* filterServerRecord: every capability must be equal to every filter.
filterServerRecord(filter, e) == \A f \in filter : \A k \in DOMAIN e.caps : e.caps[k] = f

recordCount(q) ==
  LET n == IF q.start < serverOnNetworkRecordIdCounter THEN serverOnNetworkRecordIdCounter - q.start ELSE 0
  IN IF q.max # 0 /\ n > q.max THEN q.max ELSE n

\* The walk over the list collects entries that fit, until it has enough.
filtered(q) ==
  LET Taken(fits, e) == Len(fits) < recordCount(q) /\ e.id >= q.start /\ filterServerRecord(q.filter, e)
      upto[k \in 0..Len(serverOnNetwork)] ==
        IF k = 0 THEN <<>>
        ELSE IF Taken(upto[k-1], serverOnNetwork[k]) THEN Append(upto[k-1], serverOnNetwork[k]) ELSE upto[k-1]
  IN upto[Len(serverOnNetwork)]

\* The first records of the list, that is the newest, in reverse.
Service_FindServersOnNetwork(q) == Reverse(filtered(q))

Find ==
  /\ pathHeap = "ok"
  /\ \E q \in Searches : found' = [q |-> q, servers |-> Service_FindServersOnNetwork(q), of |-> serverOnNetwork]
  /\ UNCHANGED <<serverOnNetwork, serverOnNetworkRecordIdCounter, serverOnNetworkSize, pathHeap, told>>

MdnsInit ==
  /\ serverOnNetwork = <<>> /\ serverOnNetworkRecordIdCounter = 0 /\ serverOnNetworkSize = 0
  /\ pathHeap = "ok"
  /\ told = [name |-> <<>>, url |-> <<>>, added |-> FALSE, txt |-> FALSE]
  /\ found = [q |-> [start |-> 0, max |-> 1, filter |-> {}], servers |-> <<>>, of |-> <<>>]

MdnsNext ==
  \/ \E name \in DOMAIN Announced : (\E type \in {"SRV", "TXT"} : Received(name, type)) \/ Withdrawn(name)
  \/ Find

MdnsSpec == MdnsInit /\ [][MdnsNext]_mdnsVars

--------------------------------------------------------------------------------
(* Properties *)

FullUrl(name) == <<Announced[name].host>> \o (IF Announced[name].path = "/" THEN <<>> ELSE <<Announced[name].path>>)

\* No other name of the same bucket begins like this one or is the beginning of it.
Apart(name) ==
  \A other \in DOMAIN Announced \ {name} : ~(BucketOf[other] = BucketOf[name] /\ SameName(other, name))

UrlOf(name, txt) == IF txt THEN FullUrl(name) ELSE <<Announced[name].host>>

\* The url of a server is its own host and, as soon as the text was heard too,
\* its path, once: in whatever order and how often the two records arrive, and
\* whatever other servers are called, as long as the lookup can tell their names
\* from its own.
UrlWhole ==
  /\ \A k \in DOMAIN serverOnNetwork :
       LET e == serverOnNetwork[k]
       IN Apart(e.name) => e.url = IF e.srvSet THEN UrlOf(e.name, e.txtSet) ELSE <<>>
  /\ told.added /\ Apart(told.name) => told.url = UrlOf(told.name, told.txt)

\* An unlimited search lists every known server from the record it starts at,
\* once and in the order of their numbers, after whatever servers came and went.
FindsAll ==
  found.q.max = 0 /\ found.q.filter = {} =>
    /\ ToSet(found.servers) = {e \in ToSet(found.of) : e.id >= found.q.start}
    /\ \A i, j \in DOMAIN found.servers : i < j => found.servers[i].id < found.servers[j].id

\* The list of servers heard of is complete and each entry whole.
NetworkExact == UrlWhole /\ FindsAll
================================================================================
