------------------------------- MODULE Discovery -------------------------------
(***************************************************************************)
(* Registration with a discovery server: ua_services_discovery.c,          *)
(* ua_server_discovery.c and what ua_services_discovery_multicast.c        *)
(* publishes of it (all under src/server/).                                *)
(*                                                                         *)
(* One discovery server keeps a list of registrations, newest first, and   *)
(* publishes mDNS records for them.  One server, Own, registers itself by  *)
(* a periodic job and by retry jobs; other servers send their requests at  *)
(* any time.  The mDNS daemon (deps/mdnsd/libmdnsd/mdnsd.c) keeps its      *)
(* records in a table of lists and sends them when its own step comes: of  *)
(* it, what becomes of the records that were handed to it.                 *)
(***************************************************************************)
EXTENDS Integers, Sequences, FiniteSets, SequencesExt

CONSTANTS
  Requests,      \* what other servers send: [uri, name, urls, sem, online, caps]
  OwnRequest,    \* what register_server_with_discovery_server sends
  OwnAppName,    \* the name it sends to a server without RegisterServer2
  Register2,     \* whether the discovery server knows RegisterServer2
  Files,         \* semaphore files
  Queries,       \* the serverUris of FindServers requests, <<>> for all
  SelfUri,       \* the application uri of the discovery server
  Layers,        \* the discovery urls of its network layers
  HostName,      \* what gethostname gives
  Bucket(_),     \* the list of the daemon's table a name is kept in
  Claimed,       \* domains whose names somebody else uses, too
  DefaultPort,   \* 4840
  Interval,      \* intervalMs of the periodic job
  FirstDelay,    \* delayFirstRegisterMs, 0 for none
  Second,        \* a second, in clock ticks (1000 ms in the code)
  Timeout,       \* discoveryCleanupTimeout, in seconds (0: never)
  MaxTime,       \* bound on the clock
  MaxJobs        \* bound on jobs that wait

ASSUME DiscoveryConstants ==
  /\ Interval \in Nat \ {0} /\ FirstDelay \in Nat /\ Second \in Nat \ {0}
  /\ Timeout \in Nat /\ MaxTime \in Nat /\ MaxJobs \in Nat

\* A request, whose urls are a list; "unset" is no uri.
IsRequest(r) ==
  /\ r = [uri |-> r.uri, name |-> r.name, urls |-> r.urls, sem |-> r.sem, online |-> r.online, caps |-> r.caps]
  /\ r.urls \in Seq(ToSet(r.urls)) /\ r.online \in BOOLEAN /\ r.uri # "unset"

ASSUME RequestConstants ==
  /\ \A r \in Requests \cup {OwnRequest} : IsRequest(r)
  /\ Layers \in Seq(ToSet(Layers)) /\ SelfUri # "unset"
  /\ \A asked \in Queries : asked \in Seq(ToSet(asked)) /\ "unset" \notin ToSet(asked)

\* What a server can count on: its own requests are in order and nobody else sends
\* one in its name, and a registration does not grow old between two of them.
ASSUME OwnConstants ==
  /\ OwnRequest.online /\ OwnRequest.name # "none" /\ OwnAppName # "none" /\ OwnRequest.sem = "none" /\ OwnRequest.urls # <<>>
  /\ \A r \in Requests : r.uri # OwnRequest.uri
  /\ Timeout = 0 \/ Timeout * Second >= Interval

VARIABLES
  registered,    \* server->registeredServers, from the head: [req, lastSeen]
  registeredServersSize,
  published,     \* of the mDNS daemon: its records and the domains gone astray,
                 \* of which it lost a service that was not withdrawn
  files,         \* the semaphore files that exist
  now,           \* the clock
  jobs,          \* register jobs of Own: [retry, due, interval]
  reachable,     \* the discovery server answers
  since,         \* when it last began to answer
  reply,         \* of the last step, when it was a service
  running        \* the discovery server has not been shut down or broken
discVars == <<registered, registeredServersSize, published, files, now, jobs, reachable, since, reply, running>>

NoReply == [st |-> "none", servers |-> <<>>, asked |-> <<>>]

--------------------------------------------------------------------------------
(* The published records *)

\* createFullServiceDomain: servername-hostname (the limit of 63 characters is
\* left out).
Domain(name, url) == <<name, url.host>>
PointersName == <<"_opcua-tcp">>

\* A record under its name, and the domain a pointer leads to.  Only a service has a
\* port.  A service and a text are unique: they are probed for before they are
\* out.  A withdrawn record is ending until its end has been sent.
Rec(type, name, domain, port, stage) ==
  [type |-> type, name |-> name, domain |-> domain, port |-> port, path |-> "", caps |-> {}, stage |-> stage]
Ptr(domain) == Rec("PTR", PointersName, domain, 0, "out")
Srv(domain, port) == Rec("SRV", domain, domain, port, "probing")
Addresses(domain) == {Rec("A", domain, domain, 0, "out"), Rec("A", <<domain[2]>>, domain, 0, "out")}
Txt(domain, path, caps) ==
  [Rec("TXT", domain, domain, 0, "probing") EXCEPT !.path = IF path = "" THEN "/" ELSE path, !.caps = IF caps = {} THEN {"NA"} ELSE caps]

\* mdnsd_get_published: the whole list the name is kept in, other names as well.
mdnsd_get_published(recs, name) == {r \in recs : Bucket(r.name) = Bucket(name)}

\* mdns_find_record: the pointer to a domain, an ending one too.
PointersTo(recs, dom) == {r \in mdnsd_get_published(recs, PointersName) : r.type = "PTR" /\ r.domain = dom}

\* mdnsd_done: a record that is still probed for goes at once.
mdnsd_done(recs, gone) ==
  (recs \ gone) \cup {[r EXCEPT !.stage = "ending"] : r \in {q \in gone : q.stage # "probing"}}

UA_Discovery_recordExists(recs, dom, port) ==
  \E r \in mdnsd_get_published(recs, dom) : r.type = "SRV" /\ (port = 0 \/ r.port = port)

\* UA_Discovery_addRecord.  A domain may have several services, one per port.
UA_Discovery_addRecord(pub, name, url, caps, createTxt) ==
  LET dom == Domain(name, url)
      pointer == IF PointersTo(pub.recs, dom) = {} THEN {Ptr(dom)} ELSE {}
      text == IF createTxt THEN {Txt(dom, url.path, caps)} ELSE {}
  IN IF url.host = "" \/ name = "" \/ UA_Discovery_recordExists(pub.recs, dom, url.port) THEN pub
     ELSE [recs |-> pub.recs \cup {Srv(dom, url.port)} \cup pointer \cup Addresses(dom) \cup text,
           astray |-> pub.astray \ {dom}]

\* What is withdrawn with a domain: every record of its list that has the port, and the
\* texts and addresses if asked for.  The names are not compared.
TakenAlong(recs, dom, port, removeTxt) ==
  {r \in mdnsd_get_published(recs, dom) : r.port = port \/ (removeTxt /\ r.type \in {"TXT", "A"})}

\* UA_Discovery_removeRecord: without a pointer to the domain nothing is done,
\* so the second service of a domain stays.
UA_Discovery_removeRecord(pub, name, url, removeTxt) ==
  LET dom == Domain(name, url)
      recs == mdnsd_done(pub.recs, PointersTo(pub.recs, dom))
      gone == TakenAlong(recs, dom, url.port, removeTxt)
  IN IF url.host = "" \/ name = "" \/ PointersTo(pub.recs, dom) = {} THEN pub
     ELSE [recs |-> mdnsd_done(recs, gone),
           astray |-> (pub.astray \ {dom}) \cup ({r.name : r \in {q \in gone : q.type = "SRV"}} \ {dom})]

\* UA_Discovery_update_MdnsForDiscoveryUrl
Updated(pub, req, url, updateTxt) ==
  IF ~url.valid THEN pub
  ELSE IF req.online THEN UA_Discovery_addRecord(pub, req.name, url, req.caps, updateTxt)
  ELSE UA_Discovery_removeRecord(pub, req.name, url, updateTxt)

\* The loop over the urls of a request, with the text for those of texts.
UpdatedFor(pub, req, texts) ==
  LET upto[k \in 0..Len(req.urls)] ==
        IF k = 0 THEN pub ELSE Updated(upto[k-1], req, req.urls[k], k \in texts)
  IN upto[Len(req.urls)]

\* Online, the first url comes with the text.  Offline, the text is to go with the
\* last; the index it is compared with is the number of urls, never reached.
PublishedFor(pub, req) == UpdatedFor(pub, req, IF req.online THEN {1} ELSE {Len(req.urls) + 1})

\* startMulticastDiscoveryServer: the server's own records, one per layer.
startMulticastDiscoveryServer ==
  UpdatedFor([recs |-> {}, astray |-> {}], [name |-> SelfUri, urls |-> Layers, online |-> TRUE, caps |-> {}], DOMAIN Layers)

\* mdnsd_step sends the ends of records; those of the shared ones may have to wait.
EndsSent(pub, waiting) == [pub EXCEPT !.recs = {r \in @ : r.stage # "ending" \/ r.type \in waiting}]
Waiting == {{}, {"PTR", "A"}}

\* iterateMulticastDiscoveryServer: ends are sent, or nobody objected to the names.
iterateMulticastDiscoveryServer ==
  /\ \/ \E waiting \in Waiting : published' = EndsSent(published, waiting)
     \/ published' = [published EXCEPT !.recs = {[r EXCEPT !.stage = IF @ = "probing" THEN "out" ELSE @] : r \in @}]
  /\ reply' = NoReply
  /\ UNCHANGED <<registered, registeredServersSize, files, now, jobs, reachable, since>>

\* UA_Discovery_multicastConflict only logs that a name is used by somebody else; the
\* daemon withdraws the record.
UA_Discovery_multicastConflict ==
  /\ \E r \in {q \in published.recs : q.type \in {"SRV", "TXT"} /\ q.name \in Claimed} :
       published' = [recs |-> mdnsd_done(published.recs, {r}),
                     astray |-> IF r.type = "SRV" THEN published.astray \cup {r.name} ELSE published.astray]
  /\ reply' = NoReply
  /\ UNCHANGED <<registered, registeredServersSize, files, now, jobs, reachable, since>>

\* stopMulticastDiscoveryServer, at shutdown: only the default port of this host.
stopMulticastDiscoveryServer ==
  /\ running' = FALSE
  /\ \E waiting \in Waiting :
       published' = EndsSent(UA_Discovery_removeRecord(published, SelfUri, [host |-> HostName, port |-> DefaultPort], TRUE), waiting)
  /\ reply' = NoReply
  /\ UNCHANGED <<registered, registeredServersSize, files, now, jobs, reachable, since>>

--------------------------------------------------------------------------------
(* Services of the discovery server *)

Entry(req) == [req |-> req, lastSeen |-> now]
IsRegistered(uri) == \E k \in DOMAIN registered : registered[k].req.uri = uri
Without(list, uri) == RemoveFirstMatch(list, LAMBDA e : e.req.uri = uri)

\* Mutant: the entry that is there keeps the time it was made.
Entered_keepsTime(req) ==
  IF IsRegistered(req.uri)
  THEN [k \in DOMAIN registered |-> IF registered[k].req.uri = req.uri THEN [registered[k] EXCEPT !.req = req] ELSE registered[k]]
  ELSE <<Entry(req)>> \o registered

\* An entry that is there is filled again at its place, a new one goes to the head.
Entered(req) ==
  IF IsRegistered(req.uri)
  THEN [k \in DOMAIN registered |-> IF registered[k].req.uri = req.uri THEN Entry(req) ELSE registered[k]]
  ELSE <<Entry(req)>> \o registered

Refusal(req) ==
  IF req.name = "none" THEN "BadServerNameMissing"
  ELSE IF req.urls = <<>> THEN "BadDiscoveryUrlMissing"
  ELSE IF req.sem # "none" /\ req.sem \notin files THEN "BadSemaphoreFileMissing"
  ELSE "Good"

Answers(st) == reply' = [st |-> st, servers |-> <<>>, asked |-> <<>>]

\* process_RegisterServer.  The records are updated before the list is looked at.
process_RegisterServer(req) ==
  \/ /\ Refusal(req) # "Good"
     /\ Answers(Refusal(req))
     /\ UNCHANGED <<registered, registeredServersSize, published>>
  \/ /\ Refusal(req) = "Good" /\ ~req.online /\ ~IsRegistered(req.uri)
     /\ published' = PublishedFor(published, req)
     /\ Answers("BadNotFound")
     /\ UNCHANGED <<registered, registeredServersSize>>
  \/ /\ Refusal(req) = "Good" /\ ~req.online /\ IsRegistered(req.uri)
     /\ published' = PublishedFor(published, req)
     /\ registered' = Without(registered, req.uri)
     /\ registeredServersSize' = registeredServersSize - 1
     /\ Answers("Good")
  \/ /\ Refusal(req) = "Good" /\ req.online
     /\ published' = PublishedFor(published, req)
     /\ registered' = Entered(req)
     /\ registeredServersSize' = registeredServersSize + (IF IsRegistered(req.uri) THEN 0 ELSE 1)
     /\ Answers("Good")

Service_RegisterServer2 ==
  /\ reachable
  /\ \E req \in Requests : process_RegisterServer(req)
  /\ UNCHANGED <<files, now, jobs, reachable, since>>

\* A registration ends when its file is gone, or, file or not, when it is old.
TimedOut(e) ==
  \/ e.req.sem # "none" /\ e.req.sem \notin files
  \/ Timeout # 0 /\ e.lastSeen < now - Timeout * Second

\* The walk over the list, which counts down for each entry it removes.
CleanedUpTo ==
  LET upto[k \in 0..Len(registered)] ==
        IF k = 0 THEN [list |-> <<>>, size |-> registeredServersSize]
        ELSE IF TimedOut(registered[k]) THEN [upto[k-1] EXCEPT !.size = @ - 1]
        ELSE [upto[k-1] EXCEPT !.list = Append(@, registered[k])]
  IN upto

\* UA_Discovery_cleanupTimedOut, called by UA_Server_cleanup; the published
\* records stay.
UA_Discovery_cleanupTimedOut ==
  LET rest == CleanedUpTo[Len(registered)]
  IN /\ registered' = rest.list
     /\ registeredServersSize' = rest.size
     /\ reply' = NoReply
     /\ UNCHANGED <<published, files, now, jobs, reachable, since>>

\* Service_FindServers: the server itself first.  The array holds 1 + size
\* descriptions when no uris are given, and the ones found otherwise; what is
\* not written of it is "unset".
Written(uris, size) == [k \in 1..size |-> IF k <= Len(uris) THEN uris[k] ELSE "unset"]

\* The uris asked for, one by one; the server itself is recognized once.  There is
\* room for as many pointers as there are registrations.
Filtered(asked) ==
  LET upto[k \in 0..Len(asked)] ==
        IF k = 0 THEN [self |-> <<>>, uris |-> <<>>]
        ELSE IF asked[k] = SelfUri /\ upto[k-1].self = <<>> THEN [upto[k-1] EXCEPT !.self = <<SelfUri>>]
        ELSE IF IsRegistered(asked[k]) THEN [upto[k-1] EXCEPT !.uris = Append(@, asked[k])]
        ELSE upto[k-1]
  IN upto

FoundUris(asked) ==
  IF asked = <<>>
  THEN Written(<<SelfUri>> \o [k \in 1..Len(registered) |-> registered[k].req.uri], 1 + registeredServersSize)
  ELSE Filtered(asked)[Len(asked)].self \o Filtered(asked)[Len(asked)].uris

Overflows(asked) == Len(Filtered(asked)[Len(asked)].uris) > registeredServersSize

\* Beyond the room anything may happen: the model ends.
Service_FindServers ==
  /\ reachable
  /\ \E asked \in Queries :
       \/ /\ Overflows(asked)
          /\ reply' = [st |-> "Overflow", servers |-> <<>>, asked |-> asked] /\ running' = FALSE
       \/ /\ ~Overflows(asked)
          /\ reply' = [st |-> "Found", servers |-> FoundUris(asked), asked |-> asked] /\ UNCHANGED running
  /\ UNCHANGED <<registered, registeredServersSize, published, files, now, jobs, reachable, since>>

\* Service_GetEndpoints: the endpoint url of the client, or one endpoint for each
\* network layer.
Service_GetEndpoints ==
  /\ reachable
  /\ \E url \in {<<>>, <<"asked">>} : reply' = [st |-> "Endpoints", servers |-> IF url = <<>> THEN Layers ELSE url, asked |-> <<>>]
  /\ UNCHANGED <<registered, registeredServersSize, published, files, now, jobs, reachable, since>>

--------------------------------------------------------------------------------
(* The jobs of the server that registers *)

Job(retry, delay, interval) == [retry |-> retry, due |-> now + delay, interval |-> interval]

\* UA_Server_addPeriodicServerRegisterJob (called once, before the server runs)
UA_Server_addPeriodicServerRegisterJob ==
  <<[retry |-> FALSE, due |-> Interval, interval |-> 0]>>
  \o (IF FirstDelay > 0 THEN <<[retry |-> TRUE, due |-> FirstDelay, interval |-> 1]>> ELSE <<>>)

\* The job after it fired: a retry job is removed, the periodic one repeats.
JobAfter(j) == IF j.retry THEN <<>> ELSE <<[j EXCEPT !.due = @ + Interval]>>

\* The next attempt of a chain of retries, in seconds: compared with the interval
\* as it is, in milliseconds.
nextInterval(j) == IF j.retry THEN j.interval * 2 ELSE 1
Retry(j) == IF nextInterval(j) < Interval THEN <<Job(TRUE, nextInterval(j) * Second, nextInterval(j))>> ELSE <<>>

Left(k, failed) == RemoveAt(jobs, k) \o JobAfter(jobs[k]) \o (IF failed THEN Retry(jobs[k]) ELSE <<>>)

\* A client of its own connects and sends RegisterServer2 and, when the server does
\* not know that service, RegisterServer, which carries no capabilities and the name
\* of the application instead of the one for mDNS.
FallbackRequest == [OwnRequest EXCEPT !.caps = {}, !.name = OwnAppName]
register_server_with_discovery_server ==
  /\ reachable
  /\ process_RegisterServer(IF Register2 THEN OwnRequest ELSE FallbackRequest)

periodicServerRegister(k) ==
  /\ jobs[k].due <= now
  /\ \/ /\ register_server_with_discovery_server
        /\ jobs' = Left(k, reply'.st # "Good")
     \/ /\ ~reachable
        /\ jobs' = Left(k, TRUE)
        /\ reply' = NoReply
        /\ UNCHANGED <<registered, registeredServersSize, published>>
  /\ Len(jobs') <= MaxJobs
  /\ UNCHANGED <<files, now, reachable, since>>

--------------------------------------------------------------------------------
(* The surroundings *)

FileAppears == \E f \in Files \ files : files' = files \cup {f}
FileDeleted == \E f \in files : files' = files \ {f}
FileChanges ==
  /\ FileAppears \/ FileDeleted
  /\ reply' = NoReply
  /\ UNCHANGED <<registered, registeredServersSize, published, now, jobs, reachable, since>>

\* The discovery server is cut off or answers again (it keeps its list).
ReachChanges ==
  /\ reachable' = ~reachable
  /\ since' = now
  /\ reply' = NoReply
  /\ UNCHANGED <<registered, registeredServersSize, published, files, now, jobs>>

\* Jobs that are due run before the clock goes on.
Tick ==
  /\ now < MaxTime
  /\ \A k \in DOMAIN jobs : jobs[k].due > now
  /\ now' = now + 1
  /\ reply' = NoReply
  /\ UNCHANGED <<registered, registeredServersSize, published, files, jobs, reachable, since>>

DiscInit ==
  /\ registered = <<>> /\ registeredServersSize = 0
  /\ published = startMulticastDiscoveryServer /\ files = Files /\ running = TRUE
  /\ now = 0
  /\ jobs = UA_Server_addPeriodicServerRegisterJob
  /\ reachable = TRUE /\ since = 0
  /\ reply = NoReply

DiscNext ==
  \/ /\ running /\ UNCHANGED running
     /\ \/ Service_RegisterServer2 \/ UA_Discovery_cleanupTimedOut \/ Service_GetEndpoints
        \/ \E k \in DOMAIN jobs : periodicServerRegister(k)
        \/ iterateMulticastDiscoveryServer \/ UA_Discovery_multicastConflict
        \/ FileChanges \/ ReachChanges \/ Tick
  \/ running /\ (Service_FindServers \/ stopMulticastDiscoveryServer)

DiscSpec == DiscInit /\ [][DiscNext]_discVars

--------------------------------------------------------------------------------
(* Properties *)

\* FindServers writes every description it has announced the room for, and no
\* more: the counter it allocates by follows the list through registrations,
\* repetitions, withdrawals, deleted files and timeouts.  It writes past the room
\* for the pointers only for a client that asks for a uri twice.
FindServersExact ==
  /\ reply.st = "Found" =>
       /\ \A k \in DOMAIN reply.servers : reply.servers[k] # "unset"
       /\ registeredServersSize = Len(registered)
       /\ \A i, j \in DOMAIN registered : i # j => registered[i].req.uri # registered[j].req.uri
  /\ reply.st = "Overflow" => \E i, j \in DOMAIN reply.asked : i # j /\ reply.asked[i] = reply.asked[j]

\* A server whose registration succeeds every time stays registered: once the
\* discovery server has answered for one interval, the server is in the list,
\* however many attempts failed before and whatever was cleaned up.
StaysRegistered ==
  reachable /\ now - since > Interval /\ now > Interval => IsRegistered(OwnRequest.uri)

\* A client that follows a pointer that is not withdrawn finds a service there: pointers
\* and services of the urls of one server are added and withdrawn together, also while
\* the end of a withdrawn one has not been sent.  Two things break this, and the domain
\* is marked: the withdrawal of a domain that is kept in the same list of the table
\* takes services of the same port along, and the daemon withdraws a service whose
\* name is used by somebody else.
PointerHasService ==
  \A r \in published.recs : r.type = "PTR" /\ r.stage # "ending" =>
    \/ r.domain \in published.astray
    \/ \E q \in published.recs : q.type = "SRV" /\ q.stage # "ending" /\ q.name = r.domain

\* The registrations, what FindServers says of them and what is published follow
\* each other.
RegistrationsExact == FindServersExact /\ StaysRegistered /\ PointerHasService
================================================================================
