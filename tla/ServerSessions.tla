--------------------------- MODULE ServerSessions ---------------------------
(***************************************************************************)
(* The server's connections, secure channels and sessions, which point at  *)
(* each other, and the main loop that creates, links and frees them        *)
(* (src/open62541_mqtt: plugins/ua_network_tcp.c, src/ua_connection.c,     *)
(* src/ua_securechannel.c, src/ua_session.c, src/server/ua_server_binary.c,*)
(* ua_securechannel_manager.c, ua_session_manager.c, ua_services_session.c *)
(* and ua_server_worker.c), in the default build without threads.          *)
(*                                                                         *)
(* The constants Conns, Channels and Sessions are the addresses malloc can *)
(* return for the three structs: a freed address is used again.  One       *)
(* iteration of the loop runs the timer (phase "timer"), then the jobs of  *)
(* the network layer ("jobs"), then the delayed callbacks ("delayed").     *)
(* The order inside the channel list, the session list and the list of     *)
(* delayed callbacks is left open: a step may take any entry where the     *)
(* code takes the first.                                                   *)
(***************************************************************************)
EXTENDS Integers, FiniteSets

CONSTANTS Conns, Channels, Sessions,      \* addresses
          None,                           \* the null pointer
          maxSecureChannels, maxSessions  \* UA_ServerConfig

ASSUME AddressAssumption ==
    /\ IsFiniteSet(Conns) /\ IsFiniteSet(Channels) /\ IsFiniteSet(Sessions)
    /\ None \notin Conns \cup Channels \cup Sessions
    /\ Channels \cap Sessions = {}

ASSUME LimitAssumption == maxSecureChannels \in Nat /\ maxSessions \in Nat

VARIABLES
    connState,     \* connection->state, "none" where no connection is
    connChan,      \* connection->channel
    chanLife,      \* "listed" by the manager, "removed" from its list, "free"
    chanConn,      \* channel->connection
    chanSessions,  \* channel->sessions
    sessLife,      \* as chanLife, for the session manager
    sessChan,      \* session->channel
    activated,     \* the sessions with session->activated
    expired,       \* the channels and sessions whose lifetime is over
    renewed,       \* the channels with a nextSecurityToken
    channelCount,  \* currentChannelCount
    sessionCount,  \* currentSessionCount
    delayed,       \* how many delayed callbacks wait to free an entry
    phase,         \* where the main loop is
    job,           \* the message job in progress: its connection and channel
    reissued,      \* history: an ISSUE came on a connection with a channel
    oom            \* history: a failed malloc has had an effect

connVars == <<connState, connChan>>
chanVars == <<chanLife, chanConn, chanSessions, renewed, channelCount>>
sessVars == <<sessLife, sessChan, activated, sessionCount>>
loopVars == <<phase, job>>
history == <<reissued, oom>>
vars == <<connVars, chanVars, sessVars, expired, delayed, loopVars, history>>

Entries == Channels \cup Sessions
Lives == {"free", "listed", "removed"}
Listed == {c \in Channels : chanLife[c] = "listed"}
ListedSessions == {s \in Sessions : sessLife[s] = "listed"}

NoJob == [conn |-> None, chan |-> None]

TypeOK ==
    /\ connState \in [Conns -> {"none", "OPENING", "ESTABLISHED", "CLOSED"}]
    /\ connChan \in [Conns -> Channels \cup {None}]
    /\ chanLife \in [Channels -> Lives]
    /\ chanConn \in [Channels -> Conns \cup {None}]
    /\ chanSessions \in [Channels -> SUBSET Sessions]
    /\ sessLife \in [Sessions -> Lives]
    /\ sessChan \in [Sessions -> Channels \cup {None}]
    /\ activated \subseteq Sessions
    /\ expired \subseteq Entries
    /\ renewed \subseteq Channels
    /\ channelCount \in Nat /\ sessionCount \in Nat
    /\ delayed \in [Entries -> Nat]
    /\ phase \in {"timer", "jobs", "delayed", "deleting", "deleted", "fault"}
    /\ job \in [conn : Conns \cup {None}, chan : Channels \cup {None}]
    /\ reissued \in BOOLEAN /\ oom \in BOOLEAN

Init ==
    /\ connState = [k \in Conns |-> "none"]
    /\ connChan = [k \in Conns |-> None]
    /\ chanLife = [c \in Channels |-> "free"]
    /\ chanConn = [c \in Channels |-> None]
    /\ chanSessions = [c \in Channels |-> {}]
    /\ sessLife = [s \in Sessions |-> "free"]
    /\ sessChan = [s \in Sessions |-> None]
    /\ activated = {} /\ expired = {} /\ renewed = {}
    /\ channelCount = 0 /\ sessionCount = 0
    /\ delayed = [e \in Entries |-> 0]
    /\ phase = "timer" /\ job = NoJob
    /\ reissued = FALSE /\ oom = FALSE

-----------------------------------------------------------------------------
(* Links between the three structs.                                        *)

\* Mutant: the channel keeps its connection.
detachSecureChannel_keepsBackLink(k) ==
    /\ connChan' = [connChan EXCEPT ![k] = None]
    /\ UNCHANGED chanConn

\* The channel of connection k forgets k, if it still points at k.
UA_Connection_detachSecureChannel(k) ==
    /\ connChan' = [connChan EXCEPT ![k] = None]
    /\ chanConn' = [c \in Channels |->
                       IF c = connChan[k] /\ chanConn[c] = k THEN None ELSE chanConn[c]]

\* Free channel c: the connection it points at is detached, whichever channel
\* that connection has, and the sessions attached to c forget it.  If the
\* connection is freed memory, nothing more is said ("fault").
UA_SecureChannel_deleteMembersCleanup(c) ==
    LET k == chanConn[c] IN
    /\ phase' = IF k # None /\ connState[k] = "none" THEN "fault" ELSE phase
    /\ connChan' = [j \in Conns |-> IF j = k THEN None ELSE connChan[j]]
    /\ chanConn' = [d \in Channels |->
                       IF d = c \/ (k # None /\ d = connChan[k] /\ chanConn[d] = k)
                       THEN None ELSE chanConn[d]]
    /\ sessChan' = [s \in Sessions |->
                       IF s \in chanSessions[c] THEN None ELSE sessChan[s]]
    /\ chanSessions' = [chanSessions EXCEPT ![c] = {}]
    /\ chanLife' = [chanLife EXCEPT ![c] = "free"]
    /\ renewed' = renewed \ {c}

\* Mutant: the channel keeps the freed session in its list.
Session_deleteMembersCleanup_attached(s) ==
    /\ sessChan' = [sessChan EXCEPT ![s] = None]
    /\ sessLife' = [sessLife EXCEPT ![s] = "free"]
    /\ activated' = activated \ {s}
    /\ UNCHANGED chanSessions

\* Free session s: it leaves the list of its channel.
UA_Session_deleteMembersCleanup(s) ==
    /\ chanSessions' = [c \in Channels |->
                           IF c = sessChan[s] THEN chanSessions[c] \ {s} ELSE chanSessions[c]]
    /\ sessChan' = [sessChan EXCEPT ![s] = None]
    /\ sessLife' = [sessLife EXCEPT ![s] = "free"]
    /\ activated' = activated \ {s}

\* UA_Server_delayedCallback for the entries E, which leave their lists.
delayedCallback(E) ==
    delayed' = [e \in Entries |-> IF e \in E THEN delayed[e] + 1 ELSE delayed[e]]

removeSecureChannels(C) ==
    /\ chanLife' = [c \in Channels |-> IF c \in C THEN "removed" ELSE chanLife[c]]
    /\ channelCount' = channelCount - Cardinality(C)

removeSessions(S) ==
    /\ sessLife' = [s \in Sessions |-> IF s \in S THEN "removed" ELSE sessLife[s]]
    /\ sessionCount' = sessionCount - Cardinality(S)

-----------------------------------------------------------------------------
(* The timer: UA_Server_cleanup every ten seconds, time passing.           *)

\* Mutant: a channel is kept until its token expires.
cleanup_byTokenOnly(Lost) ==
    LET S == ListedSessions \cap expired
        C == Listed \cap expired
    IN
    /\ phase = "timer" /\ phase' = "jobs"
    /\ Lost = {}
    /\ removeSessions(S) /\ removeSecureChannels(C) /\ delayedCallback(S \cup C)
    /\ activated' = activated \ S
    /\ renewed' = renewed \ (Listed \ C)
    /\ UNCHANGED <<connVars, chanConn, chanSessions, sessChan, expired, job, history>>

\* Mutant: a session that timed out is only deactivated.
cleanup_deactivates(Lost) ==
    LET C == {c \in Listed : c \in expired \/ chanConn[c] = None} IN
    /\ phase = "timer" /\ phase' = "jobs"
    /\ Lost = {}
    /\ removeSecureChannels(C) /\ delayedCallback(C)
    /\ activated' = activated \ expired
    /\ renewed' = renewed \ (Listed \ C)
    /\ UNCHANGED <<connVars, chanConn, chanSessions, sessLife, sessionCount, sessChan, expired,
                   job, history>>

\* Lost is what the allocation of a delayed callback failed for: it stays in
\* its list until the next cleanup, but a session is deactivated all the same.
UA_Server_cleanup(Lost) ==
    LET S == ListedSessions \cap expired
        C == {c \in Listed : c \in expired \/ chanConn[c] = None}
    IN
    /\ phase = "timer" /\ phase' = "jobs"
    /\ Lost \subseteq S \cup C
    /\ removeSessions(S \ Lost)
    /\ removeSecureChannels(C \ Lost)
    /\ delayedCallback((S \cup C) \ Lost)
    /\ oom' = (oom \/ Lost # {})
    /\ activated' = activated \ S
    /\ renewed' = renewed \ (Listed \ C)
    /\ UNCHANGED <<connVars, chanConn, chanSessions, sessChan, expired, job, reissued>>

\* No timer is due in this iteration.
NothingDue ==
    /\ phase = "timer" /\ phase' = "jobs"
    /\ UNCHANGED <<connVars, chanVars, sessVars, expired, delayed, job, history>>

\* The lifetime of a token or a session passes.
Expire(e) ==
    /\ phase = "jobs" /\ job = NoJob
    /\ \/ e \in Channels /\ chanLife[e] # "free"
       \/ e \in Sessions /\ sessLife[e] # "free"
    /\ expired' = expired \cup {e}
    /\ UNCHANGED <<connVars, chanVars, sessVars, delayed, loopVars, history>>

-----------------------------------------------------------------------------
(* Jobs of the network layer.                                              *)

ServerNetworkLayerTCP_add(k) ==
    /\ phase = "jobs" /\ job = NoJob
    /\ connState[k] = "none"
    /\ connState' = [connState EXCEPT ![k] = "OPENING"]
    /\ connChan' = [connChan EXCEPT ![k] = None]
    /\ UNCHANGED <<chanVars, sessVars, expired, delayed, loopVars, history>>

\* The remote side closed the connection, or the server did so before: the
\* detach job and right after it the job that frees the struct.
closeConnection(k) ==
    /\ phase = "jobs" /\ job = NoJob
    /\ connState[k] # "none"
    /\ UA_Connection_detachSecureChannel(k)
    /\ connState' = [connState EXCEPT ![k] = "none"]
    /\ UNCHANGED <<chanLife, chanSessions, renewed, channelCount, sessVars, expired, delayed,
                   loopVars, history>>

\* A buffer arrived on k; the messages in it are handled with the channel k
\* has now.  A buffer that comes without a channel holds one message.
UA_Server_processBinaryMessage(k) ==
    /\ phase = "jobs" /\ job = NoJob
    /\ connState[k] # "none"
    /\ job' = [conn |-> k, chan |-> connChan[k]]
    /\ UNCHANGED <<connVars, chanVars, sessVars, expired, delayed, phase, history>>

\* The end of a buffer.  No message of it was valid, or all are done.
JobDone ==
    /\ job # NoJob
    /\ job' = NoJob
    /\ UNCHANGED <<connVars, chanVars, sessVars, expired, delayed, phase, history>>

\* The server gives the connection of the job up: only shutdown() for now.
Closing == connState' = [connState EXCEPT ![job.conn] = "CLOSED"]

\* The reply goes out, or sending it closes the connection.
Reply == \/ UNCHANGED connState
         \/ Closing

processHEL ==
    /\ job # NoJob /\ job.chan = None
    /\ \/ connState' = [connState EXCEPT ![job.conn] = "ESTABLISHED"]
       \/ Closing
    /\ job' = NoJob
    /\ UNCHANGED <<connChan, chanVars, sessVars, expired, delayed, phase, history>>

\* MSG, CLO or an unknown message without a channel; an OPN that comes before
\* HEL, does not decode, or names another channel than the connection has; an
\* error reply on a channel that cannot be sent.
Refuse ==
    /\ job # NoJob
    /\ Closing
    /\ job' = IF job.chan = None THEN NoJob ELSE job
    /\ UNCHANGED <<connChan, chanVars, sessVars, expired, delayed, phase, history>>

\* The OPN names the channel the connection has now, or none if it has none.
ValidOPN == job # NoJob /\ connState[job.conn] = "ESTABLISHED" /\ connChan[job.conn] = job.chan

OPNDone == job' = IF job.chan = None THEN NoJob ELSE job

\* Room for one more channel: there is some, or a channel without a session
\* is purged (P).  A purge that is lost for want of memory counts as well.
Room(P, lost) ==
    \/ channelCount < maxSecureChannels /\ P = {} /\ ~lost
    \/ /\ channelCount >= maxSecureChannels
       /\ \E c \in Listed : chanSessions[c] = {} /\ P = IF lost THEN {} ELSE {c}

\* An OPN with ISSUE that succeeds.
UA_SecureChannelManager_open(c) ==
    /\ ValidOPN
    /\ chanLife[c] = "free"
    /\ \E P \in SUBSET Listed, lost \in BOOLEAN :
         /\ Room(P, lost)
         /\ chanLife' = [d \in Channels |-> IF d = c THEN "listed"
                                            ELSE IF d \in P THEN "removed" ELSE chanLife[d]]
         /\ channelCount' = channelCount - Cardinality(P) + 1
         /\ delayedCallback(P)
         /\ oom' = (oom \/ lost)
    /\ chanConn' = [chanConn EXCEPT ![c] = job.conn]
    /\ connChan' = [connChan EXCEPT ![job.conn] = c]
    /\ chanSessions' = [chanSessions EXCEPT ![c] = {}]
    /\ renewed' = renewed \ {c}
    /\ expired' = expired \ {c}
    /\ reissued' = (reissued \/ job.chan # None)
    /\ Reply
    /\ OPNDone
    /\ UNCHANGED <<sessVars, phase>>

\* An OPN with ISSUE that is rejected for its security mode, finds no room, or
\* purges a channel and then gets no memory.  Without a channel the connection
\* is closed.
openFails ==
    /\ ValidOPN
    /\ \E P \in SUBSET Listed, lost \in BOOLEAN :
         /\ (P = {} /\ ~lost) \/ Room(P, lost)
         /\ removeSecureChannels(P)
         /\ delayedCallback(P)
         /\ oom' \in {oom \/ lost, TRUE}
    /\ IF job.chan = None THEN Closing ELSE Reply
    /\ OPNDone
    /\ UNCHANGED <<connChan, chanConn, chanSessions, renewed, sessVars, expired, phase, reissued>>

UA_SecureChannelManager_renew ==
    /\ ValidOPN
    /\ renewed' = IF job.chan = None THEN renewed ELSE renewed \cup {job.chan}
    /\ IF job.chan = None THEN Closing ELSE Reply
    /\ OPNDone
    /\ UNCHANGED <<connChan, chanLife, chanConn, chanSessions, channelCount, sessVars, expired,
                   delayed, phase, history>>

\* A chunk signed with the next token makes it the current one.
UA_SecureChannel_revolveTokens ==
    /\ job # NoJob /\ job.chan \in renewed
    /\ renewed' = renewed \ {job.chan}
    /\ expired' = expired \ {job.chan}
    /\ UNCHANGED <<connVars, chanLife, chanConn, chanSessions, channelCount, sessVars, delayed,
                   loopVars, history>>

\* CLO.  The channel may have been removed by an earlier message.
UA_SecureChannelManager_close ==
    /\ job # NoJob /\ job.chan # None
    /\ chanLife[job.chan] = "listed"
    /\ \/ /\ removeSecureChannels({job.chan})
          /\ delayedCallback({job.chan})
          /\ UNCHANGED oom
       \/ oom' = TRUE /\ UNCHANGED <<chanLife, channelCount, delayed>>
    /\ UNCHANGED <<connVars, chanConn, chanSessions, renewed, sessVars, expired, loopVars, reissued>>

-----------------------------------------------------------------------------
(* Sessions: MSG on the channel of the job.                                *)

InMSG == job # NoJob /\ job.chan # None

\* A failure after the entry was made removes it again, if that gets memory.
Service_CreateSession(s) ==
    /\ InMSG
    /\ sessionCount < maxSessions
    /\ sessLife[s] = "free"
    /\ \/ /\ sessLife' = [sessLife EXCEPT ![s] = "listed"]
          /\ sessionCount' = sessionCount + 1
          /\ oom' \in {oom, TRUE}
          /\ UNCHANGED delayed
       \/ /\ sessLife' = [sessLife EXCEPT ![s] = "removed"]
          /\ delayedCallback({s})
          /\ oom' = TRUE
          /\ UNCHANGED sessionCount
    /\ sessChan' = [sessChan EXCEPT ![s] = None]
    /\ activated' = activated \ {s}
    /\ expired' = expired \ {s}
    /\ Reply
    /\ UNCHANGED <<connChan, chanVars, loopVars, reissued>>

\* The session a token names: first the ones attached to the channel, alive or
\* not, then the listed ones that have not timed out.
GetSession(s) ==
    \/ s \in chanSessions[job.chan]
    \/ sessLife[s] = "listed" /\ s \notin expired

\* Attach s to the channel of the job, from wherever it was.  Without memory
\* for the list entry it is activated but attached to nothing, unless it was
\* on this channel before.
Service_ActivateSession(s) ==
    /\ InMSG
    /\ GetSession(s) /\ s \notin expired
    /\ \E new \in {job.chan, None} :
         /\ new = None => sessChan[s] # job.chan
         /\ sessChan' = [sessChan EXCEPT ![s] = new]
         /\ chanSessions' = [c \in Channels |->
                IF c = new THEN chanSessions[c] \cup {s} ELSE chanSessions[c] \ {s}]
         /\ oom' = (oom \/ new = None)
    /\ activated' = activated \cup {s}
    /\ Reply
    /\ UNCHANGED <<connChan, chanLife, chanConn, renewed, channelCount, sessLife, sessionCount,
                   expired, delayed, loopVars, reissued>>

\* A request on a session that is attached to this channel and, unless the
\* service needs no session, activated.
ServiceCall(s) ==
    /\ InMSG
    /\ s \in chanSessions[job.chan]
    /\ expired' = expired \ {s}
    /\ Reply
    /\ UNCHANGED <<connChan, chanVars, sessVars, delayed, loopVars, history>>

\* CloseSession on such a session, or any request on one that is known and
\* not activated: the session manager removes it, if it still lists it.
UA_SessionManager_removeSession(s) ==
    /\ InMSG
    /\ \/ s \in activated /\ s \in chanSessions[job.chan]
       \/ s \notin activated /\ GetSession(s)
    /\ IF sessLife[s] = "listed"
       THEN /\ activated' = activated \ {s}
            /\ \/ /\ removeSessions({s})
                  /\ delayedCallback({s})
                  /\ UNCHANGED oom
               \/ oom' = TRUE /\ UNCHANGED <<sessLife, sessionCount, delayed>>
       ELSE UNCHANGED <<activated, sessLife, sessionCount, delayed, oom>>
    /\ expired' = IF s \in activated THEN expired \ {s} ELSE expired
    /\ Reply
    /\ UNCHANGED <<connChan, chanVars, sessChan, loopVars, reissued>>

-----------------------------------------------------------------------------
(* Delayed callbacks, and the end of the server.                           *)

JobsDone ==
    /\ phase = "jobs" /\ job = NoJob
    /\ phase' = "delayed"
    /\ UNCHANGED <<connVars, chanVars, sessVars, expired, delayed, job, history>>

\* Mutant: the callback stays in the list after it has run.
CallbackDone_kept(e) == UNCHANGED delayed

CallbackDone(e) == delayed' = [delayed EXCEPT ![e] = @ - 1]

removeSecureChannelCallback(c) ==
    /\ phase = "delayed" /\ delayed[c] > 0
    /\ CallbackDone(c)
    /\ UA_SecureChannel_deleteMembersCleanup(c)
    /\ expired' = expired \ {c}
    /\ UNCHANGED <<connState, channelCount, sessLife, activated, sessionCount, job, history>>

removeSessionCallback(s) ==
    /\ phase = "delayed" /\ delayed[s] > 0
    /\ CallbackDone(s)
    /\ UA_Session_deleteMembersCleanup(s)
    /\ expired' = expired \ {s}
    /\ UNCHANGED <<connVars, chanLife, chanConn, renewed, channelCount, sessionCount, loopVars,
                   history>>

IterationDone ==
    /\ phase = "delayed" /\ \A e \in Entries : delayed[e] = 0
    /\ phase' = "timer"
    /\ UNCHANGED <<connVars, chanVars, sessVars, expired, delayed, job, history>>

\* The running flag is down: every connection is detached and freed.
UA_Server_run_shutdown ==
    /\ phase = "timer" /\ phase' = "deleting"
    /\ \/ /\ connState' = [k \in Conns |-> "none"]
          /\ connChan' = [k \in Conns |-> None]
          /\ chanConn' = [c \in Channels |->
                 IF \E k \in Conns : connState[k] # "none" /\ connChan[k] = c /\ chanConn[c] = k
                 THEN None ELSE chanConn[c]]
          /\ UNCHANGED oom
       \/ oom' = TRUE /\ UNCHANGED <<connVars, chanConn>>
    /\ UNCHANGED <<chanLife, chanSessions, renewed, channelCount, sessVars, expired, delayed,
                   job, reissued>>

UA_SecureChannelManager_deleteMembers(c) ==
    /\ phase = "deleting" /\ chanLife[c] = "listed"
    /\ UA_SecureChannel_deleteMembersCleanup(c)
    /\ expired' = expired \ {c}
    /\ channelCount' = channelCount - 1
    /\ UNCHANGED <<connState, sessLife, activated, sessionCount, delayed, job, history>>

UA_SessionManager_deleteMembers(s) ==
    /\ phase = "deleting" /\ Listed = {} /\ sessLife[s] = "listed"
    /\ UA_Session_deleteMembersCleanup(s)
    /\ expired' = expired \ {s}
    /\ sessionCount' = sessionCount - 1
    /\ UNCHANGED <<connVars, chanLife, chanConn, renewed, channelCount, delayed, loopVars,
                   history>>

\* Mutant: only the channels are deleted.
delete_channelsOnly ==
    /\ phase = "deleting" /\ Listed = {}
    /\ phase' = "deleted"
    /\ UNCHANGED <<connVars, chanVars, sessVars, expired, delayed, job, history>>

UA_Server_delete ==
    /\ phase = "deleting" /\ Listed = {} /\ ListedSessions = {}
    /\ phase' = "deleted"
    /\ UNCHANGED <<connVars, chanVars, sessVars, expired, delayed, job, history>>

-----------------------------------------------------------------------------

TimerStep ==
    \/ \E Lost \in SUBSET Entries : UA_Server_cleanup(Lost)
    \/ NothingDue
    \/ UA_Server_run_shutdown

NetworkStep ==
    \E k \in Conns : \/ ServerNetworkLayerTCP_add(k)
                     \/ closeConnection(k)
                     \/ UA_Server_processBinaryMessage(k)

ChannelStep ==
    \/ processHEL \/ Refuse \/ openFails
    \/ \E c \in Channels : UA_SecureChannelManager_open(c)
    \/ UA_SecureChannelManager_renew
    \/ UA_SecureChannel_revolveTokens
    \/ UA_SecureChannelManager_close

SessionStep ==
    \E s \in Sessions : \/ Service_CreateSession(s)
                        \/ Service_ActivateSession(s)
                        \/ ServiceCall(s)
                        \/ UA_SessionManager_removeSession(s)

DelayedStep ==
    \/ \E c \in Channels : removeSecureChannelCallback(c)
    \/ \E s \in Sessions : removeSessionCallback(s)
    \/ IterationDone

DeleteStep ==
    \/ \E c \in Channels : UA_SecureChannelManager_deleteMembers(c)
    \/ \E s \in Sessions : UA_SessionManager_deleteMembers(s)
    \/ UA_Server_delete

Next ==
    \/ TimerStep \/ NetworkStep \/ ChannelStep \/ SessionStep
    \/ \E e \in Entries : Expire(e)
    \/ JobDone \/ JobsDone \/ DelayedStep \/ DeleteStep

Spec == Init /\ [][Next]_vars

\* The thread of the main loop keeps running.  A batch of jobs and a buffer
\* are finite.  The cleanup is due again and again, and again and again it
\* gets the memory it asks for.
Fairness ==
    /\ WF_vars(TimerStep) /\ WF_vars(DelayedStep) /\ WF_vars(DeleteStep)
    /\ WF_vars(JobDone) /\ SF_vars(JobsDone)
    /\ SF_vars(UA_Server_cleanup({}))

FairSpec == Spec /\ Fairness

-----------------------------------------------------------------------------
(* Properties.                                                             *)

\* A session is in the list of exactly the channel it points at, and both are
\* allocated: whatever the order in which a channel is closed, a session is
\* moved to another channel or times out, and the delayed callbacks free them,
\* neither list nor pointer is left behind.
SessionLinks ==
    \A s \in Sessions, c \in Channels :
        /\ s \in chanSessions[c] <=> sessChan[s] = c
        /\ s \in chanSessions[c] => sessLife[s] # "free" /\ chanLife[c] # "free"

\* The channel a connection points at is allocated and points back.
ConnLinks ==
    \A k \in Conns, c \in Channels :
        connChan[k] = c =>
            connState[k] # "none" /\ chanLife[c] # "free" /\ chanConn[c] = k

\* As long as no client opens a second channel over a connection, the channel's
\* pointer to the connection is the inverse of the connection's pointer, so
\* that freeing a connection leaves no channel that points at it, and freeing
\* a channel detaches no other channel.
BackLinks ==
    ~reissued => \A k \in Conns, c \in Channels :
                     chanConn[c] = k => connChan[k] = c

\* Only a second ISSUE over one connection can make the server use a
\* connection it has freed.
NoUseAfterFree == phase = "fault" => reissued

\* Every entry taken off its list waits in exactly one delayed callback, and
\* no entry on a list or free does: nothing is freed twice or never.
FreedOnce ==
    /\ \A c \in Channels : delayed[c] = IF chanLife[c] = "removed" THEN 1 ELSE 0
    /\ \A s \in Sessions : delayed[s] = IF sessLife[s] = "removed" THEN 1 ELSE 0

\* The two capacity counters are the lengths of the lists.
Counts ==
    /\ channelCount = Cardinality(Listed)
    /\ sessionCount = Cardinality(ListedSessions)

\* The limits of the configuration hold; the one on channels only as long as
\* the purge of a channel could get the memory for its delayed callback.
Limits ==
    /\ sessionCount <= maxSessions
    /\ ~oom => channelCount <= maxSecureChannels

\* UA_assert(channel->connection): while the messages of a buffer are handled,
\* whatever the earlier ones closed, removed or reopened, the channel is
\* allocated and still has the connection the buffer came from.
JobChannelAttached ==
    job.chan # None => /\ chanLife[job.chan] # "free"
                       /\ chanConn[job.chan] = job.conn
                       /\ connState[job.conn] # "none"

\* After UA_Server_delete nothing is allocated.
NothingLeft ==
    phase = "deleted" =>
        /\ \A c \in Channels : chanLife[c] = "free"
        /\ \A s \in Sessions : sessLife[s] = "free"
        /\ ~oom => \A k \in Conns : connState[k] = "none"

-----------------------------------------------------------------------------
(* The inductive invariant.                                                *)

\* A message job belongs to the jobs phase and to a connection that is there.
JobOK ==
    /\ job # NoJob => phase = "jobs" /\ job.conn \in Conns
    /\ job.conn \in Conns => connState[job.conn] # "none"
    /\ JobChannelAttached

\* Callbacks wait only while the jobs run and until they are called.
Quiet ==
    phase \in {"timer", "deleting", "deleted"} => \A e \in Entries : delayed[e] = 0

Ending ==
    /\ phase \in {"deleting", "deleted"} /\ ~oom => \A k \in Conns : connState[k] = "none"
    /\ phase = "deleted" => Listed = {} /\ ListedSessions = {}

IInv ==
    /\ TypeOK /\ SessionLinks /\ ConnLinks /\ BackLinks /\ NoUseAfterFree
    /\ FreedOnce /\ Counts /\ Limits /\ JobOK /\ Quiet /\ Ending

-----------------------------------------------------------------------------
(* Liveness.                                                               *)

\* A channel that lost its connection is freed in the end, however often its
\* removal failed or its sessions are used from elsewhere.
DeadChannelFreed ==
    \A c \in Channels :
        chanLife[c] = "listed" /\ chanConn[c] = None ~> chanLife[c] = "free" \/ phase = "fault"

\* A session that timed out is freed in the end, unless it is used again.
DeadSessionFreed ==
    \A s \in Sessions :
        s \in expired ~> s \notin expired \/ phase = "fault"
=============================================================================
