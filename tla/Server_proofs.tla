---------------------------- MODULE Server_proofs ----------------------------
(***************************************************************************)
(* Proofs about the server.                                                *)
(*                                                                         *)
(* ServerSessions: the links, counters and lists stay consistent, for any  *)
(* number of connections, channels and sessions.                           *)
(* Mdns: what is kept of the servers heard of, and what a search finds.    *)
(* Discovery: the registrations, what is published of them, and the jobs   *)
(* that renew the own one.                                                 *)
(***************************************************************************)
EXTENDS ServerSessions, Discovery, Mdns, Numbers_proofs

-----------------------------------------------------------------------------
(* Connections, channels and sessions.                                     *)

\* Taking a part away from a finite set takes its size away from the count.
LEMMA CountMinus ==
    ASSUME NEW S, IsFiniteSet(S), NEW T \in SUBSET S
    PROVE  /\ Cardinality(S \ T) = Cardinality(S) - Cardinality(T)
           /\ Cardinality(S \ T) \in Nat
           /\ Cardinality(T) \in Nat
           /\ Cardinality(S) \in Nat
<1>1. S \cap T = T
  OBVIOUS
<1>2. IsFiniteSet(S \ T) /\ Cardinality(S \ T) = Cardinality(S) - Cardinality(S \cap T)
  BY FS_Difference
<1>3. IsFiniteSet(T)
  BY FS_Subset
<1> QED
  BY <1>1, <1>2, <1>3, FS_CardinalityType

\* The two lists are finite.
LEMMA ListsFinite == IsFiniteSet(Listed) /\ IsFiniteSet(ListedSessions)
<1>1. Listed \in SUBSET Channels /\ ListedSessions \in SUBSET Sessions
  BY DEF Listed, ListedSessions
<1> QED
  BY <1>1, FS_Subset, AddressAssumption

-----------------------------------------------------------------------------
(* Initial states.                                                         *)

LEMMA InitIInv == Init => IInv
<1> SUFFICES ASSUME Init PROVE IInv
  OBVIOUS
<1> USE AddressAssumption, LimitAssumption
<1>1. Listed = {} /\ ListedSessions = {}
  BY DEF Init, Listed, ListedSessions
<1>2. TypeOK
  BY DEF Init, TypeOK, NoJob, Lives, Entries
<1>3. SessionLinks /\ ConnLinks /\ BackLinks /\ NoUseAfterFree
  BY DEF Init, SessionLinks, ConnLinks, BackLinks, NoUseAfterFree
<1>4. FreedOnce /\ Quiet /\ Ending
  BY DEF Init, FreedOnce, Quiet, Ending, Entries
<1>5. Counts /\ Limits
  BY <1>1, FS_EmptySet DEF Init, Counts, Limits
<1>6. JobOK
  BY DEF Init, JobOK, JobChannelAttached, NoJob
<1> QED
  BY <1>2, <1>3, <1>4, <1>5, <1>6 DEF IInv

-----------------------------------------------------------------------------
(* Steps.                                                                  *)

CountsOK == Counts /\ channelCount \in Nat /\ sessionCount \in Nat


\* Every step keeps the two counters equal to the lengths of the lists.
LEMMA CountsStep == IInv /\ [Next]_vars => CountsOK'
<1> SUFFICES ASSUME IInv, [Next]_vars PROVE CountsOK'
  OBVIOUS
<1> USE AddressAssumption DEF IInv, TypeOK, CountsOK, Counts, connVars, chanVars, sessVars,
     loopVars, history
<1>1. ASSUME NEW Lost \in SUBSET Entries, UA_Server_cleanup(Lost)
     PROVE  CountsOK'
  <2> DEFINE S == (ListedSessions \cap expired) \ Lost
             C == {d \in Listed : d \in expired \/ chanConn[d] = None} \ Lost
  <2>1. Listed' = Listed \ C /\ ListedSessions' = ListedSessions \ S
    BY <1>1 DEF UA_Server_cleanup, removeSessions, removeSecureChannels, Listed, ListedSessions
  <2>2. /\ channelCount' = channelCount - Cardinality(C)
        /\ sessionCount' = sessionCount - Cardinality(S)
    BY <1>1 DEF UA_Server_cleanup, removeSessions, removeSecureChannels
  <2>3. C \in SUBSET Listed /\ S \in SUBSET ListedSessions
    OBVIOUS
  <2>4. /\ Cardinality(Listed \ C) = Cardinality(Listed) - Cardinality(C)
        /\ Cardinality(Listed \ C) \in Nat
    BY <2>3, CountMinus, ListsFinite
  <2>5. /\ Cardinality(ListedSessions \ S) = Cardinality(ListedSessions) - Cardinality(S)
        /\ Cardinality(ListedSessions \ S) \in Nat
    BY <2>3, CountMinus, ListsFinite
  <2> HIDE DEF S, C
  <2> QED
    BY <2>1, <2>2, <2>4, <2>5
<1>2. CASE NothingDue
  BY <1>2 DEF NothingDue, Listed, ListedSessions
<1>3. CASE UA_Server_run_shutdown
  BY <1>3 DEF UA_Server_run_shutdown, Listed, ListedSessions
<1>4. ASSUME NEW k \in Conns, ServerNetworkLayerTCP_add(k)
     PROVE  CountsOK'
  BY <1>4 DEF ServerNetworkLayerTCP_add, Listed, ListedSessions
<1>5. ASSUME NEW k \in Conns, closeConnection(k)
     PROVE  CountsOK'
  BY <1>5 DEF closeConnection, Listed, ListedSessions
<1>6. ASSUME NEW k \in Conns, UA_Server_processBinaryMessage(k)
     PROVE  CountsOK'
  BY <1>6 DEF UA_Server_processBinaryMessage, Listed, ListedSessions
<1>7. CASE processHEL
  BY <1>7 DEF processHEL, Listed, ListedSessions
<1>8. CASE Refuse
  BY <1>8 DEF Refuse, Listed, ListedSessions
<1>9. CASE openFails
  <2>1. PICK P \in SUBSET Listed : removeSecureChannels(P)
    BY <1>9 DEF openFails
  <2>2. Listed' = Listed \ P
    BY <2>1 DEF removeSecureChannels, Listed
  <2>3. UNCHANGED <<sessLife, sessionCount>>
    BY <1>9 DEF openFails
  <2>4. /\ Cardinality(Listed \ P) = Cardinality(Listed) - Cardinality(P)
        /\ Cardinality(Listed \ P) \in Nat
    BY CountMinus, ListsFinite
  <2>5. channelCount' = channelCount - Cardinality(P)
    BY <2>1 DEF removeSecureChannels
  <2>6. ListedSessions' = ListedSessions
    BY <2>3 DEF ListedSessions
  <2> QED
    BY <2>2, <2>3, <2>4, <2>5, <2>6
<1>10. ASSUME NEW c \in Channels, UA_SecureChannelManager_open(c)
     PROVE  CountsOK'
  <2>1. PICK P \in SUBSET Listed :
          /\ chanLife' = [d \in Channels |-> IF d = c THEN "listed"
                            ELSE IF d \in P THEN "removed" ELSE chanLife[d]]
          /\ channelCount' = channelCount - Cardinality(P) + 1
    BY <1>10 DEF UA_SecureChannelManager_open
  <2>2. chanLife[c] = "free" /\ UNCHANGED <<sessLife, sessionCount>>
    BY <1>10 DEF UA_SecureChannelManager_open
  <2>3. Listed' = (Listed \ P) \cup {c} /\ c \notin Listed \ P
    BY <2>1, <2>2 DEF Listed
  <2>4. IsFiniteSet(Listed \ P)
    BY ListsFinite, FS_Difference
  <2>5. Cardinality((Listed \ P) \cup {c}) = Cardinality(Listed \ P) + 1
    BY <2>3, <2>4, FS_AddElement
  <2> QED
    BY <2>1, <2>2, <2>3, <2>5, CountMinus, ListsFinite DEF ListedSessions
<1>11. CASE UA_SecureChannelManager_renew
  BY <1>11 DEF UA_SecureChannelManager_renew, Listed, ListedSessions
<1>12. CASE UA_SecureChannel_revolveTokens
  BY <1>12 DEF UA_SecureChannel_revolveTokens, Listed, ListedSessions
<1>13. CASE UA_SecureChannelManager_close
  <2>1. UNCHANGED <<sessLife, sessionCount>>
    BY <1>13 DEF UA_SecureChannelManager_close
  <2>2. CASE removeSecureChannels({job.chan})
    <3>1. job.chan \in Listed
      BY <1>13 DEF UA_SecureChannelManager_close, Listed
    <3>2. Listed' = Listed \ {job.chan}
      BY <2>2 DEF removeSecureChannels, Listed
    <3>3. /\ Cardinality(Listed \ {job.chan}) = Cardinality(Listed) - Cardinality({job.chan})
          /\ Cardinality(Listed \ {job.chan}) \in Nat
      BY <3>1, CountMinus, ListsFinite
    <3>4. channelCount' = channelCount - Cardinality({job.chan})
      BY <2>2 DEF removeSecureChannels
    <3>5. ListedSessions' = ListedSessions
      BY <2>1 DEF ListedSessions
    <3> QED
      BY <2>1, <3>2, <3>3, <3>4, <3>5
  <2>3. CASE UNCHANGED <<chanLife, channelCount>>
    BY <2>1, <2>3 DEF Listed, ListedSessions
  <2> QED
    BY <1>13, <2>2, <2>3 DEF UA_SecureChannelManager_close
<1>14. ASSUME NEW s \in Sessions, Service_CreateSession(s)
     PROVE  CountsOK'
  <2>1. Listed' = Listed /\ channelCount' = channelCount
    BY <1>14 DEF Service_CreateSession, Listed
  <2>2. s \notin ListedSessions
    BY <1>14 DEF Service_CreateSession, ListedSessions
  <2>3. CASE sessLife' = [sessLife EXCEPT ![s] = "listed"] /\ sessionCount' = sessionCount + 1
    <3>1. ListedSessions' = ListedSessions \cup {s}
      BY <2>3 DEF ListedSessions
    <3>2. Cardinality(ListedSessions \cup {s}) = Cardinality(ListedSessions) + 1
      BY <2>2, FS_AddElement, ListsFinite
    <3> QED
      BY <2>1, <2>3, <3>1, <3>2
  <2>4. CASE sessLife' = [sessLife EXCEPT ![s] = "removed"] /\ UNCHANGED sessionCount
    <3>1. ListedSessions' = ListedSessions
      BY <2>2, <2>4 DEF ListedSessions
    <3> QED
      BY <2>1, <2>4, <3>1
  <2> QED
    BY <1>14, <2>3, <2>4 DEF Service_CreateSession
<1>15. ASSUME NEW s \in Sessions, Service_ActivateSession(s)
     PROVE  CountsOK'
  BY <1>15 DEF Service_ActivateSession, Listed, ListedSessions
<1>16. ASSUME NEW s \in Sessions, ServiceCall(s)
     PROVE  CountsOK'
  BY <1>16 DEF ServiceCall, Listed, ListedSessions
<1>17. ASSUME NEW s \in Sessions, UA_SessionManager_removeSession(s)
     PROVE  CountsOK'
  <2>1. Listed' = Listed /\ channelCount' = channelCount
    BY <1>17 DEF UA_SessionManager_removeSession, Listed
  <2>2. CASE sessLife[s] = "listed" /\ removeSessions({s})
    <3>1. ListedSessions' = ListedSessions \ {s} /\ s \in ListedSessions
      BY <2>2 DEF removeSessions, ListedSessions
    <3>2. /\ Cardinality(ListedSessions \ {s}) = Cardinality(ListedSessions) - Cardinality({s})
          /\ Cardinality(ListedSessions \ {s}) \in Nat
      BY <3>1, CountMinus, ListsFinite
    <3>3. sessionCount' = sessionCount - Cardinality({s})
      BY <2>2 DEF removeSessions
    <3> QED
      BY <2>1, <3>1, <3>2, <3>3
  <2>3. CASE UNCHANGED <<sessLife, sessionCount>>
    BY <2>1, <2>3 DEF ListedSessions
  <2> QED
    BY <1>17, <2>2, <2>3 DEF UA_SessionManager_removeSession
<1>18. ASSUME NEW e \in Entries, Expire(e)
     PROVE  CountsOK'
  BY <1>18 DEF Expire, Listed, ListedSessions
<1>19. CASE JobDone
  BY <1>19 DEF JobDone, Listed, ListedSessions
<1>20. CASE JobsDone
  BY <1>20 DEF JobsDone, Listed, ListedSessions
<1>21. ASSUME NEW c \in Channels, removeSecureChannelCallback(c)
     PROVE  CountsOK'
  <2>1. chanLife[c] = "removed"
    BY <1>21 DEF removeSecureChannelCallback, FreedOnce
  <2>2. Listed' = Listed
    BY <2>1, <1>21 DEF removeSecureChannelCallback, UA_SecureChannel_deleteMembersCleanup, Listed
  <2>3. ListedSessions' = ListedSessions /\ UNCHANGED <<channelCount, sessionCount>>
    BY <1>21 DEF removeSecureChannelCallback, ListedSessions
  <2> QED
    BY <2>2, <2>3
<1>22. ASSUME NEW s \in Sessions, removeSessionCallback(s)
     PROVE  CountsOK'
  <2>1. sessLife[s] = "removed"
    BY <1>22 DEF removeSessionCallback, FreedOnce
  <2>2. ListedSessions' = ListedSessions
    BY <2>1, <1>22 DEF removeSessionCallback, UA_Session_deleteMembersCleanup, ListedSessions
  <2>3. Listed' = Listed /\ UNCHANGED <<channelCount, sessionCount>>
    BY <1>22 DEF removeSessionCallback, Listed
  <2> QED
    BY <2>2, <2>3
<1>23. CASE IterationDone
  BY <1>23 DEF IterationDone, Listed, ListedSessions
<1>24. ASSUME NEW c \in Channels, UA_SecureChannelManager_deleteMembers(c)
     PROVE  CountsOK'
  <2>1. c \in Listed /\ Listed' = Listed \ {c} /\ channelCount' = channelCount - 1
    BY <1>24 DEF UA_SecureChannelManager_deleteMembers, UA_SecureChannel_deleteMembersCleanup,
              Listed
  <2>2. ListedSessions' = ListedSessions /\ sessionCount' = sessionCount
    BY <1>24 DEF UA_SecureChannelManager_deleteMembers, ListedSessions
  <2>3. /\ Cardinality(Listed \ {c}) = Cardinality(Listed) - 1
        /\ Cardinality(Listed \ {c}) \in Nat
    BY <2>1, FS_RemoveElement, FS_CardinalityType, ListsFinite
  <2> QED
    BY <2>1, <2>2, <2>3
<1>25. ASSUME NEW s \in Sessions, UA_SessionManager_deleteMembers(s)
     PROVE  CountsOK'
  <2>1. /\ s \in ListedSessions /\ ListedSessions' = ListedSessions \ {s}
        /\ sessionCount' = sessionCount - 1
    BY <1>25 DEF UA_SessionManager_deleteMembers, UA_Session_deleteMembersCleanup, ListedSessions
  <2>2. Listed' = Listed /\ channelCount' = channelCount
    BY <1>25 DEF UA_SessionManager_deleteMembers, Listed
  <2>3. /\ Cardinality(ListedSessions \ {s}) = Cardinality(ListedSessions) - 1
        /\ Cardinality(ListedSessions \ {s}) \in Nat
    BY <2>1, FS_RemoveElement, FS_CardinalityType, ListsFinite
  <2> QED
    BY <2>1, <2>2, <2>3
<1>26. CASE UA_Server_delete
  BY <1>26 DEF UA_Server_delete, Listed, ListedSessions
<1>27. CASE UNCHANGED vars
  BY <1>27 DEF vars, Listed, ListedSessions
<1> QED
  BY <1>1, <1>2, <1>3, <1>4, <1>5, <1>6, <1>7, <1>8, <1>9, <1>10, <1>11, <1>12, <1>13,
     <1>14, <1>15, <1>16, <1>17, <1>18, <1>19, <1>20, <1>21, <1>22, <1>23, <1>24, <1>25,
     <1>26, <1>27
  DEF Next, TimerStep, NetworkStep, ChannelStep, SessionStep, DelayedStep, DeleteStep

\* Every step preserves the types.
LEMMA TypeStep == IInv /\ [Next]_vars => TypeOK'
<1> SUFFICES ASSUME IInv, [Next]_vars PROVE TypeOK'
  OBVIOUS
<1> USE AddressAssumption DEF IInv, TypeOK, Entries, NoJob, Lives, JobOK,
     JobChannelAttached, connVars, chanVars, sessVars, loopVars, history
<1>0. channelCount' \in Nat /\ sessionCount' \in Nat
  BY CountsStep DEF CountsOK
<1>1. ASSUME NEW Lost \in SUBSET Entries, UA_Server_cleanup(Lost)
     PROVE  TypeOK'
  BY <1>0, <1>1 DEF UA_Server_cleanup, removeSessions, removeSecureChannels, delayedCallback
<1>2. CASE NothingDue
  BY <1>2 DEF NothingDue
<1>3. CASE UA_Server_run_shutdown
  <2>1. oom' \in BOOLEAN
    BY <1>3 DEF UA_Server_run_shutdown
  <2>2. /\ connState' \in [Conns -> {"none", "OPENING", "ESTABLISHED", "CLOSED"}]
        /\ connChan' \in [Conns -> Channels \cup {None}]
        /\ chanConn' \in [Channels -> Conns \cup {None}]
    BY <1>3 DEF UA_Server_run_shutdown
  <2> QED
    BY <2>1, <2>2, <1>3 DEF UA_Server_run_shutdown
<1>4. ASSUME NEW k \in Conns, ServerNetworkLayerTCP_add(k)
     PROVE  TypeOK'
  BY <1>4 DEF ServerNetworkLayerTCP_add
<1>5. ASSUME NEW k \in Conns, closeConnection(k)
     PROVE  TypeOK'
  BY <1>5 DEF closeConnection, UA_Connection_detachSecureChannel
<1>6. ASSUME NEW k \in Conns, UA_Server_processBinaryMessage(k)
     PROVE  TypeOK'
  BY <1>6 DEF UA_Server_processBinaryMessage
<1>7. CASE processHEL
  BY <1>7 DEF processHEL, Closing
<1>8. CASE Refuse
  BY <1>8 DEF Refuse, Closing
<1>9. CASE openFails
  <2>1. oom' \in BOOLEAN
    BY <1>9 DEF openFails
  <2>2. PICK P \in SUBSET Listed : removeSecureChannels(P) /\ delayedCallback(P)
    BY <1>9 DEF openFails
  <2>3. chanLife' \in [Channels -> Lives] /\ delayed' \in [Entries -> Nat]
    BY <2>2 DEF removeSecureChannels, delayedCallback
  <2>4. connState' \in [Conns -> {"none", "OPENING", "ESTABLISHED", "CLOSED"}]
    BY <1>9 DEF openFails, Reply, Closing
  <2>5. job' \in [conn : Conns \cup {None}, chan : Channels \cup {None}]
    BY <1>9 DEF openFails, OPNDone
  <2> QED
    BY <1>0, <2>1, <2>3, <2>4, <2>5, <1>9 DEF openFails
<1>10. ASSUME NEW c \in Channels, UA_SecureChannelManager_open(c)
     PROVE  TypeOK'
  BY <1>0, <1>10 DEF UA_SecureChannelManager_open, ValidOPN, OPNDone, Reply, Closing, Room,
     delayedCallback
<1>11. CASE UA_SecureChannelManager_renew
  BY <1>11 DEF UA_SecureChannelManager_renew, ValidOPN, OPNDone, Reply, Closing
<1>12. CASE UA_SecureChannel_revolveTokens
  BY <1>12 DEF UA_SecureChannel_revolveTokens
<1>13. CASE UA_SecureChannelManager_close
  <2>1. oom' \in BOOLEAN
    BY <1>13 DEF UA_SecureChannelManager_close
  <2>2. chanLife' \in [Channels -> Lives] /\ delayed' \in [Entries -> Nat]
    BY <1>13 DEF UA_SecureChannelManager_close, removeSecureChannels, delayedCallback
  <2> QED
    BY <1>0, <2>1, <2>2, <1>13 DEF UA_SecureChannelManager_close
<1>14. ASSUME NEW s \in Sessions, Service_CreateSession(s)
     PROVE  TypeOK'
  <2>1. oom' \in BOOLEAN
    BY <1>14 DEF Service_CreateSession
  <2>2. sessLife' \in [Sessions -> Lives]
    BY <1>14 DEF Service_CreateSession
  <2>4. delayed' \in [Entries -> Nat]
    <3>1. CASE UNCHANGED delayed
      BY <3>1
    <3>2. CASE delayedCallback({s})
      BY <3>2 DEF delayedCallback
    <3> QED
      BY <1>14, <3>1, <3>2 DEF Service_CreateSession
  <2>3. connState' \in [Conns -> {"none", "OPENING", "ESTABLISHED", "CLOSED"}]
    BY <1>14 DEF Service_CreateSession, Reply, Closing
  <2> QED
    BY <1>0, <2>1, <2>2, <2>3, <2>4, <1>14 DEF Service_CreateSession
<1>15. ASSUME NEW s \in Sessions, Service_ActivateSession(s)
     PROVE  TypeOK'
  BY <1>15 DEF Service_ActivateSession, InMSG, GetSession, Reply, Closing
<1>16. ASSUME NEW s \in Sessions, ServiceCall(s)
     PROVE  TypeOK'
  BY <1>16 DEF ServiceCall, InMSG, Reply, Closing
<1>17. ASSUME NEW s \in Sessions, UA_SessionManager_removeSession(s)
     PROVE  TypeOK'
  <2>1. oom' \in BOOLEAN
    BY <1>17 DEF UA_SessionManager_removeSession
  <2>2. sessLife' \in [Sessions -> Lives] /\ delayed' \in [Entries -> Nat]
    BY <1>17 DEF UA_SessionManager_removeSession, removeSessions, delayedCallback
  <2>3. connState' \in [Conns -> {"none", "OPENING", "ESTABLISHED", "CLOSED"}]
    BY <1>17 DEF UA_SessionManager_removeSession, Reply, Closing
  <2>4. activated' \subseteq Sessions /\ expired' \subseteq Entries
    BY <1>17 DEF UA_SessionManager_removeSession
  <2> QED
    BY <1>0, <2>1, <2>2, <2>3, <2>4, <1>17 DEF UA_SessionManager_removeSession
<1>18. ASSUME NEW e \in Entries, Expire(e)
     PROVE  TypeOK'
  BY <1>18 DEF Expire
<1>19. CASE JobDone
  BY <1>19 DEF JobDone
<1>20. CASE JobsDone
  BY <1>20 DEF JobsDone
<1>21. ASSUME NEW c \in Channels, removeSecureChannelCallback(c)
     PROVE  TypeOK'
  BY <1>21 DEF removeSecureChannelCallback, UA_SecureChannel_deleteMembersCleanup,
     CallbackDone
<1>22. ASSUME NEW s \in Sessions, removeSessionCallback(s)
     PROVE  TypeOK'
  BY <1>22 DEF removeSessionCallback, UA_Session_deleteMembersCleanup, CallbackDone
<1>23. CASE IterationDone
  BY <1>23 DEF IterationDone
<1>24. ASSUME NEW c \in Channels, UA_SecureChannelManager_deleteMembers(c)
     PROVE  TypeOK'
  BY <1>0, <1>24 DEF UA_SecureChannelManager_deleteMembers, UA_SecureChannel_deleteMembersCleanup
<1>25. ASSUME NEW s \in Sessions, UA_SessionManager_deleteMembers(s)
     PROVE  TypeOK'
  BY <1>0, <1>25 DEF UA_SessionManager_deleteMembers, UA_Session_deleteMembersCleanup
<1>26. CASE UA_Server_delete
  BY <1>26 DEF UA_Server_delete
<1>27. CASE UNCHANGED vars
  BY <1>27 DEF vars
<1> QED
  BY <1>1, <1>2, <1>3, <1>4, <1>5, <1>6, <1>7, <1>8, <1>9, <1>10, <1>11, <1>12, <1>13,
     <1>14, <1>15, <1>16, <1>17, <1>18, <1>19, <1>20, <1>21, <1>22, <1>23, <1>24, <1>25,
     <1>26, <1>27
  DEF Next, TimerStep, NetworkStep, ChannelStep, SessionStep, DelayedStep, DeleteStep

\* What an activation does to the links of the session.
LEMMA ActivateMoves ==
    ASSUME NEW s \in Sessions, Service_ActivateSession(s)
    PROVE  \E new \in {job.chan, None} :
              /\ sessChan' = [sessChan EXCEPT ![s] = new]
              /\ chanSessions' = [d \in Channels |->
                     IF d = new THEN chanSessions[d] \cup {s} ELSE chanSessions[d] \ {s}]
<1>1. PICK new \in {job.chan, None} :
        /\ sessChan' = [sessChan EXCEPT ![s] = new]
        /\ chanSessions' = [c \in Channels |->
               IF c = new THEN chanSessions[c] \cup {s} ELSE chanSessions[c] \ {s}]
  BY DEF Service_ActivateSession
<1> QED
  BY <1>1

\* Every step keeps sessions and the lists of their channels linked.
LEMMA SessionLinksStep == IInv /\ [Next]_vars => SessionLinks'
<1> SUFFICES ASSUME IInv, [Next]_vars PROVE SessionLinks'
  OBVIOUS
<1> USE AddressAssumption DEF IInv, TypeOK, SessionLinks, connVars, chanVars, sessVars,
     loopVars, history
<1>1. ASSUME NEW Lost \in SUBSET Entries, UA_Server_cleanup(Lost)
     PROVE  SessionLinks'
  BY <1>1 DEF UA_Server_cleanup, removeSessions, removeSecureChannels, delayedCallback
<1>2. CASE NothingDue
  BY <1>2 DEF NothingDue
<1>3. CASE UA_Server_run_shutdown
  BY <1>3 DEF UA_Server_run_shutdown
<1>4. ASSUME NEW k \in Conns, ServerNetworkLayerTCP_add(k)
     PROVE  SessionLinks'
  BY <1>4 DEF ServerNetworkLayerTCP_add
<1>5. ASSUME NEW k \in Conns, closeConnection(k)
     PROVE  SessionLinks'
  BY <1>5 DEF closeConnection, UA_Connection_detachSecureChannel
<1>6. ASSUME NEW k \in Conns, UA_Server_processBinaryMessage(k)
     PROVE  SessionLinks'
  BY <1>6 DEF UA_Server_processBinaryMessage
<1>7. CASE processHEL
  BY <1>7 DEF processHEL, Closing
<1>8. CASE Refuse
  BY <1>8 DEF Refuse, Closing
<1>9. CASE openFails
  BY <1>9 DEF openFails, ValidOPN, OPNDone, Reply, Closing, Room, removeSecureChannels,
     delayedCallback
<1>10. ASSUME NEW c \in Channels, UA_SecureChannelManager_open(c)
     PROVE  SessionLinks'
  BY <1>10 DEF UA_SecureChannelManager_open, ValidOPN, OPNDone, Reply, Closing, Room,
     delayedCallback
<1>11. CASE UA_SecureChannelManager_renew
  BY <1>11 DEF UA_SecureChannelManager_renew, ValidOPN, OPNDone, Reply, Closing
<1>12. CASE UA_SecureChannel_revolveTokens
  BY <1>12 DEF UA_SecureChannel_revolveTokens
<1>13. CASE UA_SecureChannelManager_close
  BY <1>13 DEF UA_SecureChannelManager_close, removeSecureChannels, delayedCallback
<1>14. ASSUME NEW s \in Sessions, Service_CreateSession(s)
     PROVE  SessionLinks'
  <2>1. \A d \in Channels : s \notin chanSessions[d]
    BY <1>14 DEF Service_CreateSession
  <2>2. /\ UNCHANGED <<chanSessions, chanLife>>
        /\ sessChan' = [sessChan EXCEPT ![s] = None]
    BY <1>14 DEF Service_CreateSession
  <2>3. PICK l \in Lives : sessLife' = [sessLife EXCEPT ![s] = l]
    BY <1>14 DEF Service_CreateSession, Lives
  <2> QED
    BY <2>1, <2>2, <2>3
<1>15. ASSUME NEW s \in Sessions, Service_ActivateSession(s)
     PROVE  SessionLinks'
  <2>1. PICK new \in {job.chan, None} :
          /\ sessChan' = [sessChan EXCEPT ![s] = new]
          /\ chanSessions' = [d \in Channels |->
                 IF d = new THEN chanSessions[d] \cup {s} ELSE chanSessions[d] \ {s}]
    BY <1>15, ActivateMoves
  <2>2. UNCHANGED <<chanLife, sessLife>> /\ sessLife[s] # "free"
    BY <1>15 DEF Service_ActivateSession, InMSG, GetSession
  <2>3. new # None => new \in Channels /\ chanLife[new] # "free"
    BY <2>1 DEF JobOK, JobChannelAttached
  <2> QED
    BY <2>1, <2>2, <2>3
<1>16. ASSUME NEW s \in Sessions, ServiceCall(s)
     PROVE  SessionLinks'
  BY <1>16 DEF ServiceCall, InMSG, Reply, Closing
<1>17. ASSUME NEW s \in Sessions, UA_SessionManager_removeSession(s)
     PROVE  SessionLinks'
  BY <1>17 DEF UA_SessionManager_removeSession, InMSG, GetSession, removeSessions,
     delayedCallback, Reply, Closing
<1>18. ASSUME NEW e \in Entries, Expire(e)
     PROVE  SessionLinks'
  BY <1>18 DEF Expire
<1>19. CASE JobDone
  BY <1>19 DEF JobDone
<1>20. CASE JobsDone
  BY <1>20 DEF JobsDone
<1>21. ASSUME NEW c \in Channels, removeSecureChannelCallback(c)
     PROVE  SessionLinks'
  BY <1>21 DEF removeSecureChannelCallback, UA_SecureChannel_deleteMembersCleanup,
     CallbackDone
<1>22. ASSUME NEW s \in Sessions, removeSessionCallback(s)
     PROVE  SessionLinks'
  BY <1>22 DEF removeSessionCallback, UA_Session_deleteMembersCleanup, CallbackDone
<1>23. CASE IterationDone
  BY <1>23 DEF IterationDone
<1>24. ASSUME NEW c \in Channels, UA_SecureChannelManager_deleteMembers(c)
     PROVE  SessionLinks'
  BY <1>24 DEF UA_SecureChannelManager_deleteMembers, UA_SecureChannel_deleteMembersCleanup
<1>25. ASSUME NEW s \in Sessions, UA_SessionManager_deleteMembers(s)
     PROVE  SessionLinks'
  BY <1>25 DEF UA_SessionManager_deleteMembers, UA_Session_deleteMembersCleanup
<1>26. CASE UA_Server_delete
  BY <1>26 DEF UA_Server_delete
<1>27. CASE UNCHANGED vars
  BY <1>27 DEF vars
<1> QED
  BY <1>1, <1>2, <1>3, <1>4, <1>5, <1>6, <1>7, <1>8, <1>9, <1>10, <1>11, <1>12, <1>13,
     <1>14, <1>15, <1>16, <1>17, <1>18, <1>19, <1>20, <1>21, <1>22, <1>23, <1>24, <1>25,
     <1>26, <1>27
  DEF Next, TimerStep, NetworkStep, ChannelStep, SessionStep, DelayedStep, DeleteStep

\* Every step keeps a connection's pointer at a channel that points back.
LEMMA ConnLinksStep == IInv /\ [Next]_vars => ConnLinks'
<1> SUFFICES ASSUME IInv, [Next]_vars PROVE ConnLinks'
  OBVIOUS
<1> USE AddressAssumption DEF IInv, TypeOK, ConnLinks, SessionLinks, JobOK,
     JobChannelAttached, NoJob, FreedOnce, connVars, chanVars, sessVars, loopVars, history
<1>1. ASSUME NEW Lost \in SUBSET Entries, UA_Server_cleanup(Lost)
     PROVE  ConnLinks'
  BY <1>1 DEF UA_Server_cleanup, removeSessions, removeSecureChannels, delayedCallback
<1>2. CASE NothingDue
  BY <1>2 DEF NothingDue
<1>3. CASE UA_Server_run_shutdown
  BY <1>3 DEF UA_Server_run_shutdown
<1>4. ASSUME NEW k \in Conns, ServerNetworkLayerTCP_add(k)
     PROVE  ConnLinks'
  BY <1>4 DEF ServerNetworkLayerTCP_add
<1>5. ASSUME NEW k \in Conns, closeConnection(k)
     PROVE  ConnLinks'
  BY <1>5 DEF closeConnection, UA_Connection_detachSecureChannel
<1>6. ASSUME NEW k \in Conns, UA_Server_processBinaryMessage(k)
     PROVE  ConnLinks'
  BY <1>6 DEF UA_Server_processBinaryMessage
<1>7. CASE processHEL
  BY <1>7 DEF processHEL, Closing
<1>8. CASE Refuse
  BY <1>8 DEF Refuse, Closing
<1>9. CASE openFails
  BY <1>9 DEF openFails, ValidOPN, OPNDone, Reply, Closing, Room, removeSecureChannels,
     delayedCallback
<1>10. ASSUME NEW c \in Channels, UA_SecureChannelManager_open(c)
     PROVE  ConnLinks'
  BY <1>10 DEF UA_SecureChannelManager_open, ValidOPN, OPNDone, Reply, Closing, Room,
     delayedCallback
<1>11. CASE UA_SecureChannelManager_renew
  BY <1>11 DEF UA_SecureChannelManager_renew, ValidOPN, OPNDone, Reply, Closing
<1>12. CASE UA_SecureChannel_revolveTokens
  BY <1>12 DEF UA_SecureChannel_revolveTokens
<1>13. CASE UA_SecureChannelManager_close
  BY <1>13 DEF UA_SecureChannelManager_close, removeSecureChannels, delayedCallback
<1>14. ASSUME NEW s \in Sessions, Service_CreateSession(s)
     PROVE  ConnLinks'
  BY <1>14 DEF Service_CreateSession, InMSG, delayedCallback, Reply, Closing
<1>15. ASSUME NEW s \in Sessions, Service_ActivateSession(s)
     PROVE  ConnLinks'
  BY <1>15 DEF Service_ActivateSession, InMSG, GetSession, Reply, Closing
<1>16. ASSUME NEW s \in Sessions, ServiceCall(s)
     PROVE  ConnLinks'
  BY <1>16 DEF ServiceCall, InMSG, Reply, Closing
<1>17. ASSUME NEW s \in Sessions, UA_SessionManager_removeSession(s)
     PROVE  ConnLinks'
  BY <1>17 DEF UA_SessionManager_removeSession, InMSG, GetSession, removeSessions,
     delayedCallback, Reply, Closing
<1>18. ASSUME NEW e \in Entries, Expire(e)
     PROVE  ConnLinks'
  BY <1>18 DEF Expire
<1>19. CASE JobDone
  BY <1>19 DEF JobDone
<1>20. CASE JobsDone
  BY <1>20 DEF JobsDone
<1>21. ASSUME NEW c \in Channels, removeSecureChannelCallback(c)
     PROVE  ConnLinks'
  BY <1>21 DEF removeSecureChannelCallback, UA_SecureChannel_deleteMembersCleanup,
     CallbackDone
<1>22. ASSUME NEW s \in Sessions, removeSessionCallback(s)
     PROVE  ConnLinks'
  BY <1>22 DEF removeSessionCallback, UA_Session_deleteMembersCleanup, CallbackDone
<1>23. CASE IterationDone
  BY <1>23 DEF IterationDone
<1>24. ASSUME NEW c \in Channels, UA_SecureChannelManager_deleteMembers(c)
     PROVE  ConnLinks'
  BY <1>24 DEF UA_SecureChannelManager_deleteMembers, UA_SecureChannel_deleteMembersCleanup
<1>25. ASSUME NEW s \in Sessions, UA_SessionManager_deleteMembers(s)
     PROVE  ConnLinks'
  BY <1>25 DEF UA_SessionManager_deleteMembers, UA_Session_deleteMembersCleanup
<1>26. CASE UA_Server_delete
  BY <1>26 DEF UA_Server_delete
<1>27. CASE UNCHANGED vars
  BY <1>27 DEF vars
<1> QED
  BY <1>1, <1>2, <1>3, <1>4, <1>5, <1>6, <1>7, <1>8, <1>9, <1>10, <1>11, <1>12, <1>13,
     <1>14, <1>15, <1>16, <1>17, <1>18, <1>19, <1>20, <1>21, <1>22, <1>23, <1>24, <1>25,
     <1>26, <1>27
  DEF Next, TimerStep, NetworkStep, ChannelStep, SessionStep, DelayedStep, DeleteStep

\* Every step keeps a channel's pointer at a connection that points back.
LEMMA BackLinksStep == IInv /\ [Next]_vars => BackLinks'
<1> SUFFICES ASSUME IInv, [Next]_vars PROVE BackLinks'
  OBVIOUS
<1> USE AddressAssumption DEF IInv, TypeOK, ConnLinks, BackLinks, JobOK, JobChannelAttached,
     NoJob, connVars, chanVars, sessVars, loopVars, history
<1>1. ASSUME NEW Lost \in SUBSET Entries, UA_Server_cleanup(Lost)
     PROVE  BackLinks'
  BY <1>1 DEF UA_Server_cleanup, removeSessions, removeSecureChannels, delayedCallback
<1>2. CASE NothingDue
  BY <1>2 DEF NothingDue
<1>3. CASE UA_Server_run_shutdown
  BY <1>3 DEF UA_Server_run_shutdown
<1>4. ASSUME NEW k \in Conns, ServerNetworkLayerTCP_add(k)
     PROVE  BackLinks'
  BY <1>4 DEF ServerNetworkLayerTCP_add
<1>5. ASSUME NEW k \in Conns, closeConnection(k)
     PROVE  BackLinks'
  BY <1>5 DEF closeConnection, UA_Connection_detachSecureChannel
<1>6. ASSUME NEW k \in Conns, UA_Server_processBinaryMessage(k)
     PROVE  BackLinks'
  BY <1>6 DEF UA_Server_processBinaryMessage
<1>7. CASE processHEL
  BY <1>7 DEF processHEL, Closing
<1>8. CASE Refuse
  BY <1>8 DEF Refuse, Closing
<1>9. CASE openFails
  BY <1>9 DEF openFails, ValidOPN, OPNDone, Reply, Closing, Room, removeSecureChannels,
     delayedCallback
<1>10. ASSUME NEW c \in Channels, UA_SecureChannelManager_open(c)
     PROVE  BackLinks'
  <2>1. SUFFICES ASSUME ~reissued' PROVE BackLinks'
    BY DEF BackLinks
  <2>2. ~reissued /\ job.chan = None
    BY <2>1, <1>10 DEF UA_SecureChannelManager_open
  <2>3. job.conn \in Conns /\ connChan[job.conn] = None
    BY <2>2, <1>10 DEF UA_SecureChannelManager_open, ValidOPN
  <2>4. \A d \in Channels : chanConn[d] # job.conn
    BY <2>2, <2>3
  <2>5. /\ chanConn' = [chanConn EXCEPT ![c] = job.conn]
        /\ connChan' = [connChan EXCEPT ![job.conn] = c]
    BY <1>10 DEF UA_SecureChannelManager_open
  <2> QED
    BY <2>2, <2>3, <2>4, <2>5
<1>11. CASE UA_SecureChannelManager_renew
  BY <1>11 DEF UA_SecureChannelManager_renew, ValidOPN, OPNDone, Reply, Closing
<1>12. CASE UA_SecureChannel_revolveTokens
  BY <1>12 DEF UA_SecureChannel_revolveTokens
<1>13. CASE UA_SecureChannelManager_close
  BY <1>13 DEF UA_SecureChannelManager_close, removeSecureChannels, delayedCallback
<1>14. ASSUME NEW s \in Sessions, Service_CreateSession(s)
     PROVE  BackLinks'
  BY <1>14 DEF Service_CreateSession, InMSG, delayedCallback, Reply, Closing
<1>15. ASSUME NEW s \in Sessions, Service_ActivateSession(s)
     PROVE  BackLinks'
  BY <1>15 DEF Service_ActivateSession, InMSG, GetSession, Reply, Closing
<1>16. ASSUME NEW s \in Sessions, ServiceCall(s)
     PROVE  BackLinks'
  BY <1>16 DEF ServiceCall, InMSG, Reply, Closing
<1>17. ASSUME NEW s \in Sessions, UA_SessionManager_removeSession(s)
     PROVE  BackLinks'
  BY <1>17 DEF UA_SessionManager_removeSession, InMSG, GetSession, removeSessions,
     delayedCallback, Reply, Closing
<1>18. ASSUME NEW e \in Entries, Expire(e)
     PROVE  BackLinks'
  BY <1>18 DEF Expire
<1>19. CASE JobDone
  BY <1>19 DEF JobDone
<1>20. CASE JobsDone
  BY <1>20 DEF JobsDone
<1>21. ASSUME NEW c \in Channels, removeSecureChannelCallback(c)
     PROVE  BackLinks'
  BY <1>21 DEF removeSecureChannelCallback, UA_SecureChannel_deleteMembersCleanup,
     CallbackDone
<1>22. ASSUME NEW s \in Sessions, removeSessionCallback(s)
     PROVE  BackLinks'
  BY <1>22 DEF removeSessionCallback, UA_Session_deleteMembersCleanup, CallbackDone
<1>23. CASE IterationDone
  BY <1>23 DEF IterationDone
<1>24. ASSUME NEW c \in Channels, UA_SecureChannelManager_deleteMembers(c)
     PROVE  BackLinks'
  BY <1>24 DEF UA_SecureChannelManager_deleteMembers, UA_SecureChannel_deleteMembersCleanup
<1>25. ASSUME NEW s \in Sessions, UA_SessionManager_deleteMembers(s)
     PROVE  BackLinks'
  BY <1>25 DEF UA_SessionManager_deleteMembers, UA_Session_deleteMembersCleanup
<1>26. CASE UA_Server_delete
  BY <1>26 DEF UA_Server_delete
<1>27. CASE UNCHANGED vars
  BY <1>27 DEF vars
<1> QED
  BY <1>1, <1>2, <1>3, <1>4, <1>5, <1>6, <1>7, <1>8, <1>9, <1>10, <1>11, <1>12, <1>13,
     <1>14, <1>15, <1>16, <1>17, <1>18, <1>19, <1>20, <1>21, <1>22, <1>23, <1>24, <1>25,
     <1>26, <1>27
  DEF Next, TimerStep, NetworkStep, ChannelStep, SessionStep, DelayedStep, DeleteStep

\* No step reaches freed memory.
LEMMA NoUseAfterFreeStep == IInv /\ [Next]_vars => NoUseAfterFree'
<1> SUFFICES ASSUME IInv, [Next]_vars PROVE NoUseAfterFree'
  OBVIOUS
<1> USE AddressAssumption DEF IInv, TypeOK, ConnLinks, BackLinks, NoUseAfterFree, connVars,
     chanVars, sessVars, loopVars, history
<1>1. ASSUME NEW Lost \in SUBSET Entries, UA_Server_cleanup(Lost)
     PROVE  NoUseAfterFree'
  BY <1>1 DEF UA_Server_cleanup, removeSessions, removeSecureChannels, delayedCallback
<1>2. CASE NothingDue
  BY <1>2 DEF NothingDue
<1>3. CASE UA_Server_run_shutdown
  BY <1>3 DEF UA_Server_run_shutdown
<1>4. ASSUME NEW k \in Conns, ServerNetworkLayerTCP_add(k)
     PROVE  NoUseAfterFree'
  BY <1>4 DEF ServerNetworkLayerTCP_add
<1>5. ASSUME NEW k \in Conns, closeConnection(k)
     PROVE  NoUseAfterFree'
  BY <1>5 DEF closeConnection, UA_Connection_detachSecureChannel
<1>6. ASSUME NEW k \in Conns, UA_Server_processBinaryMessage(k)
     PROVE  NoUseAfterFree'
  BY <1>6 DEF UA_Server_processBinaryMessage
<1>7. CASE processHEL
  BY <1>7 DEF processHEL, Closing
<1>8. CASE Refuse
  BY <1>8 DEF Refuse, Closing
<1>9. CASE openFails
  BY <1>9 DEF openFails, ValidOPN, OPNDone, Reply, Closing, Room, removeSecureChannels,
     delayedCallback
<1>10. ASSUME NEW c \in Channels, UA_SecureChannelManager_open(c)
     PROVE  NoUseAfterFree'
  BY <1>10 DEF UA_SecureChannelManager_open, ValidOPN, OPNDone, Reply, Closing, Room,
     delayedCallback
<1>11. CASE UA_SecureChannelManager_renew
  BY <1>11 DEF UA_SecureChannelManager_renew, ValidOPN, OPNDone, Reply, Closing
<1>12. CASE UA_SecureChannel_revolveTokens
  BY <1>12 DEF UA_SecureChannel_revolveTokens
<1>13. CASE UA_SecureChannelManager_close
  BY <1>13 DEF UA_SecureChannelManager_close, removeSecureChannels, delayedCallback
<1>14. ASSUME NEW s \in Sessions, Service_CreateSession(s)
     PROVE  NoUseAfterFree'
  BY <1>14 DEF Service_CreateSession, InMSG, delayedCallback, Reply, Closing
<1>15. ASSUME NEW s \in Sessions, Service_ActivateSession(s)
     PROVE  NoUseAfterFree'
  BY <1>15 DEF Service_ActivateSession, InMSG, GetSession, Reply, Closing
<1>16. ASSUME NEW s \in Sessions, ServiceCall(s)
     PROVE  NoUseAfterFree'
  BY <1>16 DEF ServiceCall, InMSG, Reply, Closing
<1>17. ASSUME NEW s \in Sessions, UA_SessionManager_removeSession(s)
     PROVE  NoUseAfterFree'
  BY <1>17 DEF UA_SessionManager_removeSession, InMSG, GetSession, removeSessions,
     delayedCallback, Reply, Closing
<1>18. ASSUME NEW e \in Entries, Expire(e)
     PROVE  NoUseAfterFree'
  BY <1>18 DEF Expire
<1>19. CASE JobDone
  BY <1>19 DEF JobDone
<1>20. CASE JobsDone
  BY <1>20 DEF JobsDone
<1>21. ASSUME NEW c \in Channels, removeSecureChannelCallback(c)
     PROVE  NoUseAfterFree'
  BY <1>21 DEF removeSecureChannelCallback, UA_SecureChannel_deleteMembersCleanup,
     CallbackDone
<1>22. ASSUME NEW s \in Sessions, removeSessionCallback(s)
     PROVE  NoUseAfterFree'
  BY <1>22 DEF removeSessionCallback, UA_Session_deleteMembersCleanup, CallbackDone
<1>23. CASE IterationDone
  BY <1>23 DEF IterationDone
<1>24. ASSUME NEW c \in Channels, UA_SecureChannelManager_deleteMembers(c)
     PROVE  NoUseAfterFree'
  BY <1>24 DEF UA_SecureChannelManager_deleteMembers, UA_SecureChannel_deleteMembersCleanup
<1>25. ASSUME NEW s \in Sessions, UA_SessionManager_deleteMembers(s)
     PROVE  NoUseAfterFree'
  BY <1>25 DEF UA_SessionManager_deleteMembers, UA_Session_deleteMembersCleanup
<1>26. CASE UA_Server_delete
  BY <1>26 DEF UA_Server_delete
<1>27. CASE UNCHANGED vars
  BY <1>27 DEF vars
<1> QED
  BY <1>1, <1>2, <1>3, <1>4, <1>5, <1>6, <1>7, <1>8, <1>9, <1>10, <1>11, <1>12, <1>13,
     <1>14, <1>15, <1>16, <1>17, <1>18, <1>19, <1>20, <1>21, <1>22, <1>23, <1>24, <1>25,
     <1>26, <1>27
  DEF Next, TimerStep, NetworkStep, ChannelStep, SessionStep, DelayedStep, DeleteStep

\* Every step keeps one delayed callback for each removed entry.
LEMMA FreedOnceStep == IInv /\ [Next]_vars => FreedOnce'
<1> SUFFICES ASSUME IInv, [Next]_vars PROVE FreedOnce'
  OBVIOUS
<1> USE AddressAssumption DEF IInv, TypeOK, FreedOnce, Quiet, Entries, Listed,
     ListedSessions, Lives, connVars, chanVars, sessVars, loopVars, history
<1>1. ASSUME NEW Lost \in SUBSET Entries, UA_Server_cleanup(Lost)
     PROVE  FreedOnce'
  BY <1>1 DEF UA_Server_cleanup, removeSessions, removeSecureChannels, delayedCallback
<1>2. CASE NothingDue
  BY <1>2 DEF NothingDue
<1>3. CASE UA_Server_run_shutdown
  BY <1>3 DEF UA_Server_run_shutdown
<1>4. ASSUME NEW k \in Conns, ServerNetworkLayerTCP_add(k)
     PROVE  FreedOnce'
  BY <1>4 DEF ServerNetworkLayerTCP_add
<1>5. ASSUME NEW k \in Conns, closeConnection(k)
     PROVE  FreedOnce'
  BY <1>5 DEF closeConnection, UA_Connection_detachSecureChannel
<1>6. ASSUME NEW k \in Conns, UA_Server_processBinaryMessage(k)
     PROVE  FreedOnce'
  BY <1>6 DEF UA_Server_processBinaryMessage
<1>7. CASE processHEL
  BY <1>7 DEF processHEL, Closing
<1>8. CASE Refuse
  BY <1>8 DEF Refuse, Closing
<1>9. CASE openFails
  BY <1>9 DEF openFails, ValidOPN, OPNDone, Reply, Closing, Room, removeSecureChannels,
     delayedCallback
<1>10. ASSUME NEW c \in Channels, UA_SecureChannelManager_open(c)
     PROVE  FreedOnce'
  BY <1>10 DEF UA_SecureChannelManager_open, ValidOPN, OPNDone, Reply, Closing, Room,
     delayedCallback
<1>11. CASE UA_SecureChannelManager_renew
  BY <1>11 DEF UA_SecureChannelManager_renew, ValidOPN, OPNDone, Reply, Closing
<1>12. CASE UA_SecureChannel_revolveTokens
  BY <1>12 DEF UA_SecureChannel_revolveTokens
<1>13. CASE UA_SecureChannelManager_close
  BY <1>13 DEF UA_SecureChannelManager_close, removeSecureChannels, delayedCallback
<1>14. ASSUME NEW s \in Sessions, Service_CreateSession(s)
     PROVE  FreedOnce'
  <2>1. delayed[s] = 0
    BY <1>14 DEF Service_CreateSession
  <2>2. UNCHANGED chanLife
    BY <1>14 DEF Service_CreateSession
  <2>3. CASE sessLife' = [sessLife EXCEPT ![s] = "listed"] /\ UNCHANGED delayed
    BY <2>1, <2>2, <2>3
  <2>4. CASE sessLife' = [sessLife EXCEPT ![s] = "removed"] /\ delayedCallback({s})
    BY <2>1, <2>2, <2>4 DEF delayedCallback
  <2> QED
    BY <1>14, <2>3, <2>4 DEF Service_CreateSession
<1>15. ASSUME NEW s \in Sessions, Service_ActivateSession(s)
     PROVE  FreedOnce'
  BY <1>15 DEF Service_ActivateSession, InMSG, GetSession, Reply, Closing
<1>16. ASSUME NEW s \in Sessions, ServiceCall(s)
     PROVE  FreedOnce'
  BY <1>16 DEF ServiceCall, InMSG, Reply, Closing
<1>17. ASSUME NEW s \in Sessions, UA_SessionManager_removeSession(s)
     PROVE  FreedOnce'
  BY <1>17 DEF UA_SessionManager_removeSession, InMSG, GetSession, removeSessions,
     delayedCallback, Reply, Closing
<1>18. ASSUME NEW e \in Entries, Expire(e)
     PROVE  FreedOnce'
  BY <1>18 DEF Expire
<1>19. CASE JobDone
  BY <1>19 DEF JobDone
<1>20. CASE JobsDone
  BY <1>20 DEF JobsDone
<1>21. ASSUME NEW c \in Channels, removeSecureChannelCallback(c)
     PROVE  FreedOnce'
  BY <1>21 DEF removeSecureChannelCallback, UA_SecureChannel_deleteMembersCleanup,
     CallbackDone
<1>22. ASSUME NEW s \in Sessions, removeSessionCallback(s)
     PROVE  FreedOnce'
  BY <1>22 DEF removeSessionCallback, UA_Session_deleteMembersCleanup, CallbackDone
<1>23. CASE IterationDone
  BY <1>23 DEF IterationDone
<1>24. ASSUME NEW c \in Channels, UA_SecureChannelManager_deleteMembers(c)
     PROVE  FreedOnce'
  BY <1>24 DEF UA_SecureChannelManager_deleteMembers, UA_SecureChannel_deleteMembersCleanup
<1>25. ASSUME NEW s \in Sessions, UA_SessionManager_deleteMembers(s)
     PROVE  FreedOnce'
  BY <1>25 DEF UA_SessionManager_deleteMembers, UA_Session_deleteMembersCleanup
<1>26. CASE UA_Server_delete
  BY <1>26 DEF UA_Server_delete
<1>27. CASE UNCHANGED vars
  BY <1>27 DEF vars
<1> QED
  BY <1>1, <1>2, <1>3, <1>4, <1>5, <1>6, <1>7, <1>8, <1>9, <1>10, <1>11, <1>12, <1>13,
     <1>14, <1>15, <1>16, <1>17, <1>18, <1>19, <1>20, <1>21, <1>22, <1>23, <1>24, <1>25,
     <1>26, <1>27
  DEF Next, TimerStep, NetworkStep, ChannelStep, SessionStep, DelayedStep, DeleteStep

\* Every step keeps the counters within the limits of the configuration.
LEMMA LimitsStep == IInv /\ [Next]_vars => Limits'
<1> SUFFICES ASSUME IInv, [Next]_vars PROVE Limits'
  OBVIOUS
<1> USE AddressAssumption, LimitAssumption DEF IInv, TypeOK, Counts, Limits, connVars,
     chanVars, sessVars, loopVars, history
<1>1. ASSUME NEW Lost \in SUBSET Entries, UA_Server_cleanup(Lost)
     PROVE  Limits'
  <2> DEFINE S == (ListedSessions \cap expired) \ Lost
             C == {d \in Listed : d \in expired \/ chanConn[d] = None} \ Lost
  <2>1. Cardinality(S) \in Nat /\ Cardinality(C) \in Nat
    BY CountMinus, ListsFinite, S \in SUBSET ListedSessions, C \in SUBSET Listed
  <2>2. /\ channelCount' = channelCount - Cardinality(C)
        /\ sessionCount' = sessionCount - Cardinality(S)
    BY <1>1 DEF UA_Server_cleanup, removeSessions, removeSecureChannels
  <2>3. oom => oom'
    BY <1>1 DEF UA_Server_cleanup
  <2> HIDE DEF S, C
  <2> QED
    BY <2>1, <2>2, <2>3
<1>2. CASE NothingDue
  BY <1>2 DEF NothingDue
<1>3. CASE UA_Server_run_shutdown
  BY <1>3 DEF UA_Server_run_shutdown
<1>4. ASSUME NEW k \in Conns, ServerNetworkLayerTCP_add(k)
     PROVE  Limits'
  BY <1>4 DEF ServerNetworkLayerTCP_add
<1>5. ASSUME NEW k \in Conns, closeConnection(k)
     PROVE  Limits'
  BY <1>5 DEF closeConnection
<1>6. ASSUME NEW k \in Conns, UA_Server_processBinaryMessage(k)
     PROVE  Limits'
  BY <1>6 DEF UA_Server_processBinaryMessage
<1>7. CASE processHEL
  BY <1>7 DEF processHEL
<1>8. CASE Refuse
  BY <1>8 DEF Refuse
<1>9. CASE openFails
  <2>1. PICK P \in SUBSET Listed : removeSecureChannels(P)
    BY <1>9 DEF openFails
  <2>2. Cardinality(P) \in Nat /\ channelCount' = channelCount - Cardinality(P)
    BY <2>1, CountMinus, ListsFinite DEF removeSecureChannels
  <2>3. (oom => oom') /\ UNCHANGED sessionCount
    BY <1>9 DEF openFails
  <2> QED
    BY <2>2, <2>3
<1>10. ASSUME NEW c \in Channels, UA_SecureChannelManager_open(c)
     PROVE  Limits'
  <2>1. PICK P \in SUBSET Listed, lost \in BOOLEAN :
          /\ Room(P, lost)
          /\ channelCount' = channelCount - Cardinality(P) + 1
          /\ oom' = (oom \/ lost)
    BY <1>10 DEF UA_SecureChannelManager_open
  <2>2. UNCHANGED sessionCount
    BY <1>10 DEF UA_SecureChannelManager_open
  <2>3. CASE channelCount < maxSecureChannels /\ P = {}
    BY <2>1, <2>2, <2>3, FS_EmptySet
  <2>4. CASE channelCount >= maxSecureChannels
    <3>1. SUFFICES ASSUME ~oom' PROVE channelCount' <= maxSecureChannels
      BY <2>2
    <3>2. PICK d \in Listed : P = {d}
      BY <2>1, <2>4, <3>1 DEF Room
    <3>3. Cardinality(P) = 1
      BY <3>2, FS_Singleton
    <3> QED
      BY <2>1, <3>1, <3>3
  <2> QED
    BY <2>1, <2>3, <2>4 DEF Room
<1>11. CASE UA_SecureChannelManager_renew
  BY <1>11 DEF UA_SecureChannelManager_renew
<1>12. CASE UA_SecureChannel_revolveTokens
  BY <1>12 DEF UA_SecureChannel_revolveTokens
<1>13. CASE UA_SecureChannelManager_close
  <2>1. UNCHANGED sessionCount /\ (oom => oom')
    BY <1>13 DEF UA_SecureChannelManager_close
  <2>2. channelCount' = channelCount - 1 \/ channelCount' = channelCount
    BY <1>13, FS_Singleton DEF UA_SecureChannelManager_close, removeSecureChannels
  <2> QED
    BY <2>1, <2>2
<1>14. ASSUME NEW s \in Sessions, Service_CreateSession(s)
     PROVE  Limits'
  <2>0. oom => oom'
    BY <1>14, Zenon DEF Service_CreateSession
  <2>1. UNCHANGED channelCount
    BY <1>14 DEF Service_CreateSession
  <2>2. sessionCount < maxSessions /\ sessionCount' \in {sessionCount, sessionCount + 1}
    BY <1>14 DEF Service_CreateSession
  <2> QED
    BY <2>0, <2>1, <2>2
<1>15. ASSUME NEW s \in Sessions, Service_ActivateSession(s)
     PROVE  Limits'
  BY <1>15 DEF Service_ActivateSession, InMSG
<1>16. ASSUME NEW s \in Sessions, ServiceCall(s)
     PROVE  Limits'
  BY <1>16 DEF ServiceCall, InMSG
<1>17. ASSUME NEW s \in Sessions, UA_SessionManager_removeSession(s)
     PROVE  Limits'
  <2>1. UNCHANGED channelCount /\ (oom => oom')
    BY <1>17 DEF UA_SessionManager_removeSession
  <2>2. sessionCount' = sessionCount - 1 \/ sessionCount' = sessionCount
    BY <1>17, FS_Singleton DEF UA_SessionManager_removeSession, removeSessions
  <2> QED
    BY <2>1, <2>2
<1>18. ASSUME NEW e \in Entries, Expire(e)
     PROVE  Limits'
  BY <1>18 DEF Expire
<1>19. CASE JobDone
  BY <1>19 DEF JobDone
<1>20. CASE JobsDone
  BY <1>20 DEF JobsDone
<1>21. ASSUME NEW c \in Channels, removeSecureChannelCallback(c)
     PROVE  Limits'
  BY <1>21 DEF removeSecureChannelCallback, UA_SecureChannel_deleteMembersCleanup,
     CallbackDone
<1>22. ASSUME NEW s \in Sessions, removeSessionCallback(s)
     PROVE  Limits'
  BY <1>22 DEF removeSessionCallback, UA_Session_deleteMembersCleanup, CallbackDone
<1>23. CASE IterationDone
  BY <1>23 DEF IterationDone
<1>24. ASSUME NEW c \in Channels, UA_SecureChannelManager_deleteMembers(c)
     PROVE  Limits'
  <2>1. UNCHANGED <<sessionCount, oom>> /\ channelCount' = channelCount - 1
    BY <1>24 DEF UA_SecureChannelManager_deleteMembers
  <2> QED
    BY <2>1
<1>25. ASSUME NEW s \in Sessions, UA_SessionManager_deleteMembers(s)
     PROVE  Limits'
  <2>1. UNCHANGED <<channelCount, oom>> /\ sessionCount' = sessionCount - 1
    BY <1>25 DEF UA_SessionManager_deleteMembers
  <2> QED
    BY <2>1
<1>26. CASE UA_Server_delete
  BY <1>26 DEF UA_Server_delete
<1>27. CASE UNCHANGED vars
  BY <1>27 DEF vars
<1> QED
  BY <1>1, <1>2, <1>3, <1>4, <1>5, <1>6, <1>7, <1>8, <1>9, <1>10, <1>11, <1>12, <1>13,
     <1>14, <1>15, <1>16, <1>17, <1>18, <1>19, <1>20, <1>21, <1>22, <1>23, <1>24, <1>25,
     <1>26, <1>27
  DEF Next, TimerStep, NetworkStep, ChannelStep, SessionStep, DelayedStep, DeleteStep

\* Every step keeps the channel of the running job attached.
LEMMA JobStep == IInv /\ [Next]_vars => JobOK'
<1> SUFFICES ASSUME IInv, [Next]_vars PROVE JobOK'
  OBVIOUS
<1> USE AddressAssumption DEF IInv, TypeOK, ConnLinks, JobOK, JobChannelAttached, NoJob,
     connVars, chanVars, sessVars, loopVars, history
<1>1. ASSUME NEW Lost \in SUBSET Entries, UA_Server_cleanup(Lost)
     PROVE  JobOK'
  BY <1>1 DEF UA_Server_cleanup, removeSessions, removeSecureChannels, delayedCallback
<1>2. CASE NothingDue
  BY <1>2 DEF NothingDue
<1>3. CASE UA_Server_run_shutdown
  BY <1>3 DEF UA_Server_run_shutdown
<1>4. ASSUME NEW k \in Conns, ServerNetworkLayerTCP_add(k)
     PROVE  JobOK'
  BY <1>4 DEF ServerNetworkLayerTCP_add
<1>5. ASSUME NEW k \in Conns, closeConnection(k)
     PROVE  JobOK'
  BY <1>5 DEF closeConnection, UA_Connection_detachSecureChannel
<1>6. ASSUME NEW k \in Conns, UA_Server_processBinaryMessage(k)
     PROVE  JobOK'
  BY <1>6 DEF UA_Server_processBinaryMessage
<1>7. CASE processHEL
  BY <1>7 DEF processHEL, Closing
<1>8. CASE Refuse
  BY <1>8 DEF Refuse, Closing
<1>9. CASE openFails
  BY <1>9 DEF openFails, ValidOPN, OPNDone, Reply, Closing, Room, removeSecureChannels,
     delayedCallback
<1>10. ASSUME NEW c \in Channels, UA_SecureChannelManager_open(c)
     PROVE  JobOK'
  BY <1>10 DEF UA_SecureChannelManager_open, ValidOPN, OPNDone, Reply, Closing, Room,
     delayedCallback
<1>11. CASE UA_SecureChannelManager_renew
  BY <1>11 DEF UA_SecureChannelManager_renew, ValidOPN, OPNDone, Reply, Closing
<1>12. CASE UA_SecureChannel_revolveTokens
  BY <1>12 DEF UA_SecureChannel_revolveTokens
<1>13. CASE UA_SecureChannelManager_close
  BY <1>13 DEF UA_SecureChannelManager_close, removeSecureChannels, delayedCallback
<1>14. ASSUME NEW s \in Sessions, Service_CreateSession(s)
     PROVE  JobOK'
  BY <1>14 DEF Service_CreateSession, InMSG, delayedCallback, Reply, Closing
<1>15. ASSUME NEW s \in Sessions, Service_ActivateSession(s)
     PROVE  JobOK'
  BY <1>15 DEF Service_ActivateSession, InMSG, GetSession, Reply, Closing
<1>16. ASSUME NEW s \in Sessions, ServiceCall(s)
     PROVE  JobOK'
  BY <1>16 DEF ServiceCall, InMSG, Reply, Closing
<1>17. ASSUME NEW s \in Sessions, UA_SessionManager_removeSession(s)
     PROVE  JobOK'
  BY <1>17 DEF UA_SessionManager_removeSession, InMSG, GetSession, removeSessions,
     delayedCallback, Reply, Closing
<1>18. ASSUME NEW e \in Entries, Expire(e)
     PROVE  JobOK'
  BY <1>18 DEF Expire
<1>19. CASE JobDone
  BY <1>19 DEF JobDone
<1>20. CASE JobsDone
  BY <1>20 DEF JobsDone
<1>21. ASSUME NEW c \in Channels, removeSecureChannelCallback(c)
     PROVE  JobOK'
  BY <1>21 DEF removeSecureChannelCallback, UA_SecureChannel_deleteMembersCleanup,
     CallbackDone
<1>22. ASSUME NEW s \in Sessions, removeSessionCallback(s)
     PROVE  JobOK'
  BY <1>22 DEF removeSessionCallback, UA_Session_deleteMembersCleanup, CallbackDone
<1>23. CASE IterationDone
  BY <1>23 DEF IterationDone
<1>24. ASSUME NEW c \in Channels, UA_SecureChannelManager_deleteMembers(c)
     PROVE  JobOK'
  BY <1>24 DEF UA_SecureChannelManager_deleteMembers, UA_SecureChannel_deleteMembersCleanup
<1>25. ASSUME NEW s \in Sessions, UA_SessionManager_deleteMembers(s)
     PROVE  JobOK'
  BY <1>25 DEF UA_SessionManager_deleteMembers, UA_Session_deleteMembersCleanup
<1>26. CASE UA_Server_delete
  BY <1>26 DEF UA_Server_delete
<1>27. CASE UNCHANGED vars
  BY <1>27 DEF vars
<1> QED
  BY <1>1, <1>2, <1>3, <1>4, <1>5, <1>6, <1>7, <1>8, <1>9, <1>10, <1>11, <1>12, <1>13,
     <1>14, <1>15, <1>16, <1>17, <1>18, <1>19, <1>20, <1>21, <1>22, <1>23, <1>24, <1>25,
     <1>26, <1>27
  DEF Next, TimerStep, NetworkStep, ChannelStep, SessionStep, DelayedStep, DeleteStep

\* Every step leaves callbacks waiting only in the phases that may.
LEMMA QuietStep == IInv /\ [Next]_vars => Quiet'
<1> SUFFICES ASSUME IInv, [Next]_vars PROVE Quiet'
  OBVIOUS
<1> USE AddressAssumption DEF IInv, TypeOK, Quiet, JobOK, Entries, connVars, chanVars,
     sessVars, loopVars, history
<1>1. ASSUME NEW Lost \in SUBSET Entries, UA_Server_cleanup(Lost)
     PROVE  Quiet'
  BY <1>1 DEF UA_Server_cleanup, removeSessions, removeSecureChannels, delayedCallback
<1>2. CASE NothingDue
  BY <1>2 DEF NothingDue
<1>3. CASE UA_Server_run_shutdown
  BY <1>3 DEF UA_Server_run_shutdown
<1>4. ASSUME NEW k \in Conns, ServerNetworkLayerTCP_add(k)
     PROVE  Quiet'
  BY <1>4 DEF ServerNetworkLayerTCP_add
<1>5. ASSUME NEW k \in Conns, closeConnection(k)
     PROVE  Quiet'
  BY <1>5 DEF closeConnection, UA_Connection_detachSecureChannel
<1>6. ASSUME NEW k \in Conns, UA_Server_processBinaryMessage(k)
     PROVE  Quiet'
  BY <1>6 DEF UA_Server_processBinaryMessage
<1>7. CASE processHEL
  BY <1>7 DEF processHEL, Closing
<1>8. CASE Refuse
  BY <1>8 DEF Refuse, Closing
<1>9. CASE openFails
  BY <1>9 DEF openFails, ValidOPN, OPNDone, Reply, Closing, Room, removeSecureChannels,
     delayedCallback
<1>10. ASSUME NEW c \in Channels, UA_SecureChannelManager_open(c)
     PROVE  Quiet'
  BY <1>10 DEF UA_SecureChannelManager_open, ValidOPN, OPNDone, Reply, Closing, Room,
     delayedCallback
<1>11. CASE UA_SecureChannelManager_renew
  BY <1>11 DEF UA_SecureChannelManager_renew, ValidOPN, OPNDone, Reply, Closing
<1>12. CASE UA_SecureChannel_revolveTokens
  BY <1>12 DEF UA_SecureChannel_revolveTokens
<1>13. CASE UA_SecureChannelManager_close
  BY <1>13 DEF UA_SecureChannelManager_close, removeSecureChannels, delayedCallback
<1>14. ASSUME NEW s \in Sessions, Service_CreateSession(s)
     PROVE  Quiet'
  BY <1>14 DEF Service_CreateSession, InMSG, delayedCallback, Reply, Closing
<1>15. ASSUME NEW s \in Sessions, Service_ActivateSession(s)
     PROVE  Quiet'
  BY <1>15 DEF Service_ActivateSession, InMSG, GetSession, Reply, Closing
<1>16. ASSUME NEW s \in Sessions, ServiceCall(s)
     PROVE  Quiet'
  BY <1>16 DEF ServiceCall, InMSG, Reply, Closing
<1>17. ASSUME NEW s \in Sessions, UA_SessionManager_removeSession(s)
     PROVE  Quiet'
  BY <1>17 DEF UA_SessionManager_removeSession, InMSG, GetSession, removeSessions,
     delayedCallback, Reply, Closing
<1>18. ASSUME NEW e \in Entries, Expire(e)
     PROVE  Quiet'
  BY <1>18 DEF Expire
<1>19. CASE JobDone
  BY <1>19 DEF JobDone
<1>20. CASE JobsDone
  BY <1>20 DEF JobsDone
<1>21. ASSUME NEW c \in Channels, removeSecureChannelCallback(c)
     PROVE  Quiet'
  BY <1>21 DEF removeSecureChannelCallback, UA_SecureChannel_deleteMembersCleanup,
     CallbackDone
<1>22. ASSUME NEW s \in Sessions, removeSessionCallback(s)
     PROVE  Quiet'
  BY <1>22 DEF removeSessionCallback, UA_Session_deleteMembersCleanup, CallbackDone
<1>23. CASE IterationDone
  BY <1>23 DEF IterationDone
<1>24. ASSUME NEW c \in Channels, UA_SecureChannelManager_deleteMembers(c)
     PROVE  Quiet'
  BY <1>24 DEF UA_SecureChannelManager_deleteMembers, UA_SecureChannel_deleteMembersCleanup
<1>25. ASSUME NEW s \in Sessions, UA_SessionManager_deleteMembers(s)
     PROVE  Quiet'
  BY <1>25 DEF UA_SessionManager_deleteMembers, UA_Session_deleteMembersCleanup
<1>26. CASE UA_Server_delete
  BY <1>26 DEF UA_Server_delete
<1>27. CASE UNCHANGED vars
  BY <1>27 DEF vars
<1> QED
  BY <1>1, <1>2, <1>3, <1>4, <1>5, <1>6, <1>7, <1>8, <1>9, <1>10, <1>11, <1>12, <1>13,
     <1>14, <1>15, <1>16, <1>17, <1>18, <1>19, <1>20, <1>21, <1>22, <1>23, <1>24, <1>25,
     <1>26, <1>27
  DEF Next, TimerStep, NetworkStep, ChannelStep, SessionStep, DelayedStep, DeleteStep

\* Every step keeps what the shutdown has released released.
LEMMA EndingStep == IInv /\ [Next]_vars => Ending'
<1> SUFFICES ASSUME IInv, [Next]_vars PROVE Ending'
  OBVIOUS
<1> USE AddressAssumption DEF IInv, TypeOK, Ending, JobOK, Listed, ListedSessions, connVars,
     chanVars, sessVars, loopVars, history
<1>1. ASSUME NEW Lost \in SUBSET Entries, UA_Server_cleanup(Lost)
     PROVE  Ending'
  BY <1>1 DEF UA_Server_cleanup, removeSessions, removeSecureChannels, delayedCallback
<1>2. CASE NothingDue
  BY <1>2 DEF NothingDue
<1>3. CASE UA_Server_run_shutdown
  BY <1>3 DEF UA_Server_run_shutdown
<1>4. ASSUME NEW k \in Conns, ServerNetworkLayerTCP_add(k)
     PROVE  Ending'
  BY <1>4 DEF ServerNetworkLayerTCP_add
<1>5. ASSUME NEW k \in Conns, closeConnection(k)
     PROVE  Ending'
  BY <1>5 DEF closeConnection, UA_Connection_detachSecureChannel
<1>6. ASSUME NEW k \in Conns, UA_Server_processBinaryMessage(k)
     PROVE  Ending'
  BY <1>6 DEF UA_Server_processBinaryMessage
<1>7. CASE processHEL
  BY <1>7 DEF processHEL, Closing
<1>8. CASE Refuse
  BY <1>8 DEF Refuse, Closing
<1>9. CASE openFails
  BY <1>9 DEF openFails, ValidOPN, OPNDone, Reply, Closing, Room, removeSecureChannels,
     delayedCallback
<1>10. ASSUME NEW c \in Channels, UA_SecureChannelManager_open(c)
     PROVE  Ending'
  BY <1>10 DEF UA_SecureChannelManager_open, ValidOPN, OPNDone, Reply, Closing, Room,
     delayedCallback
<1>11. CASE UA_SecureChannelManager_renew
  BY <1>11 DEF UA_SecureChannelManager_renew, ValidOPN, OPNDone, Reply, Closing
<1>12. CASE UA_SecureChannel_revolveTokens
  BY <1>12 DEF UA_SecureChannel_revolveTokens
<1>13. CASE UA_SecureChannelManager_close
  BY <1>13 DEF UA_SecureChannelManager_close, removeSecureChannels, delayedCallback
<1>14. ASSUME NEW s \in Sessions, Service_CreateSession(s)
     PROVE  Ending'
  BY <1>14 DEF Service_CreateSession, InMSG, delayedCallback, Reply, Closing
<1>15. ASSUME NEW s \in Sessions, Service_ActivateSession(s)
     PROVE  Ending'
  BY <1>15 DEF Service_ActivateSession, InMSG, GetSession, Reply, Closing
<1>16. ASSUME NEW s \in Sessions, ServiceCall(s)
     PROVE  Ending'
  BY <1>16 DEF ServiceCall, InMSG, Reply, Closing
<1>17. ASSUME NEW s \in Sessions, UA_SessionManager_removeSession(s)
     PROVE  Ending'
  BY <1>17 DEF UA_SessionManager_removeSession, InMSG, GetSession, removeSessions,
     delayedCallback, Reply, Closing
<1>18. ASSUME NEW e \in Entries, Expire(e)
     PROVE  Ending'
  BY <1>18 DEF Expire
<1>19. CASE JobDone
  BY <1>19 DEF JobDone
<1>20. CASE JobsDone
  BY <1>20 DEF JobsDone
<1>21. ASSUME NEW c \in Channels, removeSecureChannelCallback(c)
     PROVE  Ending'
  BY <1>21 DEF removeSecureChannelCallback, UA_SecureChannel_deleteMembersCleanup,
     CallbackDone
<1>22. ASSUME NEW s \in Sessions, removeSessionCallback(s)
     PROVE  Ending'
  BY <1>22 DEF removeSessionCallback, UA_Session_deleteMembersCleanup, CallbackDone
<1>23. CASE IterationDone
  BY <1>23 DEF IterationDone
<1>24. ASSUME NEW c \in Channels, UA_SecureChannelManager_deleteMembers(c)
     PROVE  Ending'
  BY <1>24 DEF UA_SecureChannelManager_deleteMembers, UA_SecureChannel_deleteMembersCleanup
<1>25. ASSUME NEW s \in Sessions, UA_SessionManager_deleteMembers(s)
     PROVE  Ending'
  BY <1>25 DEF UA_SessionManager_deleteMembers, UA_Session_deleteMembersCleanup
<1>26. CASE UA_Server_delete
  BY <1>26 DEF UA_Server_delete
<1>27. CASE UNCHANGED vars
  BY <1>27 DEF vars
<1> QED
  BY <1>1, <1>2, <1>3, <1>4, <1>5, <1>6, <1>7, <1>8, <1>9, <1>10, <1>11, <1>12, <1>13,
     <1>14, <1>15, <1>16, <1>17, <1>18, <1>19, <1>20, <1>21, <1>22, <1>23, <1>24, <1>25,
     <1>26, <1>27
  DEF Next, TimerStep, NetworkStep, ChannelStep, SessionStep, DelayedStep, DeleteStep

-----------------------------------------------------------------------------
(* The theorems.                                                           *)

LEMMA NextIInv == IInv /\ [Next]_vars => IInv'
  BY TypeStep, CountsStep, SessionLinksStep, ConnLinksStep, BackLinksStep, NoUseAfterFreeStep,
     FreedOnceStep, LimitsStep, JobStep, QuietStep, EndingStep
  DEF IInv, CountsOK

\* The inductive invariant holds in every reachable state of the server, for
\* any number of connections, channels and sessions and any limits.
THEOREM Invariance == Spec => []IInv
  BY InitIInv, NextIInv, PTL DEF Spec

\* Every variable of the main loop keeps its type; in particular neither of
\* the unsigned counters of the managers ever goes below zero.
THEOREM TypeCorrect == Spec => []TypeOK
<1>1. IInv => TypeOK
  BY DEF IInv
<1> QED
  BY <1>1, Invariance, PTL

\* Sessions and channels, and connections and their channels, never point at
\* each other one-sidedly or at freed memory, in whatever order CLO, OPN,
\* session services, time-outs, lost connections and delayed callbacks come.
THEOREM LinksConsistent == Spec => [](SessionLinks /\ ConnLinks /\ BackLinks)
<1>1. IInv => SessionLinks /\ ConnLinks /\ BackLinks
  BY DEF IInv
<1> QED
  BY <1>1, Invariance, PTL

\* A freed connection is used only after a client sent a second ISSUE over it.
THEOREM UseAfterFree == Spec => []NoUseAfterFree
<1>1. IInv => NoUseAfterFree
  BY DEF IInv
<1> QED
  BY <1>1, Invariance, PTL

\* Every removed channel and session is freed by exactly one delayed callback.
THEOREM FreeExactlyOnce == Spec => []FreedOnce
<1>1. IInv => FreedOnce
  BY DEF IInv
<1> QED
  BY <1>1, Invariance, PTL

\* The capacity counters are the lengths of the lists and respect the limits.
THEOREM Capacity == Spec => [](Counts /\ Limits)
<1>1. IInv => Counts /\ Limits
  BY DEF IInv
<1> QED
  BY <1>1, Invariance, PTL

\* The assertion UA_assert(channel->connection) never fails.
THEOREM AssertionHolds == Spec => []JobChannelAttached
<1>1. IInv => JobChannelAttached
  BY DEF IInv, JobOK
<1> QED
  BY <1>1, Invariance, PTL

\* The deleted server has released everything it allocated.
THEOREM DeletedIsEmpty == Spec => []NothingLeft
<1>1. IInv => NothingLeft
  <2> SUFFICES ASSUME IInv, phase = "deleted" PROVE NothingLeft
    BY DEF NothingLeft
  <2>1. /\ \A c \in Channels : chanLife[c] \in {"free", "removed"} /\ delayed[c] = 0
        /\ \A s \in Sessions : sessLife[s] \in {"free", "removed"} /\ delayed[s] = 0
    BY DEF IInv, TypeOK, Ending, Quiet, Listed, ListedSessions, Lives, Entries
  <2> QED
    BY <2>1 DEF IInv, FreedOnce, Ending, NothingLeft
<1> QED
  BY <1>1, Invariance, PTL

-----------------------------------------------------------------------------
(* Mdns: the servers heard of.                                             *)

\* An entry of a server of that name: the url is built from what was heard, in
\* whatever order.
EntryWhole(e) ==
    LET a == Announced[e.name] IN
    /\ e = [id |-> e.id, name |-> e.name, txtSet |-> e.txtSet, srvSet |-> e.srvSet,
            pathTmp |-> e.pathTmp, url |-> e.url, caps |-> e.caps]
    /\ e.name \in DOMAIN Announced /\ e.txtSet \in BOOLEAN /\ e.srvSet \in BOOLEAN
    /\ Apart(e.name) =>
          IF e.srvSet THEN e.url = UrlOf(e.name, e.txtSet)
          ELSE e.url = <<>> /\ e.pathTmp = IF e.txtSet /\ a.path # "/" THEN <<a.path>> ELSE NoPath

\* The list, newest first, holds whole entries numbered by the counter.
Known(list, n) ==
    /\ n \in Nat /\ list \in Seq(ToSet(list))
    /\ \A k \in 1..Len(list) : EntryWhole(list[k]) /\ list[k].id \in 0..(n - 1)
    /\ \A j, k \in 1..Len(list) : j < k => list[k].id < list[j].id

ToldWhole == told.added /\ Apart(told.name) => told.url = UrlOf(told.name, told.txt)

NetworkInv == Known(serverOnNetwork, serverOnNetworkRecordIdCounter) /\ ToldWhole /\ FindsAll

\* The lookup finds an entry of the list, and for a name that stands apart its own.
LEMMA EntriesFound ==
    ASSUME NEW name \in DOMAIN Announced,
           Known(serverOnNetwork, serverOnNetworkRecordIdCounter), EntryOf(name) # 0
    PROVE  /\ EntryOf(name) \in 1..Len(serverOnNetwork)
           /\ Apart(name) \/ Apart(serverOnNetwork[EntryOf(name)].name)
                => serverOnNetwork[EntryOf(name)].name = name
<1> DEFINE l == serverOnNetwork
           Hits == {k \in DOMAIN l : BucketOf[l[k].name] = BucketOf[name] /\ SameName(l[k].name, name)}
           r == CHOOSE k \in Hits : \A j \in Hits : k <= j
<1>1. Len(l) \in Nat /\ DOMAIN l = 1..Len(l)
  BY DEF Known
<1>2. EntryOf(name) = IF Hits = {} THEN 0 ELSE r
  BY Zenon DEF EntryOf
<1>3. r \in Hits
  <2>1. Hits # {} /\ Hits \in SUBSET (0..Len(l))
    BY <1>1, <1>2
  <2> HIDE DEF Hits
  <2>2. \E k \in Hits : \A j \in Hits : k <= j
    BY <1>1, <2>1, LeastNumber
  <2> QED
    BY <2>2
<1> HIDE DEF r
<1>4. EntryOf(name) = r
  BY <1>2, <1>3
<1>5. r \in 1..Len(l) /\ l[r].name \in DOMAIN Announced
  BY <1>1, <1>3 DEF Known, EntryWhole
<1>6. ASSUME Apart(name), l[r].name # name PROVE FALSE
  BY <1>3, <1>5, <1>6, Zenon DEF Apart
<1>7. SameName(name, l[r].name)
  BY <1>3, Zenon DEF SameName
<1>8. ASSUME Apart(l[r].name), l[r].name # name PROVE FALSE
  BY <1>3, <1>5, <1>7, <1>8, Zenon DEF Apart
<1> QED
  BY <1>4, <1>5, <1>6, <1>8

LEMMA NewEntries ==
    ASSUME NEW name \in DOMAIN Announced
    PROVE  EntryWhole(NewEntry(name)) /\ NewEntry(name).name = name
           /\ NewEntry(name).id = serverOnNetworkRecordIdCounter
BY DEF EntryWhole, NewEntry, NoPath

\* A record for the entry keeps it whole, when it is its own where that matters.
LEMMA Refreshing ==
    ASSUME NEW name \in DOMAIN Announced, NEW e, EntryWhole(e), NEW type \in {"SRV", "TXT"},
           Apart(name) \/ Apart(e.name) => e.name = name
    PROVE  LET n == Refreshed(e, type, Announced[name]) IN
           EntryWhole(n) /\ n.id = e.id /\ n.name = e.name
<1> DEFINE a == Announced[name]
           n == Refreshed(e, type, a)
<1> SUFFICES EntryWhole(n) /\ n.id = e.id /\ n.name = e.name
  OBVIOUS
<1>0. /\ e = [id |-> e.id, name |-> e.name, txtSet |-> e.txtSet, srvSet |-> e.srvSet,
              pathTmp |-> e.pathTmp, url |-> e.url, caps |-> e.caps]
      /\ e.name \in DOMAIN Announced /\ e.txtSet \in BOOLEAN /\ e.srvSet \in BOOLEAN
  BY DEF EntryWhole
<1>1. CASE type = "TXT" /\ ~e.txtSet
  <2>1. n = setTxt(e, a)
    BY <1>1 DEF Refreshed
  <2>2. n = [id |-> e.id, name |-> e.name, txtSet |-> TRUE, srvSet |-> e.srvSet,
             pathTmp |-> IF a.path # "/" /\ ~e.srvSet THEN <<a.path>> ELSE e.pathTmp,
             url |-> IF a.path # "/" /\ e.srvSet THEN Append(e.url, a.path) ELSE e.url, caps |-> a.caps]
    BY <1>0, <2>1 DEF setTxt
  <2>3. ASSUME Apart(e.name)
        PROVE  IF e.srvSet THEN n.url = UrlOf(e.name, TRUE)
               ELSE n.url = <<>> /\ n.pathTmp = IF a.path # "/" THEN <<a.path>> ELSE NoPath
    <3>1. e.name = name
      BY <2>3
    <3>2. IF e.srvSet THEN e.url = <<a.host>> ELSE e.url = <<>> /\ e.pathTmp = NoPath
      BY <1>1, <2>3, <3>1 DEF EntryWhole, UrlOf
    <3>3. CASE e.srvSet
      <4> DEFINE h == a.host
                 p == a.path
      <4>1. UrlOf(e.name, TRUE) = <<h>> \o (IF p = "/" THEN <<>> ELSE <<p>>)
        BY <3>1 DEF UrlOf, FullUrl
      <4>2. n.url = IF p # "/" THEN Append(<<h>>, p) ELSE <<h>>
        BY <2>2, <3>2, <3>3
      <4> HIDE DEF h, p, n
      <4>3. <<h>> \o <<p>> = Append(<<h>>, p) /\ <<h>> \o <<>> = <<h>>
        OBVIOUS
      <4> QED
        BY <3>3, <4>1, <4>2, <4>3
    <3>4. CASE ~e.srvSet
      BY <2>2, <3>2, <3>4
    <3> QED
      BY <3>3, <3>4
  <2>4. /\ n.id = e.id /\ n.name = e.name /\ n.txtSet = TRUE /\ n.srvSet = e.srvSet
        /\ n = [id |-> n.id, name |-> n.name, txtSet |-> n.txtSet, srvSet |-> n.srvSet,
                pathTmp |-> n.pathTmp, url |-> n.url, caps |-> n.caps]
    BY <2>2
  <2>5. Apart(n.name) => e.name = name
    BY <2>4
  <2> HIDE DEF n
  <2> QED
    BY <1>0, <2>3, <2>4, <2>5, Zenon DEF EntryWhole
<1>2. CASE ~(type = "TXT" /\ ~e.txtSet) /\ type = "SRV" /\ ~e.srvSet
  <2>1. n = setSrv(e, a)
    BY <1>2 DEF Refreshed
  <2>2. n = [id |-> e.id, name |-> e.name, txtSet |-> e.txtSet, srvSet |-> TRUE,
             pathTmp |-> IF e.pathTmp = NoPath THEN NoPath ELSE Freed,
             url |-> <<a.host>> \o e.pathTmp, caps |-> e.caps]
    BY <1>0, <2>1 DEF setSrv
  <2>3. ASSUME Apart(e.name) PROVE n.url = UrlOf(e.name, e.txtSet)
    <3>1. e.name = name
      BY <2>3
    <3>2. e.pathTmp = IF e.txtSet /\ a.path # "/" THEN <<a.path>> ELSE NoPath
      BY <1>2, <2>3, <3>1 DEF EntryWhole
    <3> QED
      BY <1>0, <2>2, <3>1, <3>2 DEF UrlOf, FullUrl, NoPath
  <2> QED
    BY <1>0, <2>2, <2>3 DEF EntryWhole
<1>3. CASE ~(type = "TXT" /\ ~e.txtSet) /\ ~(type = "SRV" /\ ~e.srvSet)
  BY <1>3 DEF Refreshed
<1> QED
  BY <1>1, <1>2, <1>3

\* A sequence is one over its own elements, and over any larger set.
LEMMA OverItsElements ==
    ASSUME NEW T, NEW s \in Seq(T)
    PROVE  s \in Seq(ToSet(s)) /\ ToSet(s) \subseteq T
<1>1. Len(s) \in Nat /\ DOMAIN s = 1..Len(s) /\ s \in [1..Len(s) -> T]
  OBVIOUS
<1>2. \A k \in 1..Len(s) : s[k] \in ToSet(s)
  BY <1>1 DEF ToSet
<1>3. s \in [1..Len(s) -> ToSet(s)]
  BY <1>1, <1>2
<1>4. ToSet(s) \subseteq T
  BY <1>1 DEF ToSet
<1> HIDE DEF ToSet
<1> DEFINE S == ToSet(s)
<1>5. Len(s) \in Nat /\ s \in [1..Len(s) -> S]
  BY <1>1, <1>3
<1> HIDE DEF S
<1>6. s \in Seq(S)
  BY <1>5
<1> QED
  BY <1>4, <1>6 DEF S

\* A sequence without its k-th element.
LEMMA DroppedAt ==
    ASSUME NEW T, NEW list \in Seq(T), NEW k \in 1..Len(list)
    PROVE  LET s == RemoveAt(list, k) IN
           /\ s \in Seq(T) /\ Len(s) = Len(list) - 1
           /\ \A j \in 1..Len(s) : s[j] = list[IF j < k THEN j ELSE j + 1]
<1> DEFINE s == RemoveAt(list, k)
           at(j) == IF j < k THEN j ELSE j + 1
<1> SUFFICES s \in Seq(T) /\ Len(s) = Len(list) - 1 /\ \A j \in 1..Len(s) : s[j] = list[at(j)]
  OBVIOUS
<1>0. Len(list) \in Nat /\ k \in Nat /\ k <= Len(list) /\ k >= 1
  OBVIOUS
<1> DEFINE a == SubSeq(list, 1, k - 1)
           b == SubSeq(list, k + 1, Len(list))
<1>1. s = a \o b
  BY DEF RemoveAt
<1>2. a \in Seq(T) /\ Len(a) = k - 1 /\ \A j \in 1..Len(a) : a[j] = list[j]
  BY <1>0
<1>3. b \in Seq(T) /\ Len(b) = Len(list) - k /\ \A j \in 1..Len(b) : b[j] = list[j + k]
  BY <1>0
<1> HIDE DEF a, b, s
<1>4. Len(s) = Len(list) - 1 /\ s \in Seq(T)
  <2>1. Len(s) = Len(a) + Len(b) /\ s \in Seq(T)
    <3>1. a \in Seq(T) /\ b \in Seq(T)
      BY <1>2, <1>3
    <3> QED
      BY <1>1, <3>1
  <2> QED
    BY <1>0, <1>2, <1>3, <2>1
<1>5. ASSUME NEW j \in 1..Len(s) PROVE s[j] = list[at(j)]
  <2>1. CASE j < k
    BY <1>0, <1>1, <1>2, <1>3, <1>4, <2>1
  <2>2. CASE ~(j < k)
    <3>1. j - (k - 1) \in 1..Len(b) /\ (j - (k - 1)) + k = j + 1
      BY <1>0, <1>3, <1>4, <2>2
    <3>2. s[j] = b[j - (k - 1)]
      BY <1>0, <1>1, <1>2, <1>3, <1>4, <2>2
    <3> QED
      BY <1>3, <2>2, <3>1, <3>2
  <2> QED
    BY <2>1, <2>2
<1> QED
  BY <1>4, <1>5

LEMMA Prepending ==
    ASSUME NEW list, NEW n, Known(list, n), NEW e, EntryWhole(e), e.id = n
    PROVE  Known(<<e>> \o list, n + 1)
<1> DEFINE T == ToSet(list) \cup {e}
           s == <<e>> \o list
<1>1. list \in Seq(T) /\ n \in Nat /\ Len(list) \in Nat
  <2>1. list \in Seq(ToSet(list)) /\ n \in Nat
    BY DEF Known
  <2> QED
    BY <2>1
<1> HIDE DEF T
<1>2. e \in T
  BY DEF T
<1>3. /\ s \in Seq(T) /\ Len(s) = Len(list) + 1
      /\ s[1] = e /\ \A k \in 2..Len(s) : s[k] = list[k - 1]
  BY <1>1, <1>2
<1> HIDE DEF s
<1>4. s \in Seq(ToSet(s))
  BY <1>3, OverItsElements
<1>5. \A k \in 1..Len(s) : k = 1 \/ (k \in 2..Len(s) /\ k - 1 \in 1..Len(list))
  BY <1>1, <1>3
<1>6. \A k \in 1..Len(list) : EntryWhole(list[k]) /\ list[k].id \in 0..(n - 1)
  BY DEF Known
<1>7. ASSUME NEW k \in 1..Len(s) PROVE EntryWhole(s[k]) /\ s[k].id \in 0..n
  <2>1. CASE k = 1
    BY <1>1, <1>3, <2>1
  <2>2. CASE k # 1
    <3>1. s[k] = list[k - 1] /\ k - 1 \in 1..Len(list)
      BY <1>3, <1>5, <2>2
    <3> QED
      BY <1>1, <1>6, <3>1
  <2> QED
    BY <2>1, <2>2
<1>8. ASSUME NEW j \in 1..Len(s), NEW k \in 1..Len(s), j < k PROVE s[k].id < s[j].id
  <2>1. k \in 2..Len(s) /\ k - 1 \in 1..Len(list) /\ s[k] = list[k - 1]
    BY <1>1, <1>3, <1>8
  <2>2. CASE j = 1
    BY <1>1, <1>3, <1>6, <2>1, <2>2
  <2>3. CASE j # 1
    <3>1. j - 1 \in 1..Len(list) /\ s[j] = list[j - 1] /\ j - 1 < k - 1
      BY <1>1, <1>3, <1>5, <1>8, <2>3
    <3> QED
      BY <2>1, <3>1 DEF Known
  <2> QED
    BY <2>2, <2>3
<1>9. (n + 1) - 1 = n /\ n + 1 \in Nat
  BY <1>1
<1> QED
  BY <1>4, <1>7, <1>8, <1>9 DEF Known, s

LEMMA Replacing ==
    ASSUME NEW list, NEW n, Known(list, n), NEW k \in 1..Len(list),
           NEW e, EntryWhole(e), e.id = list[k].id
    PROVE  Known([list EXCEPT ![k] = e], n)
<1> DEFINE T == ToSet(list) \cup {e}
           s == [list EXCEPT ![k] = e]
<1>1. list \in Seq(T) /\ n \in Nat /\ Len(list) \in Nat
  <2>1. list \in Seq(ToSet(list)) /\ n \in Nat
    BY DEF Known
  <2> QED
    BY <2>1
<1>2. e \in T
  OBVIOUS
<1> HIDE DEF T
<1>3. /\ s \in Seq(T) /\ Len(s) = Len(list)
      /\ s[k] = e /\ \A j \in 1..Len(list) : j # k => s[j] = list[j]
  BY <1>1, <1>2
<1> HIDE DEF s
<1>4. s \in Seq(ToSet(s))
  BY <1>3, OverItsElements
<1>5. /\ \A j \in 1..Len(list) : EntryWhole(list[j]) /\ list[j].id \in 0..(n - 1)
      /\ \A j, l \in 1..Len(list) : j < l => list[l].id < list[j].id
  BY DEF Known
<1>6. \A j \in 1..Len(list) : s[j].id = list[j].id /\ EntryWhole(s[j])
  BY <1>3, <1>5
<1> QED
  BY <1>1, <1>3, <1>4, <1>5, <1>6 DEF Known, s

LEMMA Dropping ==
    ASSUME NEW list, NEW n, Known(list, n), NEW k \in 1..Len(list)
    PROVE  Known(RemoveAt(list, k), n)
<1> DEFINE T == ToSet(list)
           s == RemoveAt(list, k)
           at(j) == IF j < k THEN j ELSE j + 1
<1>1. list \in Seq(T) /\ n \in Nat /\ Len(list) \in Nat /\ k \in Nat /\ k <= Len(list) /\ k >= 1
  <2>1. list \in Seq(T) /\ n \in Nat
    BY DEF Known
  <2> HIDE DEF T
  <2> QED
    BY <2>1
<1> HIDE DEF T
<1>2. s \in Seq(T) /\ Len(s) = Len(list) - 1 /\ \A j \in 1..Len(s) : s[j] = list[at(j)]
  BY <1>1, DroppedAt
<1> HIDE DEF s
<1>3. s \in Seq(ToSet(s))
  BY <1>2, OverItsElements
<1>4. /\ \A j \in 1..Len(s) : at(j) \in 1..Len(list)
      /\ \A j, l \in 1..Len(s) : j < l => at(j) < at(l)
  BY <1>1, <1>2
<1> HIDE DEF at
<1>5. /\ \A j \in 1..Len(list) : EntryWhole(list[j]) /\ list[j].id \in 0..(n - 1)
      /\ \A j, l \in 1..Len(list) : j < l => list[l].id < list[j].id
  BY DEF Known
<1> QED
  BY <1>1, <1>2, <1>3, <1>4, <1>5 DEF Known, s

-----------------------------------------------------------------------------
(* Mdns: FindServersOnNetwork.                                             *)

\* What an unlimited search has collected of the first k entries: those from the
\* record it starts at, in their order.
CollectedUpTo(q, k, t) ==
    LET l == serverOnNetwork IN
    /\ t \in Seq(ToSet(l))
    /\ ToSet(t) = {l[j] : j \in {i \in 1..k : l[i].id >= q.start}}
    /\ \A i, j \in 1..Len(t) : i < j => t[j].id < t[i].id
    /\ \A j \in 1..Len(t) : t[j].id <= serverOnNetworkRecordIdCounter - j

\* It never has enough before the end, since numbers below the counter are distinct.
LEMMA Collecting ==
    ASSUME NEW q \in Searches, q.max = 0, q.filter = {},
           Known(serverOnNetwork, serverOnNetworkRecordIdCounter)
    PROVE  CollectedUpTo(q, Len(serverOnNetwork), filtered(q))
<1> DEFINE l == serverOnNetwork
           c == serverOnNetworkRecordIdCounter
           n == Len(l)
           T == Seq(ToSet(l))
           Taken(t, e) == Len(t) < recordCount(q) /\ e.id >= q.start /\ filterServerRecord(q.filter, e)
           body(k, t) == IF Taken(t, l[k]) THEN Append(t, l[k]) ELSE t
           Runs(g) == g = [k \in 0..n |-> IF k = 0 THEN <<>> ELSE body(k, g[k-1])]
           upto == CHOOSE g : Runs(g)
           F == [k \in 1..n |-> [t \in T |-> body(k, t)]]
<1>1. n \in Nat /\ <<>> \in T /\ DOMAIN l = 1..n /\ \A k \in 1..n : l[k] \in ToSet(l)
  <2>1. n \in Nat /\ DOMAIN l = 1..n
    BY DEF Known
  <2> QED
    BY <2>1 DEF ToSet
<1>2. filtered(q) = upto[n]
  BY DEF filtered
<1>3. \A k \in 1..n : \A t \in T : body(k, t) \in T
  <2> HIDE DEF Taken
  <2> QED
    BY <1>1
<1>4. \E g : Computes(g, n, T, <<>>, F)
  <2>1. F \in Bodies(n, T)
    BY <1>3 DEF Bodies
  <2> HIDE DEF F, T, n
  <2> QED
    BY <1>1, <2>1, Looped
<1>5. \E g \in [0..n -> T] : Runs(g)
  <2>1. PICK g : Computes(g, n, T, <<>>, F)
    BY <1>4
  <2>2. g \in [0..n -> T] /\ g[0] = <<>>
    BY <2>1 DEF Computes
  <2>3. ASSUME NEW k \in 1..n PROVE g[k] = body(k, g[k-1])
    <3>1. k - 1 \in 0..n
      BY <1>1
    <3>2. g[k-1] \in T
      BY <2>2, <3>1
    <3>3. g[k] = F[k][g[k-1]]
      BY <2>1 DEF Computes
    <3> HIDE DEF T, Taken
    <3> QED
      BY <3>2, <3>3
  <2>4. \A k \in 0..n : k = 0 \/ k \in 1..n
    BY <1>1
  <2> HIDE DEF body, T, n
  <2> QED
    BY <2>2, <2>3, <2>4
<1>6. Runs(upto)
  BY <1>5
<1> HIDE DEF upto
<1>7. upto[0] = <<>> /\ \A k \in 1..n : upto[k] = body(k, upto[k-1])
  <2>1. 0 \in 0..n /\ \A k \in 1..n : k \in 0..n /\ k # 0
    BY <1>1
  <2> HIDE DEF body
  <2> QED
    BY <1>6, <2>1
<1>8. recordCount(q) = IF q.start < c THEN c - q.start ELSE 0
  BY DEF recordCount
<1>9. q.start \in Nat /\ c \in Nat
  BY MdnsConstants DEF Known
<1> DEFINE P == {k \in 0..n : CollectedUpTo(q, k, upto[k])}
<1> HIDE DEF body
<1>10. 0 \in P
  <2>1. upto[0] = <<>> /\ 0 \in 0..n /\ <<>> \in Seq(ToSet(l))
    BY <1>1, <1>7
  <2>2. ToSet(<<>>) = {}
    BY DEF ToSet
  <2>3. {l[j] : j \in {i \in 1..0 : l[i].id >= q.start}} = {}
    OBVIOUS
  <2>4. Len(<<>>) = 0 /\ 1..0 = {}
    OBVIOUS
  <2> HIDE DEF n, l
  <2>5. CollectedUpTo(q, 0, <<>>)
    BY <2>1, <2>2, <2>3, <2>4 DEF CollectedUpTo, l
  <2> QED
    BY <2>1, <2>5
<1>11. ASSUME NEW k \in 1..n, k - 1 \in P PROVE k \in P
  <2> DEFINE t == upto[k-1]
             e == l[k]
  <2>1. CollectedUpTo(q, k - 1, t) /\ k \in 0..n /\ upto[k] = body(k, t)
    BY <1>1, <1>7, <1>11
  <2> HIDE DEF t
  <2>2. e \in ToSet(l) /\ e.id \in 0..(c - 1) /\ c \in Nat
        /\ \A j \in 1..(k - 1) : e.id < l[j].id /\ l[j].id \in 0..(c - 1)
    BY <1>1 DEF Known
  <2>3. filterServerRecord(q.filter, e)
    BY DEF filterServerRecord
  <2>4. t \in Seq(ToSet(l)) /\ Len(t) \in Nat /\ DOMAIN t = 1..Len(t)
    BY <2>1 DEF CollectedUpTo
  <2>5. \A j \in 1..Len(t) : e.id < t[j].id /\ t[j].id \in 0..(c - 1) /\ t[j].id <= c - j
    <3>1. \A j \in 1..Len(t) : t[j] \in ToSet(t)
      BY <2>4 DEF ToSet
    <3> QED
      BY <2>1, <2>2, <3>1 DEF CollectedUpTo
  <2>6. e.id >= q.start => Len(t) < recordCount(q)
    <3>1. CASE Len(t) = 0
      BY <1>8, <1>9, <2>2, <3>1
    <3>2. CASE Len(t) # 0
      <4>1. Len(t) \in 1..Len(t)
        BY <2>4, <3>2
      <4>2. e.id < c - Len(t)
        <5> DEFINE m == Len(t)
        <5>1. e.id < t[m].id /\ t[m].id \in Nat /\ t[m].id <= c - m /\ m \in Nat /\ e.id \in Nat
          BY <2>2, <2>4, <2>5, <4>1
        <5> HIDE DEF m, e, c
        <5>2. c \in Nat
          BY <2>2
        <5> QED
          BY <5>1, <5>2 DEF m
      <4> QED
        BY <1>8, <1>9, <2>2, <2>4, <4>2
    <3> QED
      BY <3>1, <3>2
  <2>7. upto[k] = IF e.id >= q.start THEN Append(t, e) ELSE t
    BY <2>1, <2>3, <2>6 DEF body
  <2>8. {l[j] : j \in {i \in 1..k : l[i].id >= q.start}}
          = {l[j] : j \in {i \in 1..(k - 1) : l[i].id >= q.start}} \cup (IF e.id >= q.start THEN {e} ELSE {})
    <3>1. \A i : i \in 1..k <=> i \in 1..(k - 1) \/ i = k
      BY <1>1
    <3> QED
      BY <3>1
  <2>9. CASE e.id >= q.start
    <3> DEFINE s == Append(t, e)
    <3>1. /\ s \in Seq(ToSet(l)) /\ Len(s) = Len(t) + 1
          /\ \A j \in 1..Len(t) : s[j] = t[j]
          /\ s[Len(t) + 1] = e
      BY <2>2, <2>4
    <3> HIDE DEF s
    <3>2. \A j \in 1..Len(s) : j \in 1..Len(t) \/ j = Len(t) + 1
      BY <2>4, <3>1
    <3>3. ToSet(s) = ToSet(t) \cup {e}
      <4>1. DOMAIN s = 1..Len(s) /\ Len(t) + 1 \in 1..Len(s) /\ \A j \in 1..Len(t) : j \in 1..Len(s)
        BY <2>4, <3>1
      <4> HIDE DEF e
      <4>2. ASSUME NEW x \in ToSet(s) PROVE x \in ToSet(t) \cup {e}
        BY <2>4, <3>1, <3>2, <4>1, <4>2 DEF ToSet
      <4>3. ASSUME NEW x \in ToSet(t) \cup {e} PROVE x \in ToSet(s)
        BY <2>4, <3>1, <4>1, <4>3 DEF ToSet
      <4> QED
        BY <4>2, <4>3
    <3>4. \A i, j \in 1..Len(s) : i < j => s[j].id < s[i].id
      <4>1. ASSUME NEW i \in 1..Len(s), NEW j \in 1..Len(s), i < j PROVE s[j].id < s[i].id
        <5>1. i \in 1..Len(t)
          BY <2>4, <3>1, <4>1
        <5> QED
          BY <2>1, <2>5, <3>1, <3>2, <4>1, <5>1 DEF CollectedUpTo
      <4> QED
        BY <4>1
    <3>5. \A j \in 1..Len(s) : s[j].id <= c - j
      <4>1. e.id <= c - (Len(t) + 1)
        <5>1. CASE Len(t) = 0
          BY <2>2, <5>1
        <5>2. CASE Len(t) # 0
          <6>1. Len(t) \in 1..Len(t)
            BY <2>4, <5>2
          <6>2. e.id < c - Len(t)
            <7> DEFINE m == Len(t)
            <7>1. e.id < t[m].id /\ t[m].id \in Nat /\ t[m].id <= c - m /\ m \in Nat /\ e.id \in Nat
              BY <2>2, <2>4, <2>5, <6>1
            <7> HIDE DEF m, e, c
            <7>2. c \in Nat
              BY <2>2
            <7> QED
              BY <7>1, <7>2 DEF m
          <6> QED
            BY <2>2, <2>4, <6>2
        <5> QED
          BY <5>1, <5>2
      <4> QED
        BY <2>5, <3>1, <3>2, <4>1
    <3>6. upto[k] = s
      BY <2>7, <2>9 DEF s
    <3>7. ToSet(s) = {l[j] : j \in {i \in 1..k : l[i].id >= q.start}}
      <4>1. ToSet(t) = {l[j] : j \in {i \in 1..(k - 1) : l[i].id >= q.start}}
        BY <2>1 DEF CollectedUpTo
      <4> HIDE DEF t, e
      <4> QED
        BY <2>8, <2>9, <3>3, <4>1
    <3> QED
      BY <2>1, <3>1, <3>4, <3>5, <3>6, <3>7 DEF CollectedUpTo
  <2>10. CASE ~(e.id >= q.start)
    BY <2>1, <2>7, <2>8, <2>10 DEF CollectedUpTo
  <2> QED
    BY <2>9, <2>10
<1>12. P = 0..n
  <2>1. P \in SUBSET (0..n)
    OBVIOUS
  <2> HIDE DEF P, n
  <2> QED
    BY <1>1, <1>10, <1>11, <2>1, UpTo
<1> QED
  <2>1. n \in 0..n
    BY <1>1
  <2> QED
    BY <1>2, <1>12, <2>1

\* An unlimited search that finds what is there.
LEMMA Finding ==
    ASSUME Known(serverOnNetwork, serverOnNetworkRecordIdCounter), Find PROVE FindsAll'
<1>1. PICK q \in Searches :
        found' = [q |-> q, servers |-> Service_FindServersOnNetwork(q), of |-> serverOnNetwork]
  BY DEF Find
<1> SUFFICES ASSUME q.max = 0, q.filter = {}
             PROVE  /\ ToSet(found'.servers) = {e \in ToSet(found'.of) : e.id >= q.start}
                    /\ \A i, j \in DOMAIN found'.servers :
                          i < j => found'.servers[i].id < found'.servers[j].id
  BY <1>1 DEF FindsAll
<1> DEFINE l == serverOnNetwork
           t == filtered(q)
           n == Len(t)
           s == Reverse(t)
<1>2. CollectedUpTo(q, Len(l), t)
  BY Collecting
<1>3. t \in Seq(ToSet(l)) /\ n \in Nat /\ DOMAIN t = 1..n
  BY <1>2 DEF CollectedUpTo
<1>4. s = [i \in 1..n |-> t[(n - i) + 1]]
  BY DEF Reverse
<1>5. found'.servers = s /\ found'.of = l
  BY <1>1 DEF Service_FindServersOnNetwork
<1> HIDE DEF s
<1>6. \A i \in 1..n : (n - i) + 1 \in 1..n /\ (n - ((n - i) + 1)) + 1 = i
  BY <1>3
<1> HIDE DEF t
<1>7. ToSet(s) = ToSet(t)
  <2>1. DOMAIN s = 1..n
    BY <1>4
  <2> HIDE DEF n
  <2>2. ASSUME NEW x \in ToSet(s) PROVE x \in ToSet(t)
    <3>1. PICK i \in 1..n : x = s[i]
      BY <2>1, <2>2 DEF ToSet
    <3> QED
      BY <1>3, <1>4, <1>6, <3>1 DEF ToSet
  <2>3. ASSUME NEW x \in ToSet(t) PROVE x \in ToSet(s)
    <3>1. PICK i \in 1..n : x = t[i]
      BY <1>3, <2>3 DEF ToSet
    <3>2. s[(n - i) + 1] = t[(n - ((n - i) + 1)) + 1]
      BY <1>4, <1>6
    <3> QED
      BY <1>6, <2>1, <3>1, <3>2 DEF ToSet
  <2> QED
    BY <2>2, <2>3
<1>8. ToSet(t) = {e \in ToSet(l) : e.id >= q.start}
  <2>1. DOMAIN l = 1..Len(l)
    BY DEF Known
  <2>2. ToSet(t) = {l[j] : j \in {i \in 1..Len(l) : l[i].id >= q.start}}
    BY <1>2 DEF CollectedUpTo
  <2>3. ToSet(l) = {l[j] : j \in 1..Len(l)}
    BY <2>1 DEF ToSet
  <2> HIDE DEF l
  <2> QED
    BY <2>2, <2>3
<1>9. ASSUME NEW i \in 1..n, NEW j \in 1..n, i < j PROVE s[i].id < s[j].id
  <2>1. (n - i) + 1 \in 1..n /\ (n - j) + 1 \in 1..n /\ (n - j) + 1 < (n - i) + 1
    BY <1>3, <1>6, <1>9
  <2>2. s[i] = t[(n - i) + 1] /\ s[j] = t[(n - j) + 1]
    BY <1>4
  <2> QED
    BY <1>2, <2>1, <2>2 DEF CollectedUpTo
<1>10. DOMAIN s = 1..n
  BY <1>4
<1> QED
  BY <1>5, <1>7, <1>8, <1>9, <1>10

LEMMA InitNetwork == MdnsInit => NetworkInv
<1> SUFFICES ASSUME MdnsInit PROVE NetworkInv
  OBVIOUS
<1>1. Known(serverOnNetwork, serverOnNetworkRecordIdCounter)
  <2>1. <<>> \in Seq(ToSet(<<>>)) /\ Len(<<>>) = 0
    OBVIOUS
  <2> QED
    BY <2>1 DEF MdnsInit, Known
<1>2. ToldWhole /\ FindsAll
  BY DEF MdnsInit, ToldWhole, FindsAll
<1> QED
  BY <1>1, <1>2 DEF NetworkInv

LEMMA Hearing ==
    ASSUME NetworkInv, NEW name \in DOMAIN Announced, NEW type \in {"SRV", "TXT"}, Received(name, type)
    PROVE  NetworkInv'
<1> DEFINE k == EntryOf(name)
           c == serverOnNetworkRecordIdCounter
           list == IF k = 0 THEN <<NewEntry(name)>> \o serverOnNetwork ELSE serverOnNetwork
           at == IF k = 0 THEN 1 ELSE k
           n == c + (IF k = 0 THEN 1 ELSE 0)
           e == Refreshed(list[at], type, Announced[name])
<1>1. Known(serverOnNetwork, c)
  BY DEF NetworkInv
<1>2. /\ serverOnNetwork' = [list EXCEPT ![at] = e]
      /\ serverOnNetworkRecordIdCounter' = n
      /\ \/ told' = [name |-> e.name, url |-> e.url, added |-> TRUE, txt |-> e.txtSet] /\ e.srvSet
         \/ told' = told
      /\ found' = found
  BY DEF Received, Tells
<1>3. /\ Known(list, n) /\ at \in 1..Len(list) /\ EntryWhole(list[at])
      /\ Apart(name) \/ Apart(list[at].name) => list[at].name = name
  <2>1. CASE k = 0
    <3> DEFINE f == NewEntry(name)
    <3>1. EntryWhole(f) /\ f.name = name /\ f.id = c
      BY NewEntries
    <3>2. Known(list, n)
      BY <1>1, <2>1, <3>1, Prepending
    <3>3. serverOnNetwork \in Seq(ToSet(serverOnNetwork))
      BY <1>1 DEF Known
    <3> HIDE DEF f
    <3>4. list[1] = f /\ 1 \in 1..Len(list)
      BY <2>1, <3>3 DEF f
    <3> QED
      BY <2>1, <3>1, <3>2, <3>4
  <2>2. CASE k # 0
    <3>1. /\ k \in 1..Len(serverOnNetwork)
          /\ Apart(name) \/ Apart(serverOnNetwork[k].name) => serverOnNetwork[k].name = name
      BY <1>1, <2>2, EntriesFound
    <3>2. n = c /\ list = serverOnNetwork /\ at = k
      BY <1>1, <2>2 DEF Known
    <3> QED
      BY <1>1, <3>1, <3>2 DEF Known
  <2> QED
    BY <2>1, <2>2
<1>4. EntryWhole(e) /\ e.id = list[at].id /\ e.name = list[at].name
  BY <1>3, Refreshing
<1> HIDE DEF e, list, at, n
<1>5. Known([list EXCEPT ![at] = e], n)
  BY <1>3, <1>4, Replacing
<1>6. ToldWhole'
  <2>1. CASE told' = told
    BY <2>1 DEF NetworkInv, ToldWhole
  <2>2. CASE told' = [name |-> e.name, url |-> e.url, added |-> TRUE, txt |-> e.txtSet] /\ e.srvSet
    BY <1>4, <2>2 DEF EntryWhole, ToldWhole
  <2> QED
    BY <1>2, <2>1, <2>2
<1>7. FindsAll'
  BY <1>2 DEF NetworkInv, FindsAll
<1> QED
  BY <1>2, <1>5, <1>6, <1>7 DEF NetworkInv

LEMMA Leaving ==
    ASSUME NetworkInv, NEW name \in DOMAIN Announced, Withdrawn(name)
    PROVE  NetworkInv'
<1> DEFINE k == EntryOf(name)
<1>1. Known(serverOnNetwork, serverOnNetworkRecordIdCounter)
  BY DEF NetworkInv
<1>2. /\ k # 0
      /\ serverOnNetwork' = RemoveAt(serverOnNetwork, k)
      /\ serverOnNetworkRecordIdCounter' = serverOnNetworkRecordIdCounter
      /\ told'.added = FALSE
      /\ found' = found
  BY DEF Withdrawn, Tells
<1>3. k \in 1..Len(serverOnNetwork)
  BY <1>1, <1>2, EntriesFound
<1>4. Known(serverOnNetwork', serverOnNetworkRecordIdCounter')
  BY <1>1, <1>2, <1>3, Dropping
<1> QED
  BY <1>2, <1>4 DEF NetworkInv, ToldWhole, FindsAll

\* The list of servers heard of stays whole.
THEOREM NetworkInvariance == MdnsSpec => []NetworkInv
<1>1. ASSUME NetworkInv, [MdnsNext]_mdnsVars PROVE NetworkInv'
  <2>1. ASSUME NEW name \in DOMAIN Announced, NEW type \in {"SRV", "TXT"}, Received(name, type)
        PROVE  NetworkInv'
    BY <1>1, <2>1, Hearing
  <2>2. ASSUME NEW name \in DOMAIN Announced, Withdrawn(name) PROVE NetworkInv'
    BY <1>1, <2>2, Leaving
  <2>3. CASE Find
    <3>1. FindsAll'
      BY <1>1, <2>3, Finding DEF NetworkInv
    <3> QED
      BY <1>1, <2>3, <3>1 DEF NetworkInv, Find, Known, ToldWhole
  <2>4. CASE UNCHANGED mdnsVars
    BY <1>1, <2>4 DEF mdnsVars, NetworkInv, Known, ToldWhole, FindsAll
  <2> QED
    BY <1>1, <2>1, <2>2, <2>3, <2>4 DEF MdnsNext
<1> QED
  BY <1>1, InitNetwork, PTL DEF MdnsSpec

\* The url of a server is put together whole from records in any order, and an
\* unlimited search lists every server once.
THEOREM NetworkStaysExact == MdnsSpec => []NetworkExact
<1>1. NetworkInv => NetworkExact
  <2> SUFFICES ASSUME NetworkInv PROVE NetworkExact
    OBVIOUS
  <2>1. DOMAIN serverOnNetwork = 1..Len(serverOnNetwork)
    BY DEF NetworkInv, Known
  <2> QED
    BY <2>1 DEF NetworkInv, Known, EntryWhole, ToldWhole, UrlWhole, NetworkExact
<1> QED
  BY <1>1, NetworkInvariance, PTL

-----------------------------------------------------------------------------
(* Discovery: registrations.                                               *)

\* A record with the fields of one.
Formed(r) ==
    r \in [type : {r.type}, name : {r.name}, domain : {r.domain}, port : {r.port}, path : {r.path}, caps : {r.caps}, stage : {r.stage}]

\* The published records, as PointerHasService has it of those of the daemon.
Served(pub) ==
    /\ pub = [recs |-> pub.recs, astray |-> pub.astray]
    /\ \A r \in pub.recs : Formed(r)
    /\ \A r \in pub.recs : r.type = "PTR" => r.name = PointersName
    /\ \A r \in pub.recs : r.type = "PTR" /\ r.stage # "ending" =>
          \/ r.domain \in pub.astray
          \/ \E q \in pub.recs : q.type = "SRV" /\ q.stage # "ending" /\ q.name = r.domain

\* Entries of different servers.
Roster(list) ==
    /\ list \in Seq(ToSet(list))
    /\ \A k \in 1..Len(list) :
          /\ list[k] = [req |-> list[k].req, lastSeen |-> list[k].lastSeen]
          /\ list[k].req.uri # "unset"
    /\ \A j, k \in 1..Len(list) : j # k => list[j].req.uri # list[k].req.uri

\* An entry e says that the own server was seen at t or later.
Shows(e, t) ==
    /\ e.req.uri = OwnRequest.uri /\ e.req.sem = "none"
    /\ e.lastSeen \in Int /\ e.lastSeen >= t

OwnSeen(list, t) == \E k \in 1..Len(list) : Shows(list[k], t)

\* The periodic job fires when it is due, and when it fired last the server was
\* registered, if the discovery server has answered since before that.
Repeating(j) ==
    /\ ~j.retry /\ j.due \in now..(now + Interval)
    /\ reachable /\ since < j.due - Interval => OwnSeen(registered, j.due - Interval)

JobType == [retry : BOOLEAN, due : Nat, interval : Nat]

Waits ==
    /\ now \in Nat /\ since \in Nat
    /\ jobs \in Seq(JobType)
    /\ \E k \in 1..Len(jobs) : Repeating(jobs[k])

RegistrationInv ==
    /\ Roster(registered) /\ registeredServersSize = Len(registered)
    /\ Served(published)
    /\ Waits
    /\ reply.st = "Found" => \A k \in DOMAIN reply.servers : reply.servers[k] # "unset"
    /\ reply.st = "Overflow" => \E i, j \in DOMAIN reply.asked : i # j /\ reply.asked[i] = reply.asked[j]

-----------------------------------------------------------------------------
(* Discovery: what is published.                                           *)

\* What addRecord may add for a url.
RecordsOf(req, url) ==
    LET dom == Domain(req.name, url) IN
    {Ptr(dom), Srv(dom, url.port), Txt(dom, url.path, req.caps)} \cup Addresses(dom)

\* Records and domains that are not left when records are withdrawn.
Closed(U, A) == \A r \in U : [r EXCEPT !.stage = "ending"] \in U /\ r.name \in A

Within(pub, U, A) == pub.recs \subseteq U /\ pub.astray \subseteq A

LEMMA Restaged ==
    ASSUME NEW r, Formed(r), NEW s
    PROVE  LET e == [r EXCEPT !.stage = s] IN
           /\ Formed(e) /\ e.stage = s
           /\ e.type = r.type /\ e.name = r.name /\ e.domain = r.domain /\ e.port = r.port /\ e.path = r.path /\ e.caps = r.caps
<1> DEFINE e == [r EXCEPT !.stage = s]
<1>1. e \in [type : {r.type}, name : {r.name}, domain : {r.domain}, port : {r.port}, path : {r.path}, caps : {r.caps}, stage : {s}]
  BY DEF Formed
<1>2. /\ e.stage = s /\ e.type = r.type /\ e.name = r.name /\ e.domain = r.domain
      /\ e.port = r.port /\ e.path = r.path /\ e.caps = r.caps
  BY <1>1
<1> HIDE DEF e
<1>3. Formed(e)
  BY <1>1, <1>2 DEF Formed
<1> QED
  BY <1>2, <1>3 DEF e

LEMMA RecFormed ==
    ASSUME NEW t, NEW name, NEW dom, NEW port, NEW s
    PROVE  LET r == Rec(t, name, dom, port, s) IN
           Formed(r) /\ r.type = t /\ r.name = name /\ r.domain = dom /\ r.stage = s
BY DEF Rec, Formed

LEMMA TxtFormed ==
    ASSUME NEW dom, NEW path, NEW caps
    PROVE  Formed(Txt(dom, path, caps)) /\ Txt(dom, path, caps).type = "TXT"
<1> DEFINE p == IF path = "" THEN "/" ELSE path
           c == IF caps = {} THEN {"NA"} ELSE caps
           r == [type |-> "TXT", name |-> dom, domain |-> dom, port |-> 0, path |-> p, caps |-> c, stage |-> "probing"]
<1> HIDE DEF p, c
<1> DEFINE base == [type |-> "TXT", name |-> dom, domain |-> dom, port |-> 0, path |-> "", caps |-> {}, stage |-> "probing"]
<1>1. Txt(dom, path, caps) = r
  <2>1. Txt(dom, path, caps) = [base EXCEPT !.path = p, !.caps = c]
    BY Zenon DEF Txt, Rec, p, c
  <2> QED
    BY <2>1
<1>2. Formed(r) /\ r.type = "TXT"
  BY DEF Formed
<1> QED
  BY <1>1, <1>2

\* What withdrawing records leaves: the others, and endings of some.
LEMMA Withdrawing ==
    ASSUME NEW recs, NEW gone, gone \subseteq recs, \A r \in recs : Formed(r)
    PROVE  /\ recs \ gone \subseteq mdnsd_done(recs, gone)
           /\ \A r \in mdnsd_done(recs, gone) :
                 \/ r \in recs \ gone
                 \/ Formed(r) /\ r.stage = "ending" /\ \E q \in gone : r = [q EXCEPT !.stage = "ending"] /\ r.type = q.type /\ r.name = q.name
<1>1. recs \ gone \subseteq mdnsd_done(recs, gone)
  BY DEF mdnsd_done
<1>2. ASSUME NEW r \in mdnsd_done(recs, gone), r \notin recs \ gone
      PROVE  Formed(r) /\ r.stage = "ending" /\ \E q \in gone : r = [q EXCEPT !.stage = "ending"] /\ r.type = q.type /\ r.name = q.name
  <2>1. PICK q \in gone : r = [q EXCEPT !.stage = "ending"]
    BY <1>2 DEF mdnsd_done
  <2>2. Formed(q)
    OBVIOUS
  <2> QED
    BY <2>1, <2>2, Restaged
<1> QED
  BY <1>1, <1>2

LEMMA Removing ==
    ASSUME NEW pub, Served(pub), NEW name, NEW url, NEW txt, NEW U, NEW A, Closed(U, A), Within(pub, U, A)
    PROVE  LET new == UA_Discovery_removeRecord(pub, name, url, txt) IN Served(new) /\ Within(new, U, A)
<1> DEFINE new == UA_Discovery_removeRecord(pub, name, url, txt)
           dom == Domain(name, url)
           pointers == PointersTo(pub.recs, dom)
           recs == mdnsd_done(pub.recs, pointers)
           gone == TakenAlong(recs, dom, url.port, txt)
           left == mdnsd_done(recs, gone)
           lost == {r.name : r \in {q \in gone : q.type = "SRV"}}
           astray == (pub.astray \ {dom}) \cup (lost \ {dom})
<1>1. CASE new = pub
  BY <1>1
<1>2. CASE new = [recs |-> left, astray |-> astray]
  <2> HIDE DEF new, dom
  <2>1. new.recs = left /\ new.astray = astray /\ new = [recs |-> new.recs, astray |-> new.astray]
    BY <1>2
  <2>2. pointers \subseteq pub.recs /\ \A r \in pub.recs : r.type = "PTR" /\ r.domain = dom => r \in pointers
    BY DEF PointersTo, mdnsd_get_published, Served
  <2>3. \A r \in pub.recs : Formed(r)
    BY DEF Served
  <2>4. /\ pub.recs \ pointers \subseteq recs
        /\ \A r \in recs : r \in pub.recs \ pointers
              \/ (Formed(r) /\ r.stage = "ending" /\ \E q \in pointers : r = [q EXCEPT !.stage = "ending"] /\ r.type = q.type /\ r.name = q.name)
    <3> HIDE DEF pointers
    <3> QED
      BY <2>2, <2>3, Withdrawing
  <2>5. \A q \in pointers : q.type = "PTR"
    BY DEF PointersTo
  <2> HIDE DEF pointers, recs
  <2>6. gone \subseteq recs /\ \A r \in recs : Formed(r)
    BY <2>3, <2>4 DEF TakenAlong, mdnsd_get_published
  <2> HIDE DEF gone
  <2>7. /\ recs \ gone \subseteq left
        /\ \A r \in left : r \in recs \ gone
              \/ (Formed(r) /\ r.stage = "ending" /\ \E q \in gone : r = [q EXCEPT !.stage = "ending"] /\ r.type = q.type /\ r.name = q.name)
    BY <2>6, Withdrawing
  <2> HIDE DEF left
  <2>8. \A r \in left : Formed(r)
    BY <2>6, <2>7
  <2>9. \A r \in recs : r.type = "PTR" => r.name = PointersName
    BY <2>2, <2>4 DEF Served
  <2>10. \A r \in left : r.type = "PTR" => r.name = PointersName
    BY <2>6, <2>7, <2>9
  <2>11. ASSUME NEW r \in left, r.type = "PTR", r.stage # "ending"
         PROVE  \/ r.domain \in astray
                \/ \E q \in left : q.type = "SRV" /\ q.stage # "ending" /\ q.name = r.domain
    <3>1. r \in pub.recs \ pointers
      BY <2>4, <2>7, <2>11
    <3>2. r.domain # dom
      BY <2>2, <2>11, <3>1
    <3>3. CASE r.domain \in pub.astray
      BY <3>2, <3>3
    <3>4. CASE r.domain \notin pub.astray
      <4>1. PICK q \in pub.recs : q.type = "SRV" /\ q.stage # "ending" /\ q.name = r.domain
        BY <2>11, <3>1, <3>4 DEF Served
      <4>2. q \in recs
        BY <2>4, <2>5, <4>1
      <4>3. CASE q \in gone
        BY <3>2, <4>1, <4>3
      <4>4. CASE q \notin gone
        BY <2>7, <4>1, <4>2, <4>4
      <4> QED
        BY <4>3, <4>4
    <3> QED
      BY <3>3, <3>4
  <2>12. Served(new)
    BY <2>1, <2>8, <2>10, <2>11 DEF Served
  <2>13. recs \subseteq U
    BY <2>2, <2>4 DEF Within, Closed
  <2>14. left \subseteq U /\ astray \subseteq A
    BY <2>6, <2>7, <2>13 DEF Within, Closed
  <2> QED
    BY <2>1, <2>12, <2>14 DEF Within, new
<1> QED
  BY <1>1, <1>2 DEF UA_Discovery_removeRecord

LEMMA Adding ==
    ASSUME NEW pub, Served(pub), NEW req, NEW url, NEW txt, NEW U, NEW A, Within(pub, U, A), RecordsOf(req, url) \subseteq U
    PROVE  LET new == UA_Discovery_addRecord(pub, req.name, url, req.caps, txt) IN Served(new) /\ Within(new, U, A)
<1> DEFINE new == UA_Discovery_addRecord(pub, req.name, url, req.caps, txt)
           dom == Domain(req.name, url)
           pointer == IF PointersTo(pub.recs, dom) = {} THEN {Ptr(dom)} ELSE {}
           S == Srv(dom, url.port)
           X == Txt(dom, url.path, req.caps)
           text == IF txt THEN {X} ELSE {}
           recs == pub.recs \cup {S} \cup pointer \cup Addresses(dom) \cup text
           astray == pub.astray \ {dom}
<1>1. CASE new = pub
  BY <1>1
<1>2. CASE new = [recs |-> recs, astray |-> astray]
  <2>1. new.recs = recs /\ new.astray = astray /\ new = [recs |-> new.recs, astray |-> new.astray]
    BY <1>2
  <2>2. /\ Formed(S) /\ S.type = "SRV" /\ S.name = dom /\ S.stage = "probing"
        /\ Formed(Ptr(dom)) /\ Ptr(dom).type = "PTR" /\ Ptr(dom).name = PointersName /\ Ptr(dom).domain = dom
        /\ \A r \in Addresses(dom) : Formed(r) /\ r.type = "A"
        /\ Formed(X) /\ X.type = "TXT"
    <3>1. Formed(S) /\ S.type = "SRV" /\ S.name = dom /\ S.stage = "probing"
      BY RecFormed DEF Srv
    <3>2. Formed(Ptr(dom)) /\ Ptr(dom).type = "PTR" /\ Ptr(dom).name = PointersName /\ Ptr(dom).domain = dom
      BY RecFormed DEF Ptr
    <3>3. \A r \in Addresses(dom) : Formed(r) /\ r.type = "A"
      BY RecFormed DEF Addresses
    <3>4. Formed(X) /\ X.type = "TXT"
      BY TxtFormed
    <3> QED
      BY <3>1, <3>2, <3>3, <3>4
  <2>3. RecordsOf(req, url) = {Ptr(dom), S, X} \cup Addresses(dom)
    BY DEF RecordsOf
  <2> HIDE DEF new, dom, S, X
  <2> DEFINE P == Ptr(dom)
             B == Addresses(dom)
  <2>4. pointer \subseteq {P} /\ text \subseteq {X}
    OBVIOUS
  <2> HIDE DEF pointer, text, P, B
  <2>5. \A r \in recs : r \in pub.recs \/ r = S \/ r = P \/ r \in B \/ r = X
    BY <2>4 DEF B
  <2>6. pub.recs \subseteq recs /\ S \in recs
    OBVIOUS
  <2> HIDE DEF recs
  <2>7. \A r \in recs : Formed(r)
    BY <2>2, <2>5 DEF Served, P, B
  <2>8. \A r \in recs : r.type = "PTR" => r \in pub.recs \/ r = P
    BY <2>2, <2>5 DEF B
  <2>9. \A r \in recs : r.type = "PTR" => r.name = PointersName
    BY <2>2, <2>8 DEF Served, P
  <2>10. ASSUME NEW r \in recs, r.type = "PTR", r.stage # "ending"
         PROVE  \/ r.domain \in astray
                \/ \E q \in recs : q.type = "SRV" /\ q.stage # "ending" /\ q.name = r.domain
    <3>1. CASE r.domain = dom
      BY <2>2, <2>6, <3>1
    <3>2. CASE r.domain # dom
      <4>1. r \in pub.recs
        BY <2>2, <2>8, <2>10, <3>2 DEF P
      <4>2. r.domain \in pub.astray \/ \E q \in pub.recs : q.type = "SRV" /\ q.stage # "ending" /\ q.name = r.domain
        BY <2>10, <4>1 DEF Served
      <4> QED
        BY <2>6, <3>2, <4>2
    <3> QED
      BY <3>1, <3>2
  <2>11. Served(new)
    BY <2>1, <2>7, <2>9, <2>10 DEF Served
  <2>12. recs \subseteq U /\ astray \subseteq A
    BY <2>3, <2>5 DEF Within, P, B
  <2> QED
    BY <2>1, <2>11, <2>12 DEF Within, new
<1> QED
  BY <1>1, <1>2 DEF UA_Discovery_addRecord

LEMMA UpdatingOne ==
    ASSUME NEW pub, Served(pub), NEW req, req.online \in BOOLEAN, NEW url, NEW txt,
           NEW U, NEW A, Closed(U, A), Within(pub, U, A), RecordsOf(req, url) \subseteq U
    PROVE  Served(Updated(pub, req, url, txt)) /\ Within(Updated(pub, req, url, txt), U, A)
BY Adding, Removing DEF Updated

\* Every choice of fields that some records of V have, and the end as a stage.
Mixed(V) ==
    [type : {r.type : r \in V}, name : {r.name : r \in V}, domain : {r.domain : r \in V}, port : {r.port : r \in V},
     path : {r.path : r \in V}, caps : {r.caps : r \in V}, stage : {r.stage : r \in V} \cup {"ending"}]

LEMMA MixedClosed ==
    ASSUME NEW V, \A r \in V : Formed(r), NEW A, \A r \in V : r.name \in A
    PROVE  V \subseteq Mixed(V) /\ Closed(Mixed(V), A)
<1>1. V \subseteq Mixed(V)
  BY DEF Mixed, Formed
<1>2. Closed(Mixed(V), A)
  <2> DEFINE T == {r.type : r \in V}
             N == {r.name : r \in V}
             D == {r.domain : r \in V}
             P == {r.port : r \in V}
             Q == {r.path : r \in V}
             C == {r.caps : r \in V}
             S == {r.stage : r \in V} \cup {"ending"}
  <2>1. Mixed(V) = [type : T, name : N, domain : D, port : P, path : Q, caps : C, stage : S]
    BY DEF Mixed
  <2>2. N \subseteq A /\ "ending" \in S
    OBVIOUS
  <2> HIDE DEF T, N, D, P, Q, C, S
  <2> QED
    BY <2>1, <2>2 DEF Closed
<1> QED
  BY <1>1, <1>2

LEMMA RecordsFormed ==
    ASSUME NEW req, NEW url
    PROVE  \A r \in RecordsOf(req, url) : Formed(r)
<1> DEFINE dom == Domain(req.name, url)
<1>1. Formed(Srv(dom, url.port)) /\ Formed(Ptr(dom)) /\ \A r \in Addresses(dom) : Formed(r)
  BY RecFormed DEF Srv, Ptr, Addresses
<1>2. Formed(Txt(dom, url.path, req.caps))
  BY TxtFormed
<1> QED
  BY <1>1, <1>2 DEF RecordsOf

\* So does the loop over the urls.
LEMMA UpdatingAll ==
    ASSUME NEW pub, Served(pub), NEW req, req.online \in BOOLEAN, req.urls \in Seq(ToSet(req.urls)), NEW texts
    PROVE  Served(UpdatedFor(pub, req, texts))
<1> DEFINE n == Len(req.urls)
           V == pub.recs \cup UNION {RecordsOf(req, req.urls[k]) : k \in 1..n}
           U == Mixed(V)
           A == pub.astray \cup {r.name : r \in V}
           T == {p \in [recs : SUBSET U, astray : SUBSET A] : Served(p)}
           body(k, p) == Updated(p, req, req.urls[k], k \in texts)
           Runs(g) == g = [k \in 0..n |-> IF k = 0 THEN pub ELSE body(k, g[k-1])]
           upto == CHOOSE g : Runs(g)
           F == [k \in 1..n |-> [p \in T |-> body(k, p)]]
<1>0. V \subseteq U /\ Closed(U, A)
  <2>1. \A r \in V : Formed(r)
    BY RecordsFormed DEF Served
  <2>2. \A r \in V : r.name \in A
    OBVIOUS
  <2> HIDE DEF V, A
  <2> QED
    BY <2>1, <2>2, MixedClosed
<1> HIDE DEF U
<1>1. n \in Nat /\ pub \in T
  <2>1. pub = [recs |-> pub.recs, astray |-> pub.astray] /\ pub.recs \subseteq U /\ pub.astray \subseteq A
    BY <1>0 DEF Served
  <2>2. pub \in [recs : SUBSET U, astray : SUBSET A]
    <3> HIDE DEF A
    <3> QED
      BY <2>1
  <2> QED
    BY <2>2
<1>2. UpdatedFor(pub, req, texts) = upto[n]
  BY DEF UpdatedFor
<1>3. ASSUME NEW k \in 1..n, NEW p \in T PROVE body(k, p) \in T
  <2>1. Served(p) /\ Within(p, U, A) /\ RecordsOf(req, req.urls[k]) \subseteq U
    BY <1>0 DEF Within
  <2> HIDE DEF U, A, n, V, T
  <2>2. Served(body(k, p)) /\ Within(body(k, p), U, A)
    BY <1>0, <2>1, UpdatingOne
  <2> HIDE DEF body
  <2>3. body(k, p) = [recs |-> body(k, p).recs, astray |-> body(k, p).astray]
    BY <2>2 DEF Served
  <2>4. body(k, p) \in [recs : SUBSET U, astray : SUBSET A]
    BY <2>2, <2>3 DEF Within
  <2> QED
    BY <2>2, <2>4 DEF T
<1> HIDE DEF body, T
<1>4. \E g : Computes(g, n, T, pub, F)
  <2>1. F \in Bodies(n, T)
    BY <1>3 DEF Bodies
  <2> HIDE DEF F, n
  <2> QED
    BY <1>1, <2>1, Looped
<1>5. \E g \in [0..n -> T] : Runs(g)
  <2>1. PICK g : Computes(g, n, T, pub, F)
    BY <1>4
  <2>2. g \in [0..n -> T] /\ g[0] = pub
    BY <2>1 DEF Computes
  <2>3. ASSUME NEW k \in 1..n PROVE g[k] = body(k, g[k-1])
    <3>1. k - 1 \in 0..n
      BY <1>1
    <3>2. g[k-1] \in T
      BY <2>2, <3>1
    <3>3. g[k] = F[k][g[k-1]]
      BY <2>1 DEF Computes
    <3> QED
      BY <3>2, <3>3
  <2>4. \A k \in 0..n : k = 0 \/ k \in 1..n
    BY <1>1
  <2> HIDE DEF n
  <2> QED
    BY <2>2, <2>3, <2>4
<1>6. Runs(upto)
  BY <1>5
<1> HIDE DEF upto
<1>7. upto[0] = pub /\ \A k \in 1..n : upto[k] = body(k, upto[k-1])
  <2>1. 0 \in 0..n /\ \A k \in 1..n : k \in 0..n /\ k # 0
    BY <1>1
  <2> QED
    BY <1>6, <2>1
<1> DEFINE P == {k \in 0..n : upto[k] \in T}
<1>8. P = 0..n
  <2>1. 0 \in P /\ P \in SUBSET (0..n)
    BY <1>1, <1>7
  <2>2. ASSUME NEW k \in 1..n, k - 1 \in P PROVE k \in P
    <3>1. k \in 0..n
      BY <1>1
    <3> QED
      BY <1>3, <1>7, <2>2, <3>1
  <2> HIDE DEF P, n
  <2> QED
    BY <1>1, <2>1, <2>2, UpTo
<1>9. upto[n] \in T
  <2>1. n \in 0..n
    BY <1>1
  <2> QED
    BY <1>8, <2>1
<1> QED
  BY <1>2, <1>9 DEF T

-----------------------------------------------------------------------------
(* Discovery: the list.                                                    *)

LEMMA IsRegisteredIs ==
    ASSUME Roster(registered), NEW uri
    PROVE  IsRegistered(uri) <=> \E k \in 1..Len(registered) : registered[k].req.uri = uri
BY DEF Roster, IsRegistered

\* Two entries of one server are one entry.
LEMMA OneEntry ==
    ASSUME NEW list, Roster(list), NEW j \in 1..Len(list), NEW k \in 1..Len(list),
           list[j].req.uri = list[k].req.uri
    PROVE  j = k
BY DEF Roster

\* A registration is at the head or in the place of the one before.
LEMMA Entering ==
    ASSUME Roster(registered), now \in Nat, NEW req, req.uri # "unset"
    PROVE  /\ Roster(Entered(req))
           /\ Len(Entered(req)) = Len(registered) + (IF IsRegistered(req.uri) THEN 0 ELSE 1)
           /\ \E k \in 1..Len(Entered(req)) : Entered(req)[k] = Entry(req)
           /\ \A k \in 1..Len(registered) : registered[k].req.uri # req.uri =>
                 \E j \in 1..Len(Entered(req)) : Entered(req)[j] = registered[k]
<1> DEFINE l == registered
           e == Entry(req)
           s == Entered(req)
           T == ToSet(l) \cup {e}
<1>1. l \in Seq(ToSet(l)) /\ Len(l) \in Nat /\ DOMAIN l = 1..Len(l)
  BY DEF Roster
<1>2. e = [req |-> e.req, lastSeen |-> e.lastSeen] /\ e.req = req /\ e.req.uri # "unset"
  BY DEF Entry
<1>3. l \in Seq(T) /\ e \in T
  BY <1>1
<1>4. CASE IsRegistered(req.uri)
  <2>1. s = [k \in 1..Len(l) |-> IF l[k].req.uri = req.uri THEN e ELSE l[k]]
    BY <1>1, <1>4 DEF Entered
  <2>2. PICK m \in 1..Len(l) : l[m].req.uri = req.uri
    BY <1>4, IsRegisteredIs
  <2> HIDE DEF e, T
  <2>3. s \in Seq(T) /\ Len(s) = Len(l)
    <3>1. \A k \in 1..Len(l) : l[k] \in T
      BY <1>3
    <3>2. \A k \in 1..Len(l) : (IF l[k].req.uri = req.uri THEN e ELSE l[k]) \in T
      BY <1>3, <3>1
    <3> QED
      BY <1>1, <2>1, <3>2
  <2> HIDE DEF s
  <2>4. s \in Seq(ToSet(s))
    BY <2>3, OverItsElements
  <2>5. \A k \in 1..Len(l) : s[k].req.uri = l[k].req.uri
    BY <1>2, <2>1
  <2>6. \A k \in 1..Len(l) : s[k] = [req |-> s[k].req, lastSeen |-> s[k].lastSeen] /\ s[k].req.uri # "unset"
    <3>1. \A k \in 1..Len(l) : s[k] = e \/ s[k] = l[k]
      BY <2>1
    <3> QED
      BY <1>2, <3>1 DEF Roster
  <2>7. Roster(s)
    BY <2>3, <2>4, <2>5, <2>6 DEF Roster
  <2>8. s[m] = e /\ m \in 1..Len(s)
    BY <2>1, <2>2, <2>3
  <2>9. \A k \in 1..Len(l) : l[k].req.uri # req.uri => s[k] = l[k] /\ k \in 1..Len(s)
    BY <2>1, <2>3
  <2> QED
    BY <1>1, <1>4, <2>3, <2>7, <2>8, <2>9 DEF s, e
<1>5. CASE ~IsRegistered(req.uri)
  <2>1. s = <<e>> \o l
    BY <1>5 DEF Entered
  <2>2. \A k \in 1..Len(l) : l[k].req.uri # req.uri
    BY <1>5, IsRegisteredIs
  <2> HIDE DEF e, T, s
  <2>3. /\ s \in Seq(T) /\ Len(s) = Len(l) + 1
        /\ s[1] = e /\ \A k \in 1..Len(l) : s[k + 1] = l[k]
    BY <1>3, <2>1
  <2>4. s \in Seq(ToSet(s))
    BY <2>3, OverItsElements
  <2>5. \A k \in 1..Len(s) : k = 1 \/ (k - 1 \in 1..Len(l) /\ k = (k - 1) + 1)
    BY <1>1, <2>3
  <2>6. \A k \in 1..Len(s) : s[k] = [req |-> s[k].req, lastSeen |-> s[k].lastSeen] /\ s[k].req.uri # "unset"
    <3>1. \A k \in 1..Len(s) : s[k] = e \/ \E j \in 1..Len(l) : s[k] = l[j]
      BY <2>3, <2>5
    <3> QED
      BY <1>2, <3>1 DEF Roster
  <2>7. ASSUME NEW j \in 1..Len(s), NEW k \in 1..Len(s), j # k PROVE s[j].req.uri # s[k].req.uri
    <3>1. CASE j = 1
      BY <1>2, <2>2, <2>3, <2>5, <2>7, <3>1
    <3>2. CASE k = 1
      BY <1>2, <2>2, <2>3, <2>5, <2>7, <3>2
    <3>3. CASE j # 1 /\ k # 1
      <4>1. /\ j - 1 \in 1..Len(l) /\ s[j] = l[j - 1]
            /\ k - 1 \in 1..Len(l) /\ s[k] = l[k - 1] /\ j - 1 # k - 1
        <5>1. j - 1 \in 1..Len(l) /\ j = (j - 1) + 1 /\ k - 1 \in 1..Len(l) /\ k = (k - 1) + 1
          BY <2>5, <3>3
        <5> QED
          BY <2>3, <2>7, <5>1
      <4> QED
        BY <4>1 DEF Roster
    <3> QED
      BY <3>1, <3>2, <3>3
  <2>8. Roster(s)
    BY <2>4, <2>6, <2>7 DEF Roster
  <2>9. 1 \in 1..Len(s) /\ \A k \in 1..Len(l) : k + 1 \in 1..Len(s)
    BY <1>1, <2>3
  <2> QED
    BY <1>1, <1>5, <2>3, <2>8, <2>9 DEF s, e
<1> QED
  BY <1>4, <1>5

\* The entry of a server that unregisters leaves the list.
LEMMA Unregistering ==
    ASSUME Roster(registered), NEW uri, IsRegistered(uri)
    PROVE  LET s == Without(registered, uri) IN
           /\ Roster(s) /\ Len(s) = Len(registered) - 1
           /\ \A k \in 1..Len(registered) : registered[k].req.uri # uri =>
                 \E j \in 1..Len(s) : s[j] = registered[k]
<1> DEFINE l == registered
           s == Without(l, uri)
           D == {k \in 1..Len(l) : l[k].req.uri = uri}
           r == Min(D)
           T == ToSet(l)
           at(j) == IF j < r THEN j ELSE j + 1
<1> SUFFICES /\ Roster(s) /\ Len(s) = Len(l) - 1
             /\ \A k \in 1..Len(l) : l[k].req.uri # uri => \E j \in 1..Len(s) : s[j] = l[k]
  OBVIOUS
<1>1. l \in Seq(T) /\ Len(l) \in Nat
  <2>1. l \in Seq(T)
    BY DEF Roster
  <2> HIDE DEF T
  <2> QED
    BY <2>1
<1>2. \E k \in 1..Len(l) : l[k].req.uri = uri
  BY IsRegisteredIs
<1>3. s = RemoveAt(l, r)
  BY <1>2, Zenon DEF Without, RemoveFirstMatch, SelectInSeq
<1>4. r \in D
  <2>1. D \in SUBSET (0..Len(l)) /\ D # {}
    BY <1>1, <1>2
  <2> HIDE DEF D
  <2>2. \E x \in D : \A y \in D : x <= y
    BY <1>1, <2>1, LeastNumber
  <2>3. r = CHOOSE x \in D : \A y \in D : x <= y
    BY DEF Min
  <2> QED
    BY <2>2, <2>3
<1> HIDE DEF r, T, s
<1>5. r \in 1..Len(l) /\ l[r].req.uri = uri
  BY <1>4
<1>6. s \in Seq(T) /\ Len(s) = Len(l) - 1 /\ \A j \in 1..Len(s) : s[j] = l[at(j)]
  BY <1>1, <1>3, <1>5, DroppedAt
<1>7. s \in Seq(ToSet(s))
  BY <1>6, OverItsElements
<1>8. /\ \A j \in 1..Len(s) : at(j) \in 1..Len(l)
      /\ \A j, k \in 1..Len(s) : j # k => at(j) # at(k)
      /\ \A k \in 1..Len(l) : k # r => \E j \in 1..Len(s) : at(j) = k
  <2>1. \A j \in 1..Len(s) : at(j) \in 1..Len(l)
    BY <1>1, <1>5, <1>6
  <2>2. \A j, k \in 1..Len(s) : j # k => at(j) # at(k)
    BY <1>1, <1>5, <1>6
  <2>3. ASSUME NEW k \in 1..Len(l), k # r PROVE \E j \in 1..Len(s) : at(j) = k
    <3>1. CASE k < r
      <4>1. k \in 1..Len(s) /\ at(k) = k
        BY <1>1, <1>5, <1>6, <3>1
      <4> QED
        BY <4>1
    <3>2. CASE ~(k < r)
      <4>1. k - 1 \in 1..Len(s) /\ at(k - 1) = k
        BY <1>1, <1>5, <1>6, <2>3, <3>2
      <4> QED
        BY <4>1
    <3> QED
      BY <3>1, <3>2
  <2> QED
    BY <2>1, <2>2, <2>3
<1> HIDE DEF at
<1>9. Roster(s)
  <2>1. \A j \in 1..Len(s) : s[j] = [req |-> s[j].req, lastSeen |-> s[j].lastSeen] /\ s[j].req.uri # "unset"
    <3>1. \A k \in 1..Len(l) : l[k] = [req |-> l[k].req, lastSeen |-> l[k].lastSeen] /\ l[k].req.uri # "unset"
      BY DEF Roster
    <3> QED
      BY <1>6, <1>8, <3>1
  <2>2. ASSUME NEW j \in 1..Len(s), NEW k \in 1..Len(s), j # k PROVE s[j].req.uri # s[k].req.uri
    <3>1. s[j] = l[at(j)] /\ s[k] = l[at(k)] /\ at(j) \in 1..Len(l) /\ at(k) \in 1..Len(l) /\ at(j) # at(k)
      BY <1>6, <1>8, <2>2
    <3> QED
      BY <3>1 DEF Roster
  <2> QED
    BY <1>7, <2>1, <2>2 DEF Roster
<1>10. ASSUME NEW k \in 1..Len(l), l[k].req.uri # uri PROVE \E j \in 1..Len(s) : s[j] = l[k]
  <2>1. k # r
    BY <1>5, <1>10
  <2>2. PICK j \in 1..Len(s) : at(j) = k
    BY <1>8, <2>1
  <2> QED
    BY <1>6, <2>2
<1> QED
  BY <1>6, <1>9, <1>10

\* What cleaning up has kept of the first k entries, and how it has counted.
KeptUpTo(k, t) ==
    LET l == registered IN
    /\ Roster(t.list)
    /\ t.size \in Int /\ t.size - Len(t.list) = registeredServersSize - k
    /\ \A i \in 1..Len(t.list) : \E j \in 1..k : t.list[i] = l[j]
    /\ \A j \in 1..k : ~TimedOut(l[j]) => \E i \in 1..Len(t.list) : t.list[i] = l[j]

LEMMA CleaningUp ==
    ASSUME Roster(registered), registeredServersSize = Len(registered)
    PROVE  LET s == CleanedUpTo[Len(registered)] IN
           /\ Roster(s.list) /\ s.size = Len(s.list)
           /\ \A k \in 1..Len(registered) : ~TimedOut(registered[k]) =>
                 \E j \in 1..Len(s.list) : s.list[j] = registered[k]
<1> DEFINE l == registered
           n == Len(l)
           S == ToSet(l)
           T == [list : Seq(S), size : Int]
           a == [list |-> <<>>, size |-> registeredServersSize]
           body(k, t) == IF TimedOut(l[k]) THEN [t EXCEPT !.size = @ - 1] ELSE [t EXCEPT !.list = Append(@, l[k])]
           Runs(g) == g = [k \in 0..n |-> IF k = 0 THEN a ELSE body(k, g[k-1])]
           upto == CHOOSE g : Runs(g)
           F == [k \in 1..n |-> [t \in T |-> body(k, t)]]
<1>1. n \in Nat /\ DOMAIN l = 1..n /\ \A k \in 1..n : l[k] \in S
  <2>1. n \in Nat /\ DOMAIN l = 1..n
    BY DEF Roster
  <2> QED
    BY <2>1 DEF ToSet
<1>2. CleanedUpTo = upto
  BY DEF CleanedUpTo
<1> HIDE DEF S
<1>3. a \in T
  BY <1>1
<1>4. ASSUME NEW k \in 1..n, NEW t \in T PROVE body(k, t) \in T
  <2>1. l[k] \in S /\ t.list \in Seq(S) /\ t.size \in Int
    BY <1>1
  <2>2. Append(t.list, l[k]) \in Seq(S) /\ t.size - 1 \in Int
    BY <2>1
  <2> HIDE DEF l
  <2> QED
    BY <2>2
<1> HIDE DEF body, T, a
<1>5. \E g : Computes(g, n, T, a, F)
  <2>1. F \in Bodies(n, T)
    BY <1>4 DEF Bodies
  <2> HIDE DEF F, n
  <2> QED
    BY <1>1, <1>3, <2>1, Looped
<1>6. \E g \in [0..n -> T] : Runs(g)
  <2>1. PICK g : Computes(g, n, T, a, F)
    BY <1>5
  <2>2. g \in [0..n -> T] /\ g[0] = a
    BY <2>1 DEF Computes
  <2>3. ASSUME NEW k \in 1..n PROVE g[k] = body(k, g[k-1])
    <3>1. k - 1 \in 0..n
      BY <1>1
    <3>2. g[k-1] \in T
      BY <2>2, <3>1
    <3>3. g[k] = F[k][g[k-1]]
      BY <2>1 DEF Computes
    <3> QED
      BY <3>2, <3>3
  <2>4. \A k \in 0..n : k = 0 \/ k \in 1..n
    BY <1>1
  <2> HIDE DEF n
  <2> QED
    BY <2>2, <2>3, <2>4
<1>7. Runs(upto)
  BY <1>6
<1> HIDE DEF upto
<1>8. upto[0] = a /\ \A k \in 1..n : upto[k] = body(k, upto[k-1])
  <2>1. 0 \in 0..n /\ \A k \in 1..n : k \in 0..n /\ k # 0
    BY <1>1
  <2> QED
    BY <1>7, <2>1
<1> DEFINE P == {k \in 0..n : upto[k] \in T /\ KeptUpTo(k, upto[k])}
<1>9. 0 \in P
  <2>1. a.list = <<>> /\ a.size = registeredServersSize
    BY DEF a
  <2>2. Roster(<<>>) /\ Len(<<>>) = 0
    <3>1. <<>> \in Seq(ToSet(<<>>)) /\ Len(<<>>) = 0
      OBVIOUS
    <3> QED
      BY <3>1 DEF Roster
  <2>3. KeptUpTo(0, a)
    BY <1>1, <2>1, <2>2 DEF KeptUpTo
  <2> QED
    BY <1>1, <1>3, <1>8, <2>3
<1>10. ASSUME NEW k \in 1..n, k - 1 \in P PROVE k \in P
  <2> DEFINE t == upto[k-1]
             u == upto[k]
  <2>1. t \in T /\ KeptUpTo(k - 1, t) /\ u = body(k, t) /\ k \in 0..n
    BY <1>1, <1>8, <1>10
  <2>2. u \in T
    BY <1>4, <2>1
  <2>3. t.list \in Seq(S) /\ t.size \in Int /\ Len(t.list) \in Nat
    BY <2>1 DEF T
  <2>4. k - 1 \in Nat /\ \A j : j \in 1..k <=> j \in 1..(k - 1) \/ j = k
    BY <1>1
  <2>5. CASE TimedOut(l[k])
    <3>1. u.list = t.list /\ u.size = t.size - 1
      BY <2>1, <2>5 DEF body, T
    <3> HIDE DEF t, u
    <3>2. t.size - Len(t.list) = registeredServersSize - (k - 1)
      BY <2>1 DEF KeptUpTo
    <3>3. u.size \in Int /\ u.size - Len(u.list) = registeredServersSize - k
      <4> DEFINE z == t.size
                 m == Len(t.list)
      <4>1. z \in Int /\ m \in Nat /\ registeredServersSize \in Int /\ k \in Int
        BY <1>1, <2>3
      <4>2. z - m = registeredServersSize - (k - 1) /\ u.size = z - 1 /\ Len(u.list) = m
        BY <3>1, <3>2
      <4> HIDE DEF z, m
      <4> QED
        BY <4>1, <4>2
    <3>4. \A i \in 1..Len(t.list) : \E j \in 1..k : t.list[i] = l[j]
      BY <2>1, <2>4 DEF KeptUpTo
    <3>5. \A j \in 1..k : ~TimedOut(l[j]) => \E i \in 1..Len(t.list) : t.list[i] = l[j]
      BY <2>1, <2>4, <2>5 DEF KeptUpTo
    <3>6. KeptUpTo(k, u)
      BY <2>1, <3>1, <3>3, <3>4, <3>5 DEF KeptUpTo
    <3> QED
      BY <2>1, <2>2, <3>6 DEF u
  <2>6. CASE ~TimedOut(l[k])
    <3> DEFINE s == Append(t.list, l[k])
               m == Len(t.list)
    <3>1. u.list = s /\ u.size = t.size
      BY <2>1, <2>6 DEF body, T
    <3>2. l[k] \in S
      BY <1>1
    <3>3. s \in Seq(S) /\ Len(s) = m + 1 /\ s[m + 1] = l[k] /\ \A i \in 1..m : s[i] = t.list[i]
      BY <2>3, <3>2
    <3> HIDE DEF s, t, u
    <3>4. \A i \in 1..Len(s) : i \in 1..m \/ i = m + 1
      BY <2>3, <3>3
    <3>5. \A i \in 1..m : i \in 1..Len(s)
      BY <2>3, <3>3
    <3>6. m + 1 \in 1..Len(s)
      BY <2>3, <3>3
    <3>7. \A i \in 1..m : \E j \in 1..(k - 1) : t.list[i] = l[j]
      BY <2>1 DEF KeptUpTo
    <3>8. \A i \in 1..Len(s) : \E j \in 1..k : s[i] = l[j]
      BY <2>4, <3>3, <3>4, <3>7
    <3>9. \A j \in 1..k : ~TimedOut(l[j]) => \E i \in 1..Len(s) : s[i] = l[j]
      <4>1. ASSUME NEW j \in 1..(k - 1), ~TimedOut(l[j]) PROVE \E i \in 1..Len(s) : s[i] = l[j]
        <5>1. PICK i \in 1..m : t.list[i] = l[j]
          BY <2>1, <4>1 DEF KeptUpTo
        <5> QED
          BY <3>3, <3>5, <5>1
      <4> QED
        BY <2>4, <3>3, <3>6, <4>1
    <3>10. Roster(s)
      <4>1. s \in Seq(ToSet(s))
        BY <3>3, OverItsElements
      <4>2. \A i \in 1..Len(s) : /\ s[i] = [req |-> s[i].req, lastSeen |-> s[i].lastSeen]
                                 /\ s[i].req.uri # "unset"
        <5>1. \A j \in 1..k : j \in 1..n
          BY <1>1
        <5> QED
          BY <3>8, <5>1 DEF Roster
      <4>3. \A i \in 1..m : s[i].req.uri # l[k].req.uri
        <5>1. ASSUME NEW j \in 1..(k - 1) PROVE l[j].req.uri # l[k].req.uri
          <6>1. j \in 1..n /\ j # k
            BY <1>1
          <6> QED
            BY <6>1 DEF Roster
        <5> QED
          BY <3>3, <3>7, <5>1
      <4>4. ASSUME NEW i \in 1..Len(s), NEW j \in 1..Len(s), i # j PROVE s[i].req.uri # s[j].req.uri
        <5>1. CASE i \in 1..m /\ j \in 1..m
          <6>1. \A x, y \in 1..m : x # y => t.list[x].req.uri # t.list[y].req.uri
            BY <2>1 DEF KeptUpTo, Roster
          <6> QED
            BY <3>3, <4>4, <5>1, <6>1
        <5>2. CASE ~(i \in 1..m /\ j \in 1..m)
          BY <3>3, <3>4, <4>3, <4>4, <5>2
        <5> QED
          BY <5>1, <5>2
      <4> QED
        BY <4>1, <4>2, <4>4 DEF Roster
    <3>11. u.size \in Int /\ u.size - Len(u.list) = registeredServersSize - k
      <4>1. t.size - m = registeredServersSize - (k - 1)
        BY <2>1 DEF KeptUpTo
      <4>2. registeredServersSize \in Int /\ k \in Int
        BY <1>1
      <4> DEFINE z == t.size
      <4>3. z \in Int /\ m \in Nat
        BY <2>3
      <4>4. z - m = registeredServersSize - (k - 1) /\ u.size = z /\ Len(u.list) = m + 1
        BY <3>1, <3>3, <4>1
      <4> HIDE DEF z, m
      <4> QED
        BY <4>2, <4>3, <4>4
    <3>12. KeptUpTo(k, u)
      BY <3>1, <3>8, <3>9, <3>10, <3>11 DEF KeptUpTo
    <3> QED
      BY <2>1, <2>2, <3>12 DEF u
  <2> QED
    BY <2>5, <2>6
<1>11. P = 0..n
  <2>1. P \in SUBSET (0..n)
    OBVIOUS
  <2> HIDE DEF P, n
  <2> QED
    BY <1>1, <1>9, <1>10, <2>1, UpTo
<1>12. KeptUpTo(n, upto[n]) /\ upto[n] \in T
  <2>1. n \in 0..n
    BY <1>1
  <2> QED
    BY <1>11, <2>1
<1> DEFINE w == upto[n]
<1>13. Len(w.list) \in Nat
  BY <1>12 DEF T
<1> HIDE DEF w
<1>14. w.size = Len(w.list)
  BY <1>1, <1>12, <1>13 DEF KeptUpTo, w
<1> QED
  BY <1>2, <1>12, <1>14 DEF KeptUpTo, w

\* The uri that is looked for in the k-th place, and all places together.
FilteredOne(asked, k, t) ==
    IF asked[k] = SelfUri /\ t.self = <<>> THEN [t EXCEPT !.self = <<SelfUri>>]
    ELSE IF IsRegistered(asked[k]) THEN [t EXCEPT !.uris = Append(@, asked[k])]
    ELSE t

AskedOrSelf(asked) == ToSet(asked) \cup {SelfUri}

LEMMA FilteringSteps ==
    ASSUME NEW asked \in Queries
    PROVE  LET V == AskedOrSelf(asked)
               T == [self : Seq(V), uris : Seq(V)]
               n == Len(asked)
           IN  /\ n \in Nat /\ SelfUri \in V /\ "unset" \notin V /\ \A k \in 1..n : asked[k] \in V
               /\ Filtered(asked)[0] = [self |-> <<>>, uris |-> <<>>]
               /\ \A k \in 1..n : Filtered(asked)[k] = FilteredOne(asked, k, Filtered(asked)[k-1])
               /\ \A k \in 0..n : Filtered(asked)[k] \in T
<1> DEFINE n == Len(asked)
           V == AskedOrSelf(asked)
           T == [self : Seq(V), uris : Seq(V)]
           a == [self |-> <<>>, uris |-> <<>>]
           body(k, t) == FilteredOne(asked, k, t)
           Runs(g) == g = [k \in 0..n |-> IF k = 0 THEN a ELSE body(k, g[k-1])]
           upto == CHOOSE g : Runs(g)
           F == [k \in 1..n |-> [t \in T |-> body(k, t)]]
<1>1. /\ n \in Nat /\ asked \in Seq(V) /\ \A k \in 1..n : asked[k] \in V
      /\ SelfUri \in V /\ "unset" \notin V
  <2>1. asked \in Seq(ToSet(asked)) /\ "unset" \notin ToSet(asked) /\ SelfUri # "unset"
    BY RequestConstants
  <2> DEFINE W == ToSet(asked)
  <2>2. asked \in Seq(W) /\ V = W \cup {SelfUri}
    BY <2>1 DEF AskedOrSelf
  <2> HIDE DEF W, V
  <2>3. asked \in Seq(V) /\ n \in Nat /\ \A k \in 1..n : asked[k] \in V
    BY <2>2
  <2> QED
    BY <2>1, <2>2, <2>3 DEF W
<1>2. Filtered(asked) = upto
  BY DEF Filtered, FilteredOne
<1> HIDE DEF V
<1>3. a \in T
  BY <1>1
<1>4. ASSUME NEW k \in 1..n, NEW t \in T PROVE body(k, t) \in T
  <2>1. asked[k] \in V /\ t.self \in Seq(V) /\ t.uris \in Seq(V)
    BY <1>1
  <2>2. Append(t.uris, asked[k]) \in Seq(V) /\ <<SelfUri>> \in Seq(V)
    BY <1>1, <2>1
  <2> QED
    BY <2>2 DEF FilteredOne
<1> HIDE DEF body, T, a
<1>5. \E g : Computes(g, n, T, a, F)
  <2>1. F \in Bodies(n, T)
    BY <1>4 DEF Bodies
  <2> HIDE DEF F, n
  <2> QED
    BY <1>1, <1>3, <2>1, Looped
<1>6. \E g \in [0..n -> T] : Runs(g)
  <2>1. PICK g : Computes(g, n, T, a, F)
    BY <1>5
  <2>2. g \in [0..n -> T] /\ g[0] = a
    BY <2>1 DEF Computes
  <2>3. ASSUME NEW k \in 1..n PROVE g[k] = body(k, g[k-1])
    <3>1. k - 1 \in 0..n
      BY <1>1
    <3>2. g[k-1] \in T
      BY <2>2, <3>1
    <3>3. g[k] = F[k][g[k-1]]
      BY <2>1 DEF Computes
    <3> QED
      BY <3>2, <3>3
  <2>4. \A k \in 0..n : k = 0 \/ k \in 1..n
    BY <1>1
  <2> HIDE DEF n
  <2> QED
    BY <2>2, <2>3, <2>4
<1>7. Runs(upto)
  BY <1>6
<1> HIDE DEF upto
<1>8. upto[0] = a /\ \A k \in 1..n : upto[k] = body(k, upto[k-1])
  <2>1. 0 \in 0..n /\ \A k \in 1..n : k \in 0..n /\ k # 0
    BY <1>1
  <2> QED
    BY <1>7, <2>1
<1> DEFINE P == {k \in 0..n : upto[k] \in T}
<1>9. P = 0..n
  <2>1. 0 \in P /\ P \in SUBSET (0..n)
    BY <1>1, <1>3, <1>8
  <2>2. ASSUME NEW k \in 1..n, k - 1 \in P PROVE k \in P
    <3>1. k \in 0..n
      BY <1>1
    <3> QED
      BY <1>4, <1>8, <2>2, <3>1
  <2> HIDE DEF P, n
  <2> QED
    BY <1>1, <2>1, <2>2, UpTo
<1>10. \A k \in 0..n : upto[k] \in T
  BY <1>9
<1> QED
  BY <1>1, <1>2, <1>8, <1>10 DEF a, body, T, V

\* What is found among the uris asked for is one of them or the own.
LEMMA FilteringOut ==
    ASSUME NEW asked \in Queries, asked # <<>>
    PROVE  \A k \in DOMAIN FoundUris(asked) : FoundUris(asked)[k] # "unset"
<1> DEFINE n == Len(asked)
           V == AskedOrSelf(asked)
           x == Filtered(asked)[n].self
           y == Filtered(asked)[n].uris
           z == x \o y
<1>1. n \in 0..n /\ "unset" \notin V /\ Filtered(asked)[n] \in [self : Seq(V), uris : Seq(V)]
  BY FilteringSteps
<1>2. FoundUris(asked) = z
  BY DEF FoundUris
<1>3. x \in Seq(V) /\ y \in Seq(V)
  BY <1>1
<1> HIDE DEF x, y, V
<1>4. z \in Seq(V)
  BY <1>3
<1> HIDE DEF z
<1>5. \A k \in DOMAIN z : z[k] \in V
  BY <1>4
<1> QED
  BY <1>1, <1>2, <1>5

\* Of the first k uris asked for, those that are found are registered and differ, when
\* no uri is asked for twice.
FoundUpTo(asked, k, uris) ==
    /\ \A i \in 1..Len(uris) : \E j \in 1..k : uris[i] = asked[j] /\ IsRegistered(asked[j])
    /\ \A i, j \in 1..Len(uris) : i # j => uris[i] # uris[j]

Different(asked) == \A i, j \in 1..Len(asked) : i # j => asked[i] # asked[j]

LEMMA FindingOnce ==
    ASSUME NEW asked \in Queries, Different(asked)
    PROVE  FoundUpTo(asked, Len(asked), Filtered(asked)[Len(asked)].uris)
<1> DEFINE n == Len(asked)
           V == AskedOrSelf(asked)
           T == [self : Seq(V), uris : Seq(V)]
           f == Filtered(asked)
           P == {k \in 0..n : FoundUpTo(asked, k, f[k].uris)}
<1>1. /\ n \in Nat /\ \A k \in 1..n : asked[k] \in V
      /\ f[0].uris = <<>>
      /\ \A k \in 1..n : f[k] = FilteredOne(asked, k, f[k-1])
      /\ \A k \in 0..n : f[k] \in T
  BY FilteringSteps
<1> HIDE DEF f
<1>2. 0 \in P
  <2>1. FoundUpTo(asked, 0, <<>>)
    BY DEF FoundUpTo
  <2> QED
    BY <1>1, <2>1
<1>3. ASSUME NEW k \in 1..n, k - 1 \in P PROVE k \in P
  <2> DEFINE u == f[k-1].uris
             v == f[k].uris
             m == Len(u)
  <2>1. FoundUpTo(asked, k - 1, u) /\ k \in 0..n /\ k - 1 \in 0..n
    BY <1>1, <1>3
  <2>2. f[k-1] \in T /\ f[k] \in T
    BY <1>1, <2>1
  <2>3. u \in Seq(V) /\ m \in Nat /\ asked[k] \in V
    BY <1>1, <2>2
  <2>4. \A j \in 1..(k-1) : j \in 1..k /\ j \in 1..n /\ j # k
    BY <1>1
  <2>5. \A i \in 1..m : \E j \in 1..(k-1) : u[i] = asked[j] /\ IsRegistered(asked[j])
    BY <2>1 DEF FoundUpTo
  <2>6. \A i, j \in 1..m : i # j => u[i] # u[j]
    BY <2>1 DEF FoundUpTo
  <2>7. v = u \/ (IsRegistered(asked[k]) /\ v = Append(u, asked[k]))
    BY <1>1, <2>2 DEF FilteredOne
  <2>8. FoundUpTo(asked, k, v)
    <3> HIDE DEF u, v, V, n
    <3>1. CASE v = u
      BY <2>4, <2>5, <2>6, <3>1 DEF FoundUpTo
    <3>2. CASE IsRegistered(asked[k]) /\ v = Append(u, asked[k])
      <4>1. Len(v) = m + 1 /\ v[m + 1] = asked[k] /\ \A i \in 1..m : v[i] = u[i]
        BY <2>3, <3>2
      <4>2. \A i \in 1..Len(v) : i \in 1..m \/ i = m + 1
        BY <2>3, <4>1
      <4>3. k \in 1..k
        BY <2>4
      <4>4. \A i \in 1..Len(v) : \E j \in 1..k : v[i] = asked[j] /\ IsRegistered(asked[j])
        BY <2>4, <2>5, <3>2, <4>1, <4>2, <4>3
      <4>5. \A i \in 1..m : u[i] # asked[k]
        BY <2>4, <2>5 DEF Different, n
      <4>6. \A i, j \in 1..Len(v) : i # j => v[i] # v[j]
        BY <2>6, <4>1, <4>2, <4>5
      <4> QED
        BY <4>4, <4>6 DEF FoundUpTo
    <3> QED
      BY <2>7, <3>1, <3>2
  <2> QED
    BY <2>1, <2>8
<1>4. P = 0..n
  <2>1. P \in SUBSET (0..n)
    OBVIOUS
  <2> HIDE DEF P, n
  <2> QED
    BY <1>1, <1>2, <1>3, <2>1, UpTo
<1>5. n \in 0..n
  BY <1>1
<1> QED
  BY <1>4, <1>5 DEF f

\* There is room for what is found when no uri is asked for twice.
LEMMA RoomForFound ==
    ASSUME Roster(registered), registeredServersSize = Len(registered), NEW asked \in Queries, Different(asked)
    PROVE  ~Overflows(asked)
<1> DEFINE u == Filtered(asked)[Len(asked)].uris
           m == Len(u)
           n == Len(registered)
           at == [i \in 1..m |-> CHOOSE k \in 1..n : registered[k].req.uri = u[i]]
<1>1. m \in Nat /\ n \in Nat
  <2>1. Len(asked) \in 0..Len(asked)
        /\ \A k \in 0..Len(asked) : Filtered(asked)[k] \in [self : Seq(AskedOrSelf(asked)), uris : Seq(AskedOrSelf(asked))]
    BY FilteringSteps
  <2> DEFINE V == AskedOrSelf(asked)
             W == ToSet(registered)
  <2>2. u \in Seq(V) /\ registered \in Seq(W)
    BY <2>1 DEF Roster
  <2> HIDE DEF u, V, W
  <2> QED
    BY <2>2
<1>2. FoundUpTo(asked, Len(asked), u)
  BY FindingOnce
<1> HIDE DEF u
<1>3. \A i \in 1..m : \E k \in 1..n : registered[k].req.uri = u[i]
  BY <1>2, IsRegisteredIs DEF FoundUpTo
<1>4. at \in [1..m -> 1..n] /\ \A i \in 1..m : registered[at[i]].req.uri = u[i]
  BY <1>3
<1> HIDE DEF at
<1>5. SUFFICES ASSUME m > n PROVE FALSE
  BY <1>1 DEF Overflows, u
<1>6. /\ IsFiniteSet(1..m) /\ Cardinality(1..m) = m
      /\ IsFiniteSet(1..n) /\ Cardinality(1..n) = n
  <2>1. ASSUME NEW x \in Nat PROVE IsFiniteSet(1..x) /\ Cardinality(1..x) = x
    <3>1. IsFiniteSet(1..x) /\ Cardinality(1..x) = IF 1 > x THEN 0 ELSE x - 1 + 1
      BY FS_Interval
    <3> QED
      BY <3>1
  <2> HIDE DEF m, n
  <2> QED
    BY <1>1, <2>1
<1> DEFINE M == 1..m
           N == 1..n
<1>7. Cardinality(N) < Cardinality(M) /\ IsFiniteSet(M) /\ IsFiniteSet(N) /\ at \in [M -> N]
  BY <1>1, <1>4, <1>5, <1>6
<1>8. PICK i \in M, j \in M : i # j /\ at[i] = at[j]
  <2> HIDE DEF M, N
  <2> QED
    BY <1>7, FS_PigeonHole
<1> QED
  BY <1>2, <1>4, <1>8 DEF FoundUpTo

\* With no uris asked for, the array is as long as what is written to it.
LEMMA FillingAll ==
    ASSUME Roster(registered), registeredServersSize = Len(registered)
    PROVE  \A k \in DOMAIN FoundUris(<<>>) : FoundUris(<<>>)[k] # "unset"
<1> DEFINE n == Len(registered)
           V == {registered[k].req.uri : k \in 1..n} \cup {SelfUri}
           u == [k \in 1..n |-> registered[k].req.uri]
           z == <<SelfUri>> \o u
           w == FoundUris(<<>>)
<1>1. n \in Nat /\ SelfUri \in V /\ "unset" \notin V
  <2>1. n \in Nat /\ \A k \in 1..n : registered[k].req.uri # "unset"
    <3> DEFINE W == ToSet(registered)
    <3>1. registered \in Seq(W) /\ \A k \in 1..n : registered[k].req.uri # "unset"
      BY DEF Roster
    <3> HIDE DEF W
    <3> QED
      BY <3>1
  <2>2. SelfUri # "unset"
    BY RequestConstants
  <2> HIDE DEF n
  <2> QED
    BY <2>1, <2>2
<1>2. u \in Seq(V) /\ Len(u) = n
  <2>1. \A k \in 1..n : registered[k].req.uri \in V
    OBVIOUS
  <2> HIDE DEF n, V
  <2> QED
    BY <1>1, <2>1
<1> HIDE DEF u, V
<1>3. z \in Seq(V) /\ Len(z) = 1 + n
  BY <1>1, <1>2
<1>4. w = [k \in 1..(1 + n) |-> IF k <= Len(z) THEN z[k] ELSE "unset"]
  BY DEF FoundUris, Written, u
<1> HIDE DEF z, w, n
<1>5. \A k \in 1..(1 + n) : k <= Len(z) /\ z[k] \in V
  BY <1>1, <1>3
<1> QED
  BY <1>1, <1>4, <1>5 DEF w

-----------------------------------------------------------------------------
(* Discovery: the jobs.                                                    *)

LEMMA Products == ASSUME NEW x \in Nat, NEW y \in Nat PROVE x * y \in Nat
OBVIOUS

\* After a job has fired its type is kept, the periodic one is due an interval
\* later, and the others wait as before.
LEMMA Firing ==
    ASSUME now \in Nat, jobs \in Seq(JobType), NEW i \in 1..Len(jobs), NEW failed \in BOOLEAN
    PROVE  LET s == Left(i, failed) IN
           /\ s \in Seq(JobType)
           /\ ~jobs[i].retry => \E k \in 1..Len(s) : s[k] = [jobs[i] EXCEPT !.due = @ + Interval]
           /\ \A j \in 1..Len(jobs) : j # i => \E k \in 1..Len(s) : s[k] = jobs[j]
<1> DEFINE a == RemoveAt(jobs, i)
           b == JobAfter(jobs[i])
           c == IF failed THEN Retry(jobs[i]) ELSE <<>>
           f == [jobs[i] EXCEPT !.due = @ + Interval]
           s == Left(i, failed)
           at(j) == IF j < i THEN j ELSE j + 1
<1> SUFFICES /\ s \in Seq(JobType)
             /\ ~jobs[i].retry => \E k \in 1..Len(s) : s[k] = f
             /\ \A j \in 1..Len(jobs) : j # i => \E k \in 1..Len(s) : s[k] = jobs[j]
  OBVIOUS
<1>1. s = a \o b \o c
  BY DEF Left
<1>2. a \in Seq(JobType) /\ Len(a) = Len(jobs) - 1 /\ \A j \in 1..Len(a) : a[j] = jobs[at(j)]
  BY DroppedAt
<1>3. jobs[i] \in JobType /\ Interval \in Nat /\ Second \in Nat
  BY DiscoveryConstants
<1>4. b \in Seq(JobType) /\ (~jobs[i].retry => b = <<f>>)
  <2>1. f \in JobType
    <3> DEFINE j == jobs[i]
    <3>1. j \in JobType
      BY <1>3
    <3> HIDE DEF j
    <3> DEFINE d == j.due + Interval
    <3>2. d \in Nat
      BY <1>3, <3>1 DEF JobType
    <3> HIDE DEF d
    <3>3. [j EXCEPT !.due = d] \in JobType
      BY <3>1, <3>2 DEF JobType
    <3> QED
      BY <3>3 DEF d, j
  <2> HIDE DEF f, JobType
  <2> QED
    BY <2>1 DEF JobAfter, f
<1>5. c \in Seq(JobType)
  <2>1. nextInterval(jobs[i]) \in Nat
    BY <1>3 DEF nextInterval, JobType
  <2>2. nextInterval(jobs[i]) * Second \in Nat
    BY <1>3, <2>1, Products
  <2> DEFINE j == Job(TRUE, nextInterval(jobs[i]) * Second, nextInterval(jobs[i]))
  <2>3. j \in JobType
    <3> DEFINE d == nextInterval(jobs[i]) * Second
               e == nextInterval(jobs[i])
    <3>1. d \in Nat /\ e \in Nat
      BY <2>1, <2>2
    <3> HIDE DEF d, e
    <3>2. Job(TRUE, d, e) \in JobType
      BY <3>1 DEF Job, JobType
    <3> QED
      BY <3>2 DEF d, e
  <2>4. c = <<j>> \/ c = <<>>
    BY DEF Retry
  <2> HIDE DEF JobType, j, c
  <2>5. <<j>> \in Seq(JobType) /\ <<>> \in Seq(JobType)
    BY <2>3
  <2> QED
    BY <2>4, <2>5
<1> HIDE DEF a, b, c, s, f
<1>6. /\ s \in Seq(JobType) /\ Len(s) = Len(a) + Len(b) + Len(c)
      /\ \A k \in 1..Len(a) : s[k] = a[k]
      /\ \A k \in 1..Len(b) : s[Len(a) + k] = b[k]
      /\ Len(a) \in Nat /\ Len(b) \in Nat /\ Len(c) \in Nat
  <2> HIDE DEF JobType
  <2>1. a \in Seq(JobType) /\ b \in Seq(JobType) /\ c \in Seq(JobType)
    BY <1>2, <1>4, <1>5
  <2> QED
    BY <1>1, <2>1
<1>7. ASSUME ~jobs[i].retry PROVE \E k \in 1..Len(s) : s[k] = f
  <2>1. b = <<f>>
    BY <1>4, <1>7
  <2>2. Len(b) = 1 /\ b[1] = f
    BY <2>1
  <2>3. Len(a) + 1 \in 1..Len(s) /\ s[Len(a) + 1] = f
    BY <1>6, <2>2
  <2> QED
    BY <2>3
<1>8. ASSUME NEW j \in 1..Len(jobs), j # i PROVE \E k \in 1..Len(s) : s[k] = jobs[j]
  <2> DEFINE k == IF j < i THEN j ELSE j - 1
  <2>1. k \in 1..Len(a) /\ at(k) = j
    BY <1>2, <1>8
  <2>2. k \in 1..Len(s)
    BY <1>6, <2>1
  <2> HIDE DEF k, at
  <2> QED
    BY <1>2, <1>6, <2>1, <2>2
<1> QED
  BY <1>6, <1>7, <1>8

LEMMA Fired ==
    ASSUME Waits, NEW i \in 1..Len(jobs), NEW failed \in BOOLEAN,
           jobs[i].due <= now, jobs' = Left(i, failed),
           now' = now, since' = since, reachable' = reachable,
           reachable => \A t \in Int : t <= now => OwnSeen(registered', t)
    PROVE  Waits'
<1>1. PICK m \in 1..Len(jobs) : Repeating(jobs[m])
  BY DEF Waits
<1>2. /\ jobs' \in Seq(JobType)
      /\ ~jobs[i].retry => \E k \in 1..Len(jobs') : jobs'[k] = [jobs[i] EXCEPT !.due = @ + Interval]
      /\ \A j \in 1..Len(jobs) : j # i => \E k \in 1..Len(jobs') : jobs'[k] = jobs[j]
  BY Firing DEF Waits
<1>3. now \in Nat /\ since \in Nat /\ Interval \in Nat /\ jobs[i] \in JobType
  BY DiscoveryConstants DEF Waits
<1>4. \E k \in 1..Len(jobs') : Repeating(jobs[k])'
  <2>1. CASE m = i
    <3>1. jobs[i].due = now /\ ~jobs[i].retry
      BY <1>1, <1>3, <2>1 DEF Repeating, JobType
    <3>2. PICK k \in 1..Len(jobs') : jobs'[k] = [jobs[i] EXCEPT !.due = @ + Interval]
      BY <1>2, <3>1
    <3>3. jobs'[k].due = now + Interval /\ jobs'[k].retry = jobs[i].retry
      BY <1>3, <3>1, <3>2 DEF JobType
    <3>4. (now + Interval) - Interval = now /\ now \in Int
      BY <1>3
    <3>5. Repeating(jobs[k])'
      BY <1>3, <3>1, <3>3, <3>4 DEF Repeating
    <3> QED
      BY <3>5
  <2>2. CASE m # i
    <3>1. PICK k \in 1..Len(jobs') : jobs'[k] = jobs[m]
      BY <1>2, <2>2
    <3>2. jobs[m].due - Interval \in Int /\ jobs[m].due - Interval <= now
      BY <1>1, <1>3 DEF Repeating
    <3>3. Repeating(jobs[k])'
      BY <1>1, <3>1, <3>2 DEF Repeating
    <3> QED
      BY <3>3
  <2> QED
    BY <2>1, <2>2
<1> QED
  BY <1>2, <1>3, <1>4 DEF Waits

\* What leaves the jobs and the clock alone and an entry that is not old.
LEMMA Keeping ==
    ASSUME Waits, UNCHANGED <<now, jobs, reachable, since>>,
           \A t \in Int : t >= now - Interval /\ OwnSeen(registered, t) => OwnSeen(registered', t)
    PROVE  Waits'
<1>1. PICK m \in 1..Len(jobs) : Repeating(jobs[m])
  BY DEF Waits
<1>2. jobs[m].due - Interval \in Int /\ jobs[m].due - Interval >= now - Interval
  BY <1>1, DiscoveryConstants DEF Repeating, Waits
<1>3. Repeating(jobs[m])'
  BY <1>1, <1>2 DEF Repeating
<1> QED
  BY <1>3 DEF Waits

-----------------------------------------------------------------------------
(* Discovery: the services.                                                *)

LEMMA Publishing ==
    ASSUME NEW pub, Served(pub), NEW req, IsRequest(req)
    PROVE  Served(PublishedFor(pub, req))
<1>1. req.online \in BOOLEAN /\ req.urls \in Seq(ToSet(req.urls))
  BY DEF IsRequest
<1> QED
  BY <1>1, UpdatingAll DEF PublishedFor

LEMMA Registering ==
    ASSUME RegistrationInv, NEW req, IsRequest(req), process_RegisterServer(req)
    PROVE  /\ Roster(registered') /\ registeredServersSize' = Len(registered')
           /\ Served(published') /\ reply'.st \notin {"Found", "Overflow"}
           /\ req.uri # OwnRequest.uri =>
                 \A t \in Int : OwnSeen(registered, t) => OwnSeen(registered', t)
           /\ req.uri = OwnRequest.uri /\ req.sem = "none" /\ req.online /\ Refusal(req) = "Good" =>
                 \A t \in Int : t <= now => OwnSeen(registered', t)
<1> DEFINE n == Len(registered)
<1>1. /\ Roster(registered) /\ registeredServersSize = n /\ Served(published) /\ now \in Nat
      /\ n \in Nat /\ req.uri # "unset"
  <2>1. Roster(registered) /\ registeredServersSize = n /\ Served(published) /\ now \in Nat
    BY DEF RegistrationInv, Waits
  <2> DEFINE W == ToSet(registered)
  <2>2. registered \in Seq(W)
    BY <2>1 DEF Roster
  <2> HIDE DEF W
  <2> QED
    BY <2>1, <2>2 DEF IsRequest
<1>2. Served(PublishedFor(published, req))
  BY <1>1, Publishing
<1>3. Refusal(req) \in {"BadServerNameMissing", "BadDiscoveryUrlMissing", "BadSemaphoreFileMissing", "Good"}
  BY DEF Refusal
<1>4. CASE Refusal(req) # "Good" /\ Answers(Refusal(req)) /\ UNCHANGED <<registered, registeredServersSize, published>>
  BY <1>1, <1>3, <1>4 DEF Answers
<1>5. CASE /\ ~req.online
           /\ published' = PublishedFor(published, req)
           /\ Answers("BadNotFound") /\ UNCHANGED <<registered, registeredServersSize>>
  BY <1>1, <1>2, <1>5 DEF Answers
<1>6. CASE /\ ~req.online /\ IsRegistered(req.uri)
           /\ published' = PublishedFor(published, req)
           /\ registered' = Without(registered, req.uri)
           /\ registeredServersSize' = registeredServersSize - 1
           /\ Answers("Good")
  <2>1. /\ Roster(registered') /\ Len(registered') = n - 1
        /\ \A k \in 1..n : registered[k].req.uri # req.uri => \E j \in 1..Len(registered') : registered'[j] = registered[k]
    BY <1>1, <1>6, Unregistering
  <2>2. ASSUME req.uri # OwnRequest.uri, NEW t \in Int, OwnSeen(registered, t) PROVE OwnSeen(registered', t)
    <3>1. PICK k \in 1..n : Shows(registered[k], t)
      BY <2>2 DEF OwnSeen
    <3>2. PICK j \in 1..Len(registered') : registered'[j] = registered[k]
      BY <2>1, <2>2, <3>1 DEF Shows
    <3> QED
      BY <3>1, <3>2 DEF OwnSeen
  <2> QED
    BY <1>1, <1>2, <1>6, <2>1, <2>2 DEF Answers
<1>7. CASE /\ req.online
           /\ published' = PublishedFor(published, req)
           /\ registered' = Entered(req)
           /\ registeredServersSize' = registeredServersSize + (IF IsRegistered(req.uri) THEN 0 ELSE 1)
           /\ Answers("Good")
  <2>1. /\ Roster(registered') /\ Len(registered') = n + (IF IsRegistered(req.uri) THEN 0 ELSE 1)
        /\ \E k \in 1..Len(registered') : registered'[k] = Entry(req)
        /\ \A k \in 1..n : registered[k].req.uri # req.uri => \E j \in 1..Len(registered') : registered'[j] = registered[k]
    BY <1>1, <1>7, Entering
  <2>2. ASSUME req.uri # OwnRequest.uri, NEW t \in Int, OwnSeen(registered, t) PROVE OwnSeen(registered', t)
    <3>1. PICK k \in 1..n : Shows(registered[k], t)
      BY <2>2 DEF OwnSeen
    <3>2. PICK j \in 1..Len(registered') : registered'[j] = registered[k]
      BY <2>1, <2>2, <3>1 DEF Shows
    <3> QED
      BY <3>1, <3>2 DEF OwnSeen
  <2>3. ASSUME req.uri = OwnRequest.uri, req.sem = "none", NEW t \in Int, t <= now PROVE OwnSeen(registered', t)
    <3>1. PICK k \in 1..Len(registered') : registered'[k] = Entry(req)
      BY <2>1
    <3>2. Shows(Entry(req), t)
      BY <1>1, <2>3 DEF Shows, Entry
    <3> QED
      BY <3>1, <3>2 DEF OwnSeen
  <2> QED
    BY <1>1, <1>2, <1>7, <2>1, <2>2, <2>3 DEF Answers
<1> QED
  BY <1>4, <1>5, <1>6, <1>7 DEF process_RegisterServer

\* The own requests are in order.
LEMMA OwnInOrder ==
    ASSUME NEW req \in {OwnRequest, FallbackRequest}
    PROVE  /\ IsRequest(req) /\ req.uri = OwnRequest.uri /\ req.sem = "none" /\ req.online
           /\ Refusal(req) = "Good"
<1> DEFINE o == OwnRequest
<1>1. /\ o = [uri |-> o.uri, name |-> o.name, urls |-> o.urls, sem |-> o.sem, online |-> o.online, caps |-> o.caps]
      /\ o.urls \in Seq(ToSet(o.urls)) /\ o.online \in BOOLEAN /\ o.uri # "unset"
  BY RequestConstants DEF IsRequest
<1>2. o.online /\ o.name # "none" /\ OwnAppName # "none" /\ o.sem = "none" /\ o.urls # <<>>
  BY OwnConstants
<1> HIDE DEF o
<1>3. CASE req = o
  BY <1>1, <1>2, <1>3 DEF o, IsRequest, Refusal
<1>4. CASE req = FallbackRequest
  <2>1. req = [uri |-> o.uri, name |-> OwnAppName, urls |-> o.urls, sem |-> o.sem, online |-> o.online, caps |-> {}]
    <3>1. req = [o EXCEPT !.caps = {}, !.name = OwnAppName]
      BY <1>4 DEF FallbackRequest, o
    <3> QED
      BY <1>1, <3>1
  <2>2. req.uri = o.uri /\ req.name = OwnAppName /\ req.urls = o.urls /\ req.sem = o.sem /\ req.online = o.online /\ req.caps = {}
    BY <2>1
  <2>3. req = [uri |-> req.uri, name |-> req.name, urls |-> req.urls, sem |-> req.sem, online |-> req.online, caps |-> req.caps]
    BY <2>1, <2>2
  <2>4. IsRequest(req)
    BY <1>1, <2>2, <2>3 DEF IsRequest
  <2>5. Refusal(req) = "Good"
    BY <1>2, <2>2 DEF Refusal
  <2> QED
    BY <1>2, <2>2, <2>4, <2>5 DEF o
<1> QED
  BY <1>3, <1>4 DEF o

LEMMA InitRegistrations == DiscInit => RegistrationInv
<1> SUFFICES ASSUME DiscInit PROVE RegistrationInv
  OBVIOUS
<1>1. Roster(registered) /\ registeredServersSize = Len(registered)
  <2>1. <<>> \in Seq(ToSet(<<>>)) /\ Len(<<>>) = 0
    OBVIOUS
  <2> QED
    BY <2>1 DEF DiscInit, Roster
<1>2. Served(published)
  <2> DEFINE req == [name |-> SelfUri, urls |-> Layers, online |-> TRUE, caps |-> {}]
  <2>1. req.online \in BOOLEAN /\ req.urls \in Seq(ToSet(req.urls))
    BY RequestConstants
  <2> HIDE DEF req
  <2>2. Served([recs |-> {}, astray |-> {}])
    BY DEF Served
  <2>3. Served(UpdatedFor([recs |-> {}, astray |-> {}], req, DOMAIN Layers))
    BY <2>1, <2>2, UpdatingAll
  <2> QED
    BY <2>3 DEF DiscInit, startMulticastDiscoveryServer, req
<1>3. Waits
  <2> DEFINE j == [retry |-> FALSE, due |-> Interval, interval |-> 0]
             r == [retry |-> TRUE, due |-> FirstDelay, interval |-> 1]
  <2>1. now = 0 /\ since = 0 /\ Interval \in Nat /\ FirstDelay \in Nat
    BY DiscoveryConstants DEF DiscInit
  <2>2. j \in JobType /\ r \in JobType
    BY <2>1 DEF JobType
  <2>3. Repeating(j)
    BY <2>1 DEF Repeating
  <2>4. jobs = <<j>> \o (IF FirstDelay > 0 THEN <<r>> ELSE <<>>)
    BY DEF DiscInit, UA_Server_addPeriodicServerRegisterJob
  <2> HIDE DEF j, r, JobType
  <2>5. jobs \in Seq(JobType) /\ 1 \in 1..Len(jobs) /\ jobs[1] = j
    <3>1. CASE FirstDelay > 0
      BY <2>2, <2>4, <3>1
    <3>2. CASE ~(FirstDelay > 0)
      BY <2>2, <2>4, <3>2
    <3> QED
      BY <3>1, <3>2
  <2> QED
    BY <2>1, <2>3, <2>5 DEF Waits
<1> QED
  BY <1>1, <1>2, <1>3 DEF DiscInit, RegistrationInv, NoReply

LEMMA OtherRegisters == RegistrationInv /\ Service_RegisterServer2 => RegistrationInv'
<1> SUFFICES ASSUME RegistrationInv, Service_RegisterServer2 PROVE RegistrationInv'
  OBVIOUS
<1>1. PICK req \in Requests : process_RegisterServer(req)
  BY DEF Service_RegisterServer2
<1>2. IsRequest(req) /\ req.uri # OwnRequest.uri
  BY RequestConstants, OwnConstants
<1>3. /\ Roster(registered') /\ registeredServersSize' = Len(registered')
      /\ Served(published') /\ reply'.st \notin {"Found", "Overflow"}
      /\ \A t \in Int : OwnSeen(registered, t) => OwnSeen(registered', t)
  BY <1>1, <1>2, Registering
<1>4. Waits'
  BY <1>3, Keeping DEF RegistrationInv, Service_RegisterServer2
<1> QED
  BY <1>3, <1>4 DEF RegistrationInv

\* The own entry is not too old to stay.
LEMMA CleansUp == RegistrationInv /\ UA_Discovery_cleanupTimedOut => RegistrationInv'
<1> SUFFICES ASSUME RegistrationInv, UA_Discovery_cleanupTimedOut PROVE RegistrationInv'
  OBVIOUS
<1> DEFINE s == CleanedUpTo[Len(registered)]
           D == Timeout * Second
<1>1. /\ registered' = s.list /\ registeredServersSize' = s.size /\ reply' = NoReply
      /\ UNCHANGED <<published, now, jobs, reachable, since>>
  BY DEF UA_Discovery_cleanupTimedOut
<1>2. /\ Roster(s.list) /\ s.size = Len(s.list)
      /\ \A k \in 1..Len(registered) : ~TimedOut(registered[k]) =>
            \E j \in 1..Len(s.list) : s.list[j] = registered[k]
  BY CleaningUp DEF RegistrationInv
<1>3. now \in Nat /\ Interval \in Nat /\ (Timeout # 0 => D \in Nat /\ D >= Interval)
  <2>1. Timeout \in Nat /\ Second \in Nat /\ now \in Nat /\ Interval \in Nat
    BY DiscoveryConstants DEF RegistrationInv, Waits
  <2>2. D \in Nat
    BY <2>1, Products
  <2> QED
    BY <2>1, <2>2, OwnConstants
<1>4. ASSUME NEW t \in Int, t >= now - Interval, OwnSeen(registered, t) PROVE OwnSeen(registered', t)
  <2>1. PICK k \in 1..Len(registered) : Shows(registered[k], t)
    BY <1>4 DEF OwnSeen
  <2>2. Timeout # 0 => ~(registered[k].lastSeen < now - D)
    <3> DEFINE x == registered[k].lastSeen
    <3>1. x \in Int /\ x >= t
      BY <2>1 DEF Shows
    <3> HIDE DEF x, D
    <3>2. Timeout # 0 => ~(x < now - D)
      BY <1>3, <1>4, <3>1
    <3> QED
      BY <3>2 DEF x
  <2>3. ~TimedOut(registered[k])
    BY <2>1, <2>2 DEF TimedOut, Shows
  <2>4. PICK j \in 1..Len(s.list) : s.list[j] = registered[k]
    BY <1>2, <2>3
  <2> QED
    BY <1>1, <2>1, <2>4 DEF OwnSeen
<1> HIDE DEF s
<1>5. Waits'
  BY <1>1, <1>4, Keeping DEF RegistrationInv
<1> QED
  BY <1>1, <1>2, <1>5 DEF RegistrationInv, NoReply

LEMMA FindsServers == RegistrationInv /\ Service_FindServers => RegistrationInv'
<1> SUFFICES ASSUME RegistrationInv, Service_FindServers PROVE RegistrationInv'
  OBVIOUS
<1>1. PICK asked \in Queries :
        \/ Overflows(asked) /\ reply' = [st |-> "Overflow", servers |-> <<>>, asked |-> asked]
        \/ reply' = [st |-> "Found", servers |-> FoundUris(asked), asked |-> asked]
  BY DEF Service_FindServers
<1>2. UNCHANGED <<registered, registeredServersSize, published, now, jobs, reachable, since>>
  BY DEF Service_FindServers
<1>3. Roster(registered) /\ registeredServersSize = Len(registered)
  BY DEF RegistrationInv
<1>4. \A k \in DOMAIN FoundUris(asked) : FoundUris(asked)[k] # "unset"
  BY <1>3, FilteringOut, FillingAll
<1>5. Overflows(asked) => \E i, j \in DOMAIN asked : i # j /\ asked[i] = asked[j]
  <2>1. DOMAIN asked = 1..Len(asked)
    <3> DEFINE W == ToSet(asked)
    <3>1. asked \in Seq(W)
      BY RequestConstants
    <3> HIDE DEF W
    <3> QED
      BY <3>1
  <2> QED
    BY <1>3, <2>1, RoomForFound DEF Different
<1>6. Waits'
  BY <1>2, Keeping DEF RegistrationInv
<1>7. /\ reply'.st = "Found" => \A k \in DOMAIN reply'.servers : reply'.servers[k] # "unset"
      /\ reply'.st = "Overflow" => \E i, j \in DOMAIN reply'.asked : i # j /\ reply'.asked[i] = reply'.asked[j]
  BY <1>1, <1>4, <1>5
<1> QED
  BY <1>2, <1>6, <1>7 DEF RegistrationInv

LEMMA JobFires ==
    ASSUME RegistrationInv, NEW i \in DOMAIN jobs, periodicServerRegister(i) PROVE RegistrationInv'
<1>1. Waits /\ i \in 1..Len(jobs)
  <2>1. jobs \in Seq(JobType) /\ Waits
    BY DEF RegistrationInv, Waits
  <2> HIDE DEF JobType
  <2> QED
    BY <2>1
<1>2. jobs[i].due <= now /\ UNCHANGED <<now, reachable, since>>
  BY DEF periodicServerRegister
<1>3. CASE register_server_with_discovery_server /\ jobs' = Left(i, reply'.st # "Good")
  <2>1. PICK req \in {OwnRequest, FallbackRequest} : process_RegisterServer(req)
    BY <1>3 DEF register_server_with_discovery_server
  <2>2. /\ Roster(registered') /\ registeredServersSize' = Len(registered')
        /\ Served(published') /\ reply'.st \notin {"Found", "Overflow"}
        /\ \A t \in Int : t <= now => OwnSeen(registered', t)
    BY <2>1, OwnInOrder, Registering
  <2>3. Waits'
    BY <1>1, <1>2, <1>3, <2>2, Fired
  <2> QED
    BY <2>2, <2>3 DEF RegistrationInv
<1>4. CASE ~reachable /\ jobs' = Left(i, TRUE) /\ reply' = NoReply
           /\ UNCHANGED <<registered, registeredServersSize, published>>
  <2>1. Waits'
    BY <1>1, <1>2, <1>4, Fired
  <2> QED
    BY <1>4, <2>1 DEF RegistrationInv, NoReply
<1> QED
  BY <1>3, <1>4 DEF periodicServerRegister

\* The jobs that are due have run when the clock goes on.
LEMMA ClockTicks == RegistrationInv /\ Tick => RegistrationInv'
<1> SUFFICES ASSUME RegistrationInv, Tick PROVE RegistrationInv'
  OBVIOUS
<1>1. /\ now' = now + 1 /\ reply' = NoReply /\ \A k \in DOMAIN jobs : jobs[k].due > now
      /\ UNCHANGED <<registered, registeredServersSize, published, jobs, reachable, since>>
  BY DEF Tick
<1>2. now \in Nat /\ since \in Nat /\ jobs \in Seq(JobType) /\ Interval \in Nat
  BY DiscoveryConstants DEF RegistrationInv, Waits
<1>3. PICK k \in 1..Len(jobs) : Repeating(jobs[k])
  BY DEF RegistrationInv, Waits
<1>4. jobs[k].due > now
  BY <1>1, <1>2
<1>5. Repeating(jobs[k])'
  BY <1>1, <1>2, <1>3, <1>4 DEF Repeating
<1>6. Waits'
  BY <1>1, <1>2, <1>5 DEF Waits
<1> QED
  BY <1>1, <1>6 DEF RegistrationInv, NoReply

\* When the discovery server begins to answer, nobody can count on it yet.
LEMMA ReachabilityChanges == RegistrationInv /\ ReachChanges => RegistrationInv'
<1> SUFFICES ASSUME RegistrationInv, ReachChanges PROVE RegistrationInv'
  OBVIOUS
<1>1. since' = now /\ reply' = NoReply /\ UNCHANGED <<registered, registeredServersSize, published, now, jobs>>
  BY DEF ReachChanges
<1>2. now \in Nat /\ Interval \in Nat
  BY DiscoveryConstants DEF RegistrationInv, Waits
<1>3. PICK k \in 1..Len(jobs) : Repeating(jobs[k])
  BY DEF RegistrationInv, Waits
<1>4. Repeating(jobs[k])'
  BY <1>1, <1>2, <1>3 DEF Repeating
<1>5. Waits'
  BY <1>1, <1>2, <1>4 DEF RegistrationInv, Waits
<1> QED
  BY <1>1, <1>5 DEF RegistrationInv, NoReply

\* What the daemon does with its records leaves the pointers served.
LEMMA EndsGo ==
    ASSUME NEW pub, Served(pub), NEW waiting
    PROVE  Served(EndsSent(pub, waiting))
<1> DEFINE left == {r \in pub.recs : r.stage # "ending" \/ r.type \in waiting}
           new == EndsSent(pub, waiting)
<1>1. pub = [recs |-> pub.recs, astray |-> pub.astray]
  BY DEF Served
<1>2. new = [recs |-> left, astray |-> pub.astray]
  <2>1. new = [pub EXCEPT !.recs = left]
    BY DEF EndsSent
  <2> HIDE DEF new, left
  <2> QED
    BY <1>1, <2>1
<1>3. new.recs = left /\ new.astray = pub.astray
  BY <1>2
<1> HIDE DEF new
<1> QED
  BY <1>2, <1>3 DEF Served, new

LEMMA NamesTaken ==
    ASSUME NEW pub, Served(pub)
    PROVE  Served([pub EXCEPT !.recs = {[r EXCEPT !.stage = IF @ = "probing" THEN "out" ELSE @] : r \in @}])
<1> DEFINE out(r) == [r EXCEPT !.stage = IF @ = "probing" THEN "out" ELSE @]
           recs == {out(r) : r \in pub.recs}
           new == [pub EXCEPT !.recs = {[r EXCEPT !.stage = IF @ = "probing" THEN "out" ELSE @] : r \in @}]
<1>1. pub = [recs |-> pub.recs, astray |-> pub.astray] /\ \A r \in pub.recs : Formed(r)
  BY DEF Served
<1>2. new = [recs |-> recs, astray |-> pub.astray]
  <2>1. new = [pub EXCEPT !.recs = recs]
    OBVIOUS
  <2> HIDE DEF new, recs
  <2> QED
    BY <1>1, <2>1
<1>3. new.recs = recs /\ new.astray = pub.astray
  BY <1>2
<1>4. ASSUME NEW r \in pub.recs
      PROVE  LET e == out(r) IN
             /\ Formed(e) /\ e.type = r.type /\ e.name = r.name /\ e.domain = r.domain
             /\ e.stage = "ending" <=> r.stage = "ending"
  <2> DEFINE s == IF r.stage = "probing" THEN "out" ELSE r.stage
             e == [r EXCEPT !.stage = s]
  <2>1. out(r) = e /\ Formed(r)
    BY <1>1
  <2>2. s = "ending" <=> r.stage = "ending"
    OBVIOUS
  <2> HIDE DEF s
  <2>3. Formed(e) /\ e.stage = s /\ e.type = r.type /\ e.name = r.name /\ e.domain = r.domain
    BY <2>1, Restaged
  <2> QED
    BY <2>1, <2>2, <2>3
<1> HIDE DEF out, new
<1>5. \A e \in recs : \E r \in pub.recs : e = out(r)
  OBVIOUS
<1>6. \A e \in recs : Formed(e)
  BY <1>4, <1>5
<1>7. \A e \in recs : e.type = "PTR" => e.name = PointersName
  BY <1>4, <1>5 DEF Served
<1>8. ASSUME NEW e \in recs, e.type = "PTR", e.stage # "ending"
      PROVE  \/ e.domain \in pub.astray
             \/ \E q \in recs : q.type = "SRV" /\ q.stage # "ending" /\ q.name = e.domain
  <2>1. PICK r \in pub.recs : e = out(r)
    BY <1>5
  <2>2. r.type = "PTR" /\ r.stage # "ending" /\ r.domain = e.domain
    BY <1>4, <1>8, <2>1
  <2>3. CASE r.domain \in pub.astray
    BY <2>2, <2>3
  <2>4. CASE r.domain \notin pub.astray
    <3>1. PICK q \in pub.recs : q.type = "SRV" /\ q.stage # "ending" /\ q.name = r.domain
      BY <2>2, <2>4 DEF Served
    <3>2. out(q) \in recs /\ out(q).type = "SRV" /\ out(q).stage # "ending" /\ out(q).name = e.domain
      BY <1>4, <2>2, <3>1
    <3> QED
      BY <3>2
  <2> QED
    BY <2>3, <2>4
<1> HIDE DEF recs
<1>9. Served(new)
  BY <1>2, <1>3, <1>6, <1>7, <1>8 DEF Served
<1> QED
  BY <1>9 DEF new

LEMMA NameLost ==
    ASSUME NEW pub, Served(pub), NEW r \in pub.recs, r.type \in {"SRV", "TXT"}
    PROVE  Served([recs |-> mdnsd_done(pub.recs, {r}), astray |-> IF r.type = "SRV" THEN pub.astray \cup {r.name} ELSE pub.astray])
<1> DEFINE recs == mdnsd_done(pub.recs, {r})
           astray == IF r.type = "SRV" THEN pub.astray \cup {r.name} ELSE pub.astray
           new == [recs |-> recs, astray |-> astray]
<1>1. new.recs = recs /\ new.astray = astray
  OBVIOUS
<1>2. /\ pub.recs \ {r} \subseteq recs
      /\ \A e \in recs : e \in pub.recs \ {r} \/ (Formed(e) /\ e.type = r.type)
  <2>1. {r} \subseteq pub.recs /\ \A e \in pub.recs : Formed(e)
    BY DEF Served
  <2> QED
    BY <2>1, Withdrawing
<1> HIDE DEF recs
<1>3. \A e \in recs : Formed(e) /\ (e.type = "PTR" => e \in pub.recs)
  BY <1>2 DEF Served
<1>4. ASSUME NEW e \in recs, e.type = "PTR", e.stage # "ending"
      PROVE  \/ e.domain \in astray
             \/ \E q \in recs : q.type = "SRV" /\ q.stage # "ending" /\ q.name = e.domain
  <2>1. e \in pub.recs
    BY <1>3, <1>4
  <2>2. CASE e.domain \in pub.astray
    BY <2>2
  <2>3. CASE e.domain \notin pub.astray
    <3>1. PICK q \in pub.recs : q.type = "SRV" /\ q.stage # "ending" /\ q.name = e.domain
      BY <1>4, <2>1, <2>3 DEF Served
    <3>2. CASE q = r
      BY <3>1, <3>2
    <3>3. CASE q # r
      BY <1>2, <3>1, <3>3
    <3> QED
      BY <3>2, <3>3
  <2> QED
    BY <2>2, <2>3
<1>5. \A e \in recs : e.type = "PTR" => e.name = PointersName
  BY <1>3 DEF Served
<1> HIDE DEF astray, new
<1>6. Served(new)
  <2>1. new = [recs |-> new.recs, astray |-> new.astray]
    BY <1>1 DEF new
  <2> QED
    BY <1>1, <1>3, <1>4, <1>5, <2>1 DEF Served
<1> QED
  BY <1>6 DEF new, recs, astray

LEMMA DaemonSteps == RegistrationInv /\ (iterateMulticastDiscoveryServer \/ UA_Discovery_multicastConflict) => RegistrationInv'
<1> SUFFICES ASSUME RegistrationInv, iterateMulticastDiscoveryServer \/ UA_Discovery_multicastConflict PROVE RegistrationInv'
  OBVIOUS
<1>1. Served(published')
  <2>1. Served(published)
    BY DEF RegistrationInv
  <2>2. CASE iterateMulticastDiscoveryServer
    BY <2>1, <2>2, EndsGo, NamesTaken DEF iterateMulticastDiscoveryServer
  <2>3. CASE UA_Discovery_multicastConflict
    BY <2>1, <2>3, NameLost DEF UA_Discovery_multicastConflict
  <2> QED
    BY <2>2, <2>3
<1>2. reply' = NoReply /\ UNCHANGED <<registered, registeredServersSize, now, jobs, reachable, since>>
  BY DEF iterateMulticastDiscoveryServer, UA_Discovery_multicastConflict
<1>3. Waits'
  BY <1>2, Keeping DEF RegistrationInv
<1> QED
  BY <1>1, <1>2, <1>3 DEF RegistrationInv, NoReply

LEMMA ShutsDown == RegistrationInv /\ stopMulticastDiscoveryServer => RegistrationInv'
<1> SUFFICES ASSUME RegistrationInv, stopMulticastDiscoveryServer PROVE RegistrationInv'
  OBVIOUS
<1> DEFINE url == [host |-> HostName, port |-> DefaultPort]
           withdrawn == UA_Discovery_removeRecord(published, SelfUri, url, TRUE)
<1>1. /\ \E waiting \in Waiting : published' = EndsSent(withdrawn, waiting)
      /\ reply' = NoReply
      /\ UNCHANGED <<registered, registeredServersSize, now, jobs, reachable, since>>
  BY DEF stopMulticastDiscoveryServer
<1>2. Served(withdrawn)
  <2> DEFINE A == published.astray \cup {r.name : r \in published.recs}
             U == Mixed(published.recs)
  <2>1. Served(published)
    BY DEF RegistrationInv
  <2>2. published.recs \subseteq U /\ Closed(U, A)
    <3>1. (\A r \in published.recs : Formed(r)) /\ \A r \in published.recs : r.name \in A
      BY <2>1 DEF Served
    <3> HIDE DEF A
    <3> QED
      BY <3>1, MixedClosed
  <2>3. Within(published, U, A)
    BY <2>2 DEF Within
  <2> HIDE DEF U, A, url
  <2> QED
    BY <2>1, <2>2, <2>3, Removing
<1> HIDE DEF withdrawn
<1>3. Served(published')
  BY <1>1, <1>2, EndsGo
<1>4. Waits'
  BY <1>1, Keeping DEF RegistrationInv
<1> QED
  BY <1>1, <1>3, <1>4 DEF RegistrationInv, NoReply

\* The list of registrations, its counter, what is published and the periodic job
\* that renews the own entry stay in step.
THEOREM RegistrationInvariance == DiscSpec => []RegistrationInv
<1>1. ASSUME RegistrationInv, [DiscNext]_discVars PROVE RegistrationInv'
  <2>1. CASE UNCHANGED discVars
    <3>1. UNCHANGED <<registered, registeredServersSize, published, now, jobs, reachable, since>>
          /\ UNCHANGED reply
      BY <2>1 DEF discVars
    <3>2. Waits'
      BY <1>1, <3>1, Keeping DEF RegistrationInv
    <3> QED
      BY <1>1, <3>1, <3>2 DEF RegistrationInv
  <2>2. CASE FileChanges \/ Service_GetEndpoints
    <3>1. /\ UNCHANGED <<registered, registeredServersSize, published, now, jobs, reachable, since>>
          /\ reply'.st \notin {"Found", "Overflow"}
      BY <2>2 DEF FileChanges, Service_GetEndpoints, NoReply
    <3>2. Waits'
      BY <1>1, <3>1, Keeping DEF RegistrationInv
    <3> QED
      BY <1>1, <3>1, <3>2 DEF RegistrationInv
  <2>3. ASSUME NEW i \in DOMAIN jobs, periodicServerRegister(i) PROVE RegistrationInv'
    BY <1>1, <2>3, JobFires
  <2> QED
    BY <1>1, <2>1, <2>2, <2>3, OtherRegisters, CleansUp, FindsServers, ClockTicks, ReachabilityChanges, DaemonSteps, ShutsDown
    DEF DiscNext
<1> QED
  BY <1>1, InitRegistrations, PTL DEF DiscSpec

\* FindServers announces what it writes and writes what it announces, a server
\* whose registration succeeds stays registered, and a published pointer leads to
\* a service.
THEOREM RegistrationsStayExact == DiscSpec => []RegistrationsExact
<1>1. RegistrationInv => RegistrationsExact
  <2> SUFFICES ASSUME RegistrationInv PROVE RegistrationsExact
    OBVIOUS
  <2>1. Roster(registered) /\ DOMAIN registered = 1..Len(registered)
    <3> DEFINE W == ToSet(registered)
    <3>1. Roster(registered) /\ registered \in Seq(W)
      BY DEF RegistrationInv, Roster
    <3> HIDE DEF W
    <3> QED
      BY <3>1
  <2>2. FindServersExact
    BY <2>1 DEF RegistrationInv, Roster, FindServersExact
  <2>3. StaysRegistered
    <3> SUFFICES ASSUME reachable, now - since > Interval PROVE IsRegistered(OwnRequest.uri)
      BY DEF StaysRegistered
    <3>1. now \in Nat /\ since \in Nat /\ Interval \in Nat
      BY DiscoveryConstants DEF RegistrationInv, Waits
    <3>2. PICK k \in 1..Len(jobs) : Repeating(jobs[k])
      BY DEF RegistrationInv, Waits
    <3>3. since < jobs[k].due - Interval
      BY <3>1, <3>2 DEF Repeating
    <3>4. OwnSeen(registered, jobs[k].due - Interval)
      BY <3>2, <3>3 DEF Repeating
    <3> QED
      BY <2>1, <3>4 DEF OwnSeen, Shows, IsRegistered
  <2>4. PointerHasService
    BY DEF RegistrationInv, Served, PointerHasService
  <2> QED
    BY <2>2, <2>3, <2>4 DEF RegistrationsExact
<1> QED
  BY <1>1, RegistrationInvariance, PTL
=============================================================================
