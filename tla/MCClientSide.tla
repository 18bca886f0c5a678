----------------------------- MODULE MCClientSide -----------------------------
(***************************************************************************)
(* The client, each part on its own: the states a program takes it through *)
(* with its calls, the way of an answer through the channel, and the lists *)
(* the answers of the subscription services are entered into.              *)
(***************************************************************************)
EXTENDS UAClient, Channel, ClientSubscriptions

VARIABLE half

\* Renewals, a shortage of memory, and numbers that roll over.
ScenarioOf == [renewals |-> [first |-> 1, renewals |-> 2, shortages |-> 0],
               shortage |-> [first |-> 1, renewals |-> 0, shortages |-> 1],
               rollOver |-> [first |-> 29, renewals |-> 0, shortages |-> 0]]
ScenarioSet == {ScenarioOf[h] : h \in DOMAIN ScenarioOf}

\* The answers that are looked at together with a renewal are not too large, and those
\* with a shortage have more than one chunk.
Looked ==
  /\ half = "renewals" => \A k \in DOMAIN wire : wire[k].chunk.kind # "A"
  /\ half = "shortage" => \A i \in DOMAIN sent : Len(sent[i]) > 1

Init ==
  /\ half \in {"calls", "lists"} \cup DOMAIN ScenarioOf /\ ClientInit /\ ChannelInit /\ ListsInit
  /\ LET s == ScenarioOf[IF half \in DOMAIN ScenarioOf THEN half ELSE "rollOver"]
     IN server.seq = s.first /\ left.renewals = s.renewals
Next ==
  \/ half = "calls" /\ ClientNext /\ UNCHANGED <<half, channelVars, lists>>
  \/ half \in DOMAIN ScenarioOf /\ ChannelNext /\ UNCHANGED <<half, clientVars, lists>> /\ Looked'
  \/ half = "lists" /\ ListsNext /\ UNCHANGED <<half, clientVars, channelVars>>
Spec == Init /\ [][Next]_<<half, clientVars, channelVars, lists>>
================================================================================
