------------------------- MODULE ClientProtocolPump -------------------------
(***************************************************************************)
(* One remote client: RemoteClientSession's connection and login, and the   *)
(* ClientProtocolPump that applies and acknowledges what the server sends.  *)
(***************************************************************************)
EXTENDS Network

VARIABLES
    connection, \* [Client -> ClientConnectionState]
    applied,    \* history: [Client -> ids of the snapshots applied]
    ingested    \* history: [Client -> events pushed to reliableEvents_]

clientVars == <<connection, applied, ingested>>

ConnectionState == {"Disconnected", "Connecting", "AwaitingSpawn", "Connected"}

ClientTypeOK ==
    /\ connection \in [Client -> ConnectionState]
    /\ applied \in [Client -> SUBSET SnapshotId]
    /\ ingested \in [Client -> SUBSET NetworkEvent]

ClientInit ==
    /\ connection = [c \in Client |-> "Disconnected"]
    /\ applied = [c \in Client |-> {}]
    /\ ingested = [c \in Client |-> {}]

-----------------------------------------------------------------------------
(* Connect starts the transport; the login waits until it is up.            *)
Connect(c) ==
    /\ connection[c] = "Disconnected"
    /\ connection' = [connection EXCEPT ![c] = "Connecting"]
    /\ UNCHANGED <<applied, ingested>>
    /\ UNCHANGED networkVars

(* The login is sent once; a Send that fails ends the session.              *)
TrySendLogin(c) ==
    /\ connection[c] = "Connecting"
    /\ \/ /\ connection' = [connection EXCEPT ![c] = "AwaitingSpawn"]
          /\ logins' = logins \cup {c}
       \/ /\ connection' = [connection EXCEPT ![c] = "Disconnected"]
          /\ UNCHANGED logins
    /\ UNCHANGED <<applied, ingested>>
    /\ UNCHANGED <<snapshots, snapshotAcks, events, eventAcks>>

(* The session pumps only once its login has been sent.                     *)
LoginSent(c) == connection[c] \in {"AwaitingSpawn", "Connected"}

(* Mutant: only the first copy of an event is acknowledged.                 *)
PumpReliableEventOnce(c, e) ==
    /\ LoginSent(c)
    /\ e \in events[c] \ ingested[c]
    /\ eventAcks' = [eventAcks EXCEPT ![c] = @ \cup {e.id}]
    /\ connection' = IF e.kind = "PlayerSpawned" /\ e.subject = c
                     THEN [connection EXCEPT ![c] = "Connected"]
                     ELSE connection
    /\ ingested' = [ingested EXCEPT ![c] = @ \cup {e}]
    /\ UNCHANGED applied
    /\ UNCHANGED <<logins, snapshots, snapshotAcks, events>>

(* The acknowledgement goes out first, for every copy that arrives.  That   *)
(* its Send fails is that it is lost.                                       *)
PumpReliableEvent(c, e) ==
    /\ LoginSent(c)
    /\ e \in events[c]
    /\ eventAcks' = [eventAcks EXCEPT ![c] = @ \cup {e.id}]
    /\ connection' = IF e.kind = "PlayerSpawned" /\ e.subject = c
                     THEN [connection EXCEPT ![c] = "Connected"]
                     ELSE connection
    /\ ingested' = [ingested EXCEPT ![c] = @ \cup {e}]
    /\ UNCHANGED applied
    /\ UNCHANGED <<logins, snapshots, snapshotAcks, events>>

(* Every snapshot that arrives is applied and acknowledged, in any order.   *)
PumpSnapshot(c, s) ==
    /\ LoginSent(c)
    /\ s \in snapshots[c]
    /\ snapshots' = [snapshots EXCEPT ![c] = @ \ {s}]
    /\ applied' = [applied EXCEPT ![c] = @ \cup {s.id}]
    /\ snapshotAcks' = [snapshotAcks EXCEPT ![c] = @ \cup {s.id}]
    /\ UNCHANGED <<connection, ingested>>
    /\ UNCHANGED <<logins, events, eventAcks>>

ClientStep(c) ==
    \/ Connect(c)
    \/ TrySendLogin(c)
    \/ \E e \in events[c] : PumpReliableEvent(c, e)
    \/ \E s \in snapshots[c] : PumpSnapshot(c, s)
=============================================================================
