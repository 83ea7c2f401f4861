------------------------------- MODULE Network -------------------------------
(***************************************************************************)
(* The envelopes that travel between the server host and its clients, one  *)
(* variable per message class of NetworkProtocol.hpp.  A class is a set of  *)
(* the payloads in flight, so any of them may arrive next.  A login, a      *)
(* snapshot and its acknowledgement are sent once and leave the network     *)
(* when they arrive; a reliable event and its acknowledgement may be sent   *)
(* again, so they stay in flight, and may arrive again, until they are      *)
(* lost.  Every envelope may be lost.                                       *)
(***************************************************************************)
EXTENDS Naturals

CONSTANTS
    Remote,         \* client ids that reach the server through the transport
    SimulationOnly, \* client ids only the server's test drivers use
    Entity          \* network entity ids

Client == Remote \cup SimulationOnly
EventId == Nat \ {0}
SnapshotId == Nat \ {0}

VARIABLES
    logins,       \* clients whose LoginRequest is in flight
    snapshots,    \* [Client -> set of Snapshot] in flight to each client
    snapshotAcks, \* [Client -> set of snapshot ids] in flight from each client
    events,       \* [Client -> set of NetworkEvent] in flight to each client
    eventAcks     \* [Client -> set of event ids] in flight from each client

networkVars == <<logins, snapshots, snapshotAcks, events, eventAcks>>

InterestKinds == {"EntityEnteredInterest", "EntityLeftInterest"}

(* What a NetworkEventDTO carries: its id, its kind and whom it is about.   *)
(* "Combat" stands for the seven combat kinds, which are handled alike.     *)
NetworkEvent ==
    [id : EventId, kind : {"PlayerSpawned"}, subject : Client]
        \cup [id : EventId, kind : {"Combat"}, subject : Client]
        \cup [id : EventId, kind : InterestKinds, subject : Entity]

DeliveryKind == {"Full", "DeltaEligible"}

Snapshot == [id : SnapshotId, baseline : Nat, kind : DeliveryKind]

NetworkTypeOK ==
    /\ logins \subseteq Client
    /\ snapshots \in [Client -> SUBSET Snapshot]
    /\ snapshotAcks \in [Client -> SUBSET SnapshotId]
    /\ events \in [Client -> SUBSET NetworkEvent]
    /\ eventAcks \in [Client -> SUBSET EventId]

NetworkInit ==
    /\ logins = {}
    /\ snapshots = [c \in Client |-> {}]
    /\ snapshotAcks = [c \in Client |-> {}]
    /\ events = [c \in Client |-> {}]
    /\ eventAcks = [c \in Client |-> {}]

-----------------------------------------------------------------------------
(* A simulated or a real network drops an envelope after Send accepted it.  *)
LoseLogin(c) ==
    /\ c \in logins
    /\ logins' = logins \ {c}
    /\ UNCHANGED <<snapshots, snapshotAcks, events, eventAcks>>

LoseSnapshot(c) ==
    /\ \E s \in snapshots[c] : snapshots' = [snapshots EXCEPT ![c] = @ \ {s}]
    /\ UNCHANGED <<logins, snapshotAcks, events, eventAcks>>

LoseSnapshotAck(c) ==
    /\ \E id \in snapshotAcks[c] :
            snapshotAcks' = [snapshotAcks EXCEPT ![c] = @ \ {id}]
    /\ UNCHANGED <<logins, snapshots, events, eventAcks>>

LoseEvent(c) ==
    /\ \E e \in events[c] : events' = [events EXCEPT ![c] = @ \ {e}]
    /\ UNCHANGED <<logins, snapshots, snapshotAcks, eventAcks>>

LoseEventAck(c) ==
    /\ \E id \in eventAcks[c] : eventAcks' = [eventAcks EXCEPT ![c] = @ \ {id}]
    /\ UNCHANGED <<logins, snapshots, snapshotAcks, events>>

Lose(c) ==
    \/ LoseLogin(c)
    \/ LoseSnapshot(c)
    \/ LoseSnapshotAck(c)
    \/ LoseEvent(c)
    \/ LoseEventAck(c)
=============================================================================
