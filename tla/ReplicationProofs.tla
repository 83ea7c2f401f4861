-------------------------- MODULE ReplicationProofs --------------------------
(***************************************************************************)
(* Proofs about Replication, for every set of clients and entities, every   *)
(* bound and every set of Sends that the transport may refuse.              *)
(***************************************************************************)
EXTENDS Replication, SequenceTheorems, TLAPS

(***************************************************************************)
(* What the operators on a client's replication state return.               *)
(***************************************************************************)

(* Types of the helpers of ServerClientReplicationState and of the host.    *)
LEMMA SmallerOfType ==
    ASSUME NEW a \in Nat, NEW b \in Nat
    PROVE  SmallerOf(a, b) \in Nat
BY DEF SmallerOf

LEMMA CountCapType == CountCap \in Nat /\ CountCap >= 5
BY ReplicationStateAssumption DEF CountCap

LEMMA ResendDelayType ==
    ASSUME NEW S, NEW p \in PendingOf(S)
    PROVE  ResendDelay(p) \in Nat
<1>1. SmallerOf(p.sendCount, 5) \in 1..5
  BY CountCapType DEF PendingOf, SmallerOf
<1>2. BackoffFactor(p.sendCount) \in Nat
  BY <1>1 DEF BackoffFactor
<1> QED
  BY <1>2, ReplicationStateAssumption DEF ResendDelay

LEMMA SentType ==
    ASSUME NEW S, NEW p \in PendingOf(S)
    PROVE  Sent(p) \in PendingOf(S) /\ Sent(p).event = p.event
<1>1. SmallerOf(p.sendCount + 1, CountCap) \in 1..CountCap
  BY CountCapType DEF PendingOf, SmallerOf
<1> QED
  BY <1>1 DEF PendingOf, Sent

LEMMA AgedType ==
    ASSUME NEW S, NEW p \in PendingOf(S)
    PROVE  Aged(p) \in PendingOf(S) /\ Aged(p).event = p.event
<1>1. SmallerOf(p.age + 1, ResendDelay(p)) \in Nat
  BY ResendDelayType DEF PendingOf, SmallerOf
<1> QED
  BY <1>1 DEF PendingOf, Aged

LEMMA OlderType ==
    ASSUME NEW S, NEW P \in SUBSET PendingOf(S)
    PROVE  Older(P) \in SUBSET PendingOf(S)
BY AgedType DEF Older

LEMMA TrackType ==
    ASSUME NEW S, NEW P \in SUBSET PendingOf(S), NEW e \in S
    PROVE  TrackReliableEvent(P, e) \in SUBSET PendingOf(S)
<1>1. [event |-> e, sendCount |-> 1, age |-> 0] \in PendingOf(S)
  BY CountCapType DEF PendingOf
<1> QED
  BY <1>1, SentType DEF TrackReliableEvent

LEMMA StoreType ==
    ASSUME NEW S, NEW b \in Seq(S), NEW x \in S
    PROVE  Store(b, x) \in Seq(S)
BY ReplicationStateAssumption DEF Store

LEMMA NextSnapshotType ==
    ASSUME TypeOK, NEW c \in Client
    PROVE  NextSnapshot(c) \in Snapshot
<1>1. EffectiveBaseline(baselines[c], acked[c]) \in Nat
  BY DEF TypeOK, HostTypeOK, EffectiveBaseline
<1> QED
  BY <1>1 DEF TypeOK, HostTypeOK, NextSnapshot, Snapshot, DeliveryKind

LEMMA SendReliableEventType ==
    ASSUME TypeOK, NEW sent, NEW e \in NetworkEvent, SendReliableEvent(sent, e)
    PROVE  /\ events' \in [Client -> SUBSET NetworkEvent]
           /\ pending' \in [Client -> SUBSET PendingOf(NetworkEvent)]
           /\ told' \in [Client -> SUBSET NetworkEvent]
<1>1. \A c \in Client :
         TrackReliableEvent(pending[c], e) \in SUBSET PendingOf(NetworkEvent)
  BY TrackType DEF TypeOK, HostTypeOK
<1>2. pending' \in [Client -> SUBSET PendingOf(NetworkEvent)]
  BY <1>1 DEF TypeOK, HostTypeOK, SendReliableEvent
<1> QED
  BY <1>2 DEF TypeOK, HostTypeOK, NetworkTypeOK, SendReliableEvent

LEMMA SubmitLoginType ==
    ASSUME TypeOK, NEW c \in Client, NEW ok \in BOOLEAN, SubmitLogin(c, ok)
    PROVE  players' \subseteq Client /\ simEvents' \in Seq(DomainEvent)
<1>1. [kind |-> "PlayerSpawned", subject |-> c] \in DomainEvent
  BY DEF DomainEvent
<1>2. simEvents \in Seq(DomainEvent) /\ players \subseteq Client
  BY DEF TypeOK, HostTypeOK
<1>3. simEvents' \in
         {simEvents, Append(simEvents, [kind |-> "PlayerSpawned", subject |-> c])}
  BY DEF SubmitLogin
<1>4. players' \in {players, players \cup {c}}
  BY DEF SubmitLogin
<1> QED
  BY <1>1, <1>2, <1>3, <1>4

(* Type correctness is inductive by itself.                                 *)
LEMMA TypeStep == TypeOK /\ [Next]_vars => TypeOK'
<1> SUFFICES ASSUME TypeOK, [Next]_vars PROVE TypeOK'
  OBVIOUS
<1> USE DEF TypeOK
<1>1. CASE TickAndSendSnapshots /\ UNCHANGED clientVars
  <2> ClientTypeOK'
    BY <1>1 DEF ClientTypeOK, clientVars
  <2>1. CASE BeginTick
    <3>1. pending' \in [Client -> SUBSET PendingOf(NetworkEvent)]
      BY <2>1, OlderType DEF BeginTick, HostTypeOK
    <3>2. snapshotWait' \in [Client -> 0..SnapshotInterval]
      BY <2>1, HostAssumption DEF BeginTick, HostTypeOK
    <3>3. tickEvents' \in Seq(DomainEvent)
      <4>1. simEvents \in Seq(DomainEvent)
        BY DEF HostTypeOK
      <4>2. \A c \in players, k \in {"Combat", "PlayerMoved"} :
               [kind |-> k, subject |-> c] \in DomainEvent
        BY DEF DomainEvent, HostTypeOK
      <4>3. \/ tickEvents' = simEvents
            \/ \E d \in DomainEvent : tickEvents' = Append(simEvents, d)
        BY <2>1, <4>2 DEF BeginTick
      <4> QED
        BY <4>1, <4>3
    <3> QED
      BY <2>1, <3>1, <3>2, <3>3
      DEF BeginTick, HostTypeOK, NetworkTypeOK, networkVars
  <2>2. ASSUME NEW c \in Client, SkipSnapshot(c) PROVE TypeOK'
    BY <2>2 DEF SkipSnapshot, HostTypeOK, NetworkTypeOK, networkVars
  <2>3. ASSUME NEW c \in Client, SendSnapshotFails(c) PROVE TypeOK'
    BY <2>3 DEF SendSnapshotFails, HostTypeOK, NetworkTypeOK, networkVars, SnapshotId
  <2>4. ASSUME NEW c \in Client, SendSnapshot(c) PROVE TypeOK'
    <3>1. snapshots' \in [Client -> SUBSET Snapshot]
      BY <2>4, NextSnapshotType DEF SendSnapshot, NetworkTypeOK
    <3>2. baselines' \in [Client -> Seq(SnapshotId)]
      BY <2>4, StoreType DEF SendSnapshot, HostTypeOK
    <3>3. /\ frame' \in [entered : SUBSET Entity, exited : SUBSET Entity]
          /\ known' \in [Client -> SUBSET Entity]
      BY <2>4 DEF SendSnapshot, HostTypeOK, InterestFrame
    <3>4. snapshotWait' \in [Client -> 0..SnapshotInterval]
      BY <2>4, HostAssumption DEF SendSnapshot, HostTypeOK
    <3>5. cursor' \in Nat \ {0} /\ nextSnapshotId' \in SnapshotId
      BY <2>4 DEF SendSnapshot, HostTypeOK, SnapshotId
    <3> QED
      BY <2>4, <3>1, <3>2, <3>3, <3>4, <3>5
      DEF SendSnapshot, HostTypeOK, NetworkTypeOK
  <2>5. ASSUME NEW c \in Client, SendInterestEvent(c) PROVE TypeOK'
    <3>1. PICK x \in Entity, k \in InterestKinds :
             /\ frame' \in {[frame EXCEPT !.entered = @ \ {x}],
                            [frame EXCEPT !.exited = @ \ {x}]}
             /\ \E sent \in Accepted("ReliableEvent", {c}) :
                  SendReliableEvent(sent, [id |-> nextNetworkEventId,
                                           kind |-> k, subject |-> x])
      BY <2>5 DEF SendInterestEvent
    <3>2. [id |-> nextNetworkEventId, kind |-> k, subject |-> x] \in NetworkEvent
      BY DEF NetworkEvent, HostTypeOK
    <3>3. /\ events' \in [Client -> SUBSET NetworkEvent]
          /\ pending' \in [Client -> SUBSET PendingOf(NetworkEvent)]
          /\ told' \in [Client -> SUBSET NetworkEvent]
      BY <3>1, <3>2, SendReliableEventType
    <3>4. frame' \in [entered : SUBSET Entity, exited : SUBSET Entity]
      <4>1. frame = [entered |-> frame.entered, exited |-> frame.exited]
            /\ frame.entered \subseteq Entity /\ frame.exited \subseteq Entity
        BY DEF HostTypeOK
      <4> QED
        BY <3>1, <4>1
    <3>5. cursor' \in Nat \ {0} /\ nextNetworkEventId' \in EventId
      BY <2>5 DEF SendInterestEvent, HostTypeOK, EventId
    <3> QED
      BY <2>5, <3>3, <3>4, <3>5
      DEF SendInterestEvent, HostTypeOK, NetworkTypeOK
  <2>6. CASE EndSnapshots
    BY <2>6 DEF EndSnapshots, HostTypeOK, NetworkTypeOK, networkVars
  <2>7. CASE BroadcastReliableEvent
    <3>1. Head(tickEvents) \in DomainEvent /\ tickEvents' \in Seq(DomainEvent)
      BY <2>7 DEF BroadcastReliableEvent, HostTypeOK
    <3>2. nextNetworkEventId' \in EventId
      BY <2>7 DEF BroadcastReliableEvent, HostTypeOK, EventId
    <3>3. /\ events' \in [Client -> SUBSET NetworkEvent]
          /\ pending' \in [Client -> SUBSET PendingOf(NetworkEvent)]
          /\ told' \in [Client -> SUBSET NetworkEvent]
      <4> DEFINE h == Head(tickEvents)
                 e == [id |-> nextNetworkEventId, kind |-> h.kind,
                       subject |-> h.subject]
      <4>1. CASE h.kind = "PlayerMoved"
        BY <2>7, <4>1 DEF BroadcastReliableEvent, HostTypeOK, NetworkTypeOK
      <4>2. CASE h.kind # "PlayerMoved"
        <5>1. e \in NetworkEvent
          BY <3>1, <4>2 DEF DomainEvent, NetworkEvent, HostTypeOK
        <5>2. PICK sent \in Accepted("ReliableEvent", NetworkClients) :
                 SendReliableEvent(sent, e)
          BY <2>7, <4>2 DEF BroadcastReliableEvent
        <5> QED
          BY <5>1, <5>2, SendReliableEventType
      <4> QED
        BY <4>1, <4>2
    <3> QED
      BY <2>7, <3>1, <3>2, <3>3
      DEF BroadcastReliableEvent, HostTypeOK, NetworkTypeOK
  <2>8. CASE EndBroadcast
    BY <2>8 DEF EndBroadcast, HostTypeOK, NetworkTypeOK, networkVars
  <2>9. CASE ResendPendingReliableEvents
    <3>1. PICK sent :
             /\ pending' = [c \in Client |->
                   {IF <<c, p>> \in sent THEN Sent(p) ELSE p : p \in pending[c]}]
             /\ events' = [c \in Client |-> events[c] \cup
                   {p.event : p \in {q \in pending[c] : <<c, q>> \in sent}}]
      BY <2>9 DEF ResendPendingReliableEvents
    <3>2. pending' \in [Client -> SUBSET PendingOf(NetworkEvent)]
      <4>1. \A c \in Client : \A p \in pending[c] :
               p \in PendingOf(NetworkEvent) /\ Sent(p) \in PendingOf(NetworkEvent)
        BY SentType DEF HostTypeOK
      <4> QED
        BY <3>1, <4>1
    <3>3. \A c \in Client : \A p \in pending[c] : p.event \in NetworkEvent
      BY DEF HostTypeOK, PendingOf
    <3>4. events' \in [Client -> SUBSET NetworkEvent]
      BY <3>1, <3>3 DEF NetworkTypeOK
    <3> QED
      BY <2>9, <3>2, <3>4
      DEF ResendPendingReliableEvents, HostTypeOK, NetworkTypeOK
  <2> QED
    BY <1>1, <2>1, <2>2, <2>3, <2>4, <2>5, <2>6, <2>7, <2>8, <2>9
    DEF TickAndSendSnapshots
<1>2. ASSUME NEW c \in Client, UNCHANGED clientVars,
             ConnectSimulationOnlyClient(c) \/ PumpClientMessage(c)
      PROVE  TypeOK'
  <2> ClientTypeOK'
    BY <1>2 DEF ClientTypeOK, clientVars
  <2>1. CASE ConnectSimulationOnlyClient(c)
    <3>1. players' \subseteq Client /\ simEvents' \in Seq(DomainEvent)
      BY <2>1, SubmitLoginType DEF ConnectSimulationOnlyClient
    <3> QED
      BY <2>1, <3>1
      DEF ConnectSimulationOnlyClient, HostTypeOK, NetworkTypeOK, networkVars
  <2>2. CASE HandleLoginEnvelope(c)
    <3>1. players' \subseteq Client /\ simEvents' \in Seq(DomainEvent)
      BY <2>2, SubmitLoginType DEF HandleLoginEnvelope
    <3>2. clients' \in Seq(Client)
      BY <2>2 DEF HandleLoginEnvelope, HostTypeOK
    <3> QED
      BY <2>2, <3>1, <3>2 DEF HandleLoginEnvelope, HostTypeOK, NetworkTypeOK
  <2>3. ASSUME NEW id, HandleSnapshotAckEnvelope(c, id) PROVE TypeOK'
    BY <2>3 DEF HandleSnapshotAckEnvelope, HostTypeOK, NetworkTypeOK, SnapshotId
  <2>4. ASSUME NEW id, HandleNetworkEventAckEnvelope(c, id) PROVE TypeOK'
    BY <2>4 DEF HandleNetworkEventAckEnvelope, HostTypeOK, NetworkTypeOK,
                networkVars, AcknowledgeReliableEvent
  <2> QED
    BY <1>2, <2>1, <2>2, <2>3, <2>4 DEF PumpClientMessage
<1>3. ASSUME NEW c \in Remote, RemoteStep(c) PROVE TypeOK'
  <2> c \in Client
    BY DEF Client
  <2> HostTypeOK'
    BY <1>3 DEF RemoteStep, hostVars, HostTypeOK, NetworkClients
  <2>1. CASE Connect(c)
    BY <2>1 DEF Connect, ClientTypeOK, ConnectionState, NetworkTypeOK, networkVars
  <2>2. CASE TrySendLogin(c)
    BY <2>2 DEF TrySendLogin, ClientTypeOK, ConnectionState, NetworkTypeOK
  <2>3. ASSUME NEW e \in events[c], PumpReliableEvent(c, e) PROVE TypeOK'
    <3>1. e \in NetworkEvent /\ e.id \in EventId
      BY DEF NetworkTypeOK, NetworkEvent
    <3> QED
      BY <2>3, <3>1
      DEF PumpReliableEvent, ClientTypeOK, ConnectionState, NetworkTypeOK
  <2>4. ASSUME NEW s \in snapshots[c], PumpSnapshot(c, s) PROVE TypeOK'
    <3>1. s.id \in SnapshotId
      BY DEF NetworkTypeOK, Snapshot
    <3> QED
      BY <2>4, <3>1 DEF PumpSnapshot, ClientTypeOK, NetworkTypeOK
  <2> QED
    BY <1>3, <2>1, <2>2, <2>3, <2>4 DEF RemoteStep, ClientStep
<1>4. ASSUME NEW c \in Remote, NetworkStep(c) PROVE TypeOK'
  <2> HostTypeOK' /\ ClientTypeOK'
    BY <1>4 DEF NetworkStep, hostVars, clientVars, HostTypeOK, ClientTypeOK
  <2> QED
    BY <1>4 DEF NetworkStep, Lose, LoseLogin, LoseSnapshot, LoseSnapshotAck,
                LoseEvent, LoseEventAck, NetworkTypeOK
<1>5. CASE UNCHANGED vars
  BY <1>5 DEF vars, networkVars, hostVars, clientVars,
              NetworkTypeOK, HostTypeOK, ClientTypeOK
<1> QED
  BY <1>1, <1>2, <1>3, <1>4, <1>5 DEF Next, HostStep

(* The initial state is well typed.                                         *)
LEMMA TypeInit == Init => TypeOK
<1> SUFFICES ASSUME Init PROVE TypeOK
  OBVIOUS
<1>1. NetworkTypeOK
  BY DEF Init, NetworkInit, NetworkTypeOK
<1>2. HostTypeOK
  BY HostAssumption
  DEF Init, HostInit, HostTypeOK, NoFrame, SnapshotId, EventId
<1>3. ClientTypeOK
  BY DEF Init, ClientInit, ClientTypeOK, ConnectionState
<1> QED
  BY <1>1, <1>2, <1>3 DEF TypeOK

(* The host, the clients and the network keep their types, whatever is     *)
(* lost, repeated, reordered or refused by the transport.                   *)
THEOREM TypeCorrect == Spec => []TypeOK
BY TypeInit, TypeStep, PTL DEF Spec

-----------------------------------------------------------------------------
(***************************************************************************)
(* Snapshots.  Only a delivered acknowledgement moves acked, and every      *)
(* acknowledgement in flight is about an applied snapshot; the baseline of  *)
(* the next snapshot is acked or none.                                      *)
(***************************************************************************)
SnapshotInv == AckedSnapshotsWereApplied /\ DeltaBaselineWasApplied

snapshotPart == <<snapshots, snapshotAcks, acked, applied>>

(* Every step keeps SnapshotInv, one case per action.                       *)
LEMMA SnapshotStep == TypeOK /\ SnapshotInv /\ [Next]_vars => SnapshotInv'
<1> SUFFICES ASSUME TypeOK, SnapshotInv, [Next]_vars PROVE SnapshotInv'
  OBVIOUS
<1> USE DEF SnapshotInv, AckedSnapshotsWereApplied, DeltaBaselineWasApplied
<1>1. CASE UNCHANGED snapshotPart
  BY <1>1 DEF snapshotPart
<1>2. ASSUME NEW c \in Client, SendSnapshot(c), UNCHANGED clientVars
      PROVE  SnapshotInv'
  <2>1. /\ snapshots' = [snapshots EXCEPT ![c] = @ \cup {NextSnapshot(c)}]
        /\ UNCHANGED <<snapshotAcks, acked, applied>>
    BY <1>2 DEF SendSnapshot, clientVars
  <2>2. NextSnapshot(c).kind = "DeltaEligible" =>
           NextSnapshot(c).baseline \in applied[c]
    BY DEF NextSnapshot, EffectiveBaseline
  <2> QED
    BY <2>1, <2>2 DEF TypeOK, NetworkTypeOK
<1>3. ASSUME NEW c \in Client, NEW id, HandleSnapshotAckEnvelope(c, id),
             UNCHANGED clientVars
      PROVE  SnapshotInv'
  <2>1. /\ id \in snapshotAcks[c]
        /\ snapshotAcks' = [snapshotAcks EXCEPT ![c] = @ \ {id}]
        /\ acked' \in {acked, [acked EXCEPT ![c] = id]}
        /\ UNCHANGED <<snapshots, applied>>
    BY <1>3 DEF HandleSnapshotAckEnvelope, clientVars
  <2>2. id \in applied[c]
    BY <2>1
  <2>3. AckedSnapshotsWereApplied'
    BY <2>1, <2>2 DEF TypeOK, NetworkTypeOK, HostTypeOK
  <2> QED
    BY <2>1, <2>3
<1>4. ASSUME NEW c \in Client, NEW s, PumpSnapshot(c, s), UNCHANGED hostVars
      PROVE  SnapshotInv'
  <2>1. /\ snapshots' = [snapshots EXCEPT ![c] = @ \ {s}]
        /\ applied' = [applied EXCEPT ![c] = @ \cup {s.id}]
        /\ snapshotAcks' = [snapshotAcks EXCEPT ![c] = @ \cup {s.id}]
        /\ acked' = acked
    BY <1>4 DEF PumpSnapshot, hostVars
  <2> QED
    BY <2>1 DEF TypeOK, NetworkTypeOK, ClientTypeOK
<1>5. ASSUME NEW c \in Client, LoseSnapshot(c) \/ LoseSnapshotAck(c),
             UNCHANGED <<hostVars, clientVars>>
      PROVE  SnapshotInv'
  <2>1. acked' = acked /\ applied' = applied
    BY <1>5 DEF hostVars, clientVars
  <2>2. \A d \in Client : snapshots'[d] \subseteq snapshots[d]
                          /\ snapshotAcks'[d] \subseteq snapshotAcks[d]
    BY <1>5 DEF LoseSnapshot, LoseSnapshotAck, TypeOK, NetworkTypeOK
  <2> QED
    BY <2>1, <2>2
<1>6. CASE TickAndSendSnapshots /\ UNCHANGED clientVars
  BY <1>1, <1>2, <1>6
  DEF TickAndSendSnapshots, BeginTick, SkipSnapshot, SendSnapshotFails,
      SendInterestEvent, EndSnapshots, BroadcastReliableEvent, EndBroadcast,
      ResendPendingReliableEvents, snapshotPart, clientVars, networkVars
<1>7. ASSUME NEW c \in Client, UNCHANGED clientVars,
             ConnectSimulationOnlyClient(c) \/ PumpClientMessage(c)
      PROVE  SnapshotInv'
  BY <1>1, <1>3, <1>7
  DEF ConnectSimulationOnlyClient, PumpClientMessage, HandleLoginEnvelope,
      HandleNetworkEventAckEnvelope, snapshotPart, clientVars, networkVars
<1>8. ASSUME NEW c \in Remote, RemoteStep(c) PROVE SnapshotInv'
  BY <1>1, <1>4, <1>8
  DEF Client, RemoteStep, ClientStep, Connect, TrySendLogin,
      PumpReliableEvent, snapshotPart, hostVars, networkVars
<1>9. ASSUME NEW c \in Remote, NetworkStep(c) PROVE SnapshotInv'
  BY <1>1, <1>5, <1>9
  DEF Client, NetworkStep, Lose, LoseLogin, LoseEvent, LoseEventAck,
      snapshotPart, hostVars, clientVars
<1>10. CASE UNCHANGED vars
  BY <1>1, <1>10 DEF vars, networkVars, hostVars, clientVars, snapshotPart
<1> QED
  BY <1>6, <1>7, <1>8, <1>9, <1>10 DEF Next, HostStep

(* A snapshot sent as a delta always names a baseline its client applied:   *)
(* SendSnapshot builds on AckedSnapshot(), never on what was merely sent.   *)
THEOREM DeltaBaselineCorrect == Spec => []DeltaBaselineWasApplied
<1>1. Init => SnapshotInv
  BY DEF Init, NetworkInit, HostInit, ClientInit, SnapshotInv,
         AckedSnapshotsWereApplied, DeltaBaselineWasApplied
<1>2. SnapshotInv => DeltaBaselineWasApplied
  BY DEF SnapshotInv
<1> QED
  BY <1>1, <1>2, SnapshotStep, TypeCorrect, PTL DEF Spec

-----------------------------------------------------------------------------
(***************************************************************************)
(* Reliable events.  An acknowledgement names an id; that it can only mean  *)
(* an event the client ingested needs ids to name one event each.           *)
(***************************************************************************)
EventInv ==
    /\ AckedEventsWereIngested
    /\ OnlyToldEvents
    /\ EventIdsAreUnique
    /\ ForgottenOnlyAfterIngested

eventPart == <<events, eventAcks, pending, told, ingested, nextNetworkEventId>>

(* A new event under the next id, tracked for the clients that Send reached.*)
LEMMA SendReliableEventStep ==
    ASSUME TypeOK, EventInv, NEW sent, NEW e \in NetworkEvent,
           e.id = nextNetworkEventId, SendReliableEvent(sent, e),
           nextNetworkEventId' = nextNetworkEventId + 1,
           UNCHANGED <<eventAcks, ingested>>
    PROVE  EventInv'
<1> USE DEF EventInv
<1>1. \A c \in Client : ~IsPending(pending[c], e.id)
  <2>1. \A c \in Client : \A p \in pending[c] : p.event.id < nextNetworkEventId
    BY DEF OnlyToldEvents, EventIdsAreUnique
  <2> QED
    BY <2>1 DEF IsPending, TypeOK, HostTypeOK, EventId
<1>2. \A c \in Client : pending'[c] =
         IF c \in sent
         THEN pending[c] \cup {[event |-> e, sendCount |-> 1, age |-> 0]}
         ELSE pending[c]
  BY <1>1 DEF SendReliableEvent, TrackReliableEvent
<1>3. \A c \in Client :
         /\ events'[c] = IF c \in sent THEN events[c] \cup {e} ELSE events[c]
         /\ told'[c] = IF c \in sent THEN told[c] \cup {e} ELSE told[c]
  BY DEF SendReliableEvent
<1>4. AckedEventsWereIngested'
  BY DEF AckedEventsWereIngested
<1>5. ASSUME NEW c \in Client
      PROVE  /\ \A p \in pending'[c] : p.event \in told'[c]
             /\ events'[c] \subseteq told'[c]
             /\ ingested'[c] \subseteq told'[c]
             /\ \A f \in told'[c] : f \in ingested'[c]
                                    \/ \E p \in pending'[c] : p.event = f
  <2>0. /\ \A p \in pending[c] : p.event \in told[c]
        /\ events[c] \subseteq told[c]
        /\ ingested[c] \subseteq told[c]
        /\ \A f \in told[c] : f \in ingested[c]
                              \/ \E p \in pending[c] : p.event = f
        /\ ingested' = ingested
    BY DEF OnlyToldEvents, ForgottenOnlyAfterIngested
  <2>1. CASE c \notin sent
    BY <1>2, <1>3, <2>0, <2>1
  <2>2. CASE c \in sent
    <3> DEFINE new == [event |-> e, sendCount |-> 1, age |-> 0]
    <3>1. new.event = e
      OBVIOUS
    <3>2. /\ pending'[c] = pending[c] \cup {new}
          /\ events'[c] = events[c] \cup {e}
          /\ told'[c] = told[c] \cup {e}
      BY <1>2, <1>3, <2>2
    <3> HIDE DEF new
    <3> QED
      BY <2>0, <3>1, <3>2
  <2> QED
    BY <2>1, <2>2
<1>6. ASSUME NEW c \in Client, NEW f \in told'[c]
      PROVE  /\ f.id < nextNetworkEventId'
             /\ \A g \in told'[c] : g.id = f.id => g = f
  <2>1. \A g \in told[c] : g.id \in Nat /\ g.id < nextNetworkEventId
    BY DEF EventIdsAreUnique, TypeOK, HostTypeOK, EventId, NetworkEvent
  <2>2. nextNetworkEventId \in Nat
    BY DEF TypeOK, HostTypeOK, EventId
  <2>3. told'[c] \subseteq told[c] \cup {e}
    BY <1>3
  <2>4. \A g, h \in told[c] : g.id = h.id => g = h
    BY DEF EventIdsAreUnique
  <2> QED
    BY <2>1, <2>2, <2>3, <2>4
<1> QED
  BY <1>4, <1>5, <1>6
  DEF OnlyToldEvents, EventIdsAreUnique, ForgottenOnlyAfterIngested

(* Entries may be updated as long as the events they hold stay the same.    *)
LEMMA PendingUpdateStep ==
    ASSUME EventInv,
           \A c \in Client :
               {p.event : p \in pending'[c]} = {p.event : p \in pending[c]},
           \A c \in Client :
               events'[c] \subseteq events[c] \cup {p.event : p \in pending[c]},
           UNCHANGED <<eventAcks, told, ingested, nextNetworkEventId>>
    PROVE  EventInv'
<1> USE DEF EventInv
<1>1. AckedEventsWereIngested' /\ EventIdsAreUnique'
  BY DEF AckedEventsWereIngested, EventIdsAreUnique
<1>2. OnlyToldEvents'
  BY DEF OnlyToldEvents
<1>3. ForgottenOnlyAfterIngested'
  <2>1. ASSUME NEW c \in Client, NEW p \in pending[c]
        PROVE  \E q \in pending'[c] : q.event = p.event
    <3>1. p.event \in {q.event : q \in pending'[c]}
      OBVIOUS
    <3> QED
      BY <3>1
  <2> QED
    BY <2>1 DEF ForgottenOnlyAfterIngested
<1> QED
  BY <1>1, <1>2, <1>3

(* Every step keeps EventInv, one case per action.                          *)
LEMMA EventStep == TypeOK /\ EventInv /\ [Next]_vars => EventInv'
<1> SUFFICES ASSUME TypeOK, EventInv, [Next]_vars PROVE EventInv'
  OBVIOUS
<1>1. CASE UNCHANGED eventPart
  BY <1>1 DEF eventPart, EventInv, AckedEventsWereIngested, OnlyToldEvents,
              EventIdsAreUnique, ForgottenOnlyAfterIngested
<1>2. CASE BeginTick /\ UNCHANGED clientVars
  <2>1. \A c \in Client : \A p \in pending[c] : Aged(p).event = p.event
    BY DEF Aged
  <2>2. ASSUME NEW c \in Client
        PROVE  {p.event : p \in pending'[c]} = {p.event : p \in pending[c]}
    <3>1. pending'[c] = {Aged(p) : p \in pending[c]}
      BY <1>2 DEF BeginTick, Older
    <3> QED
      BY <2>1, <3>1
  <2> QED
    BY <1>2, <2>2, PendingUpdateStep DEF BeginTick, networkVars, clientVars
<1>3. ASSUME NEW c \in Client, SendInterestEvent(c), UNCHANGED clientVars
      PROVE  EventInv'
  <2>0. PICK x \in Entity, k \in InterestKinds : \E sent :
           SendReliableEvent(sent, [id |-> nextNetworkEventId,
                                    kind |-> k, subject |-> x])
    BY <1>3 DEF SendInterestEvent
  <2>1. PICK sent : SendReliableEvent(sent, [id |-> nextNetworkEventId,
                                             kind |-> k, subject |-> x])
    BY <2>0
  <2>2. [id |-> nextNetworkEventId, kind |-> k, subject |-> x] \in NetworkEvent
    BY DEF NetworkEvent, TypeOK, HostTypeOK
  <2> QED
    BY <1>3, <2>1, <2>2, SendReliableEventStep DEF SendInterestEvent, clientVars
<1>4. CASE BroadcastReliableEvent /\ UNCHANGED clientVars
  <2> DEFINE h == Head(tickEvents)
             e == [id |-> nextNetworkEventId, kind |-> h.kind,
                   subject |-> h.subject]
  <2>1. CASE h.kind = "PlayerMoved"
    <3>1. /\ UNCHANGED <<events, eventAcks, pending, told, ingested>>
          /\ nextNetworkEventId' = nextNetworkEventId + 1
      BY <1>4, <2>1 DEF BroadcastReliableEvent, clientVars
    <3>2. \A c \in Client : \A f \in told[c] :
             /\ f.id \in Nat /\ nextNetworkEventId \in Nat
             /\ f.id < nextNetworkEventId
      BY DEF TypeOK, HostTypeOK, NetworkEvent, EventId, EventInv,
             EventIdsAreUnique
    <3>3. EventIdsAreUnique'
      BY <3>1, <3>2 DEF EventInv, EventIdsAreUnique
    <3> QED
      BY <3>1, <3>3 DEF EventInv, AckedEventsWereIngested, OnlyToldEvents,
                        ForgottenOnlyAfterIngested
  <2>2. CASE h.kind # "PlayerMoved"
    <3>1. h \in DomainEvent
      BY <1>4 DEF BroadcastReliableEvent, TypeOK, HostTypeOK
    <3>2. e \in NetworkEvent
      BY <2>2, <3>1 DEF DomainEvent, NetworkEvent, TypeOK, HostTypeOK
    <3>3. PICK sent : SendReliableEvent(sent, e)
      BY <1>4, <2>2 DEF BroadcastReliableEvent
    <3>4. /\ nextNetworkEventId' = nextNetworkEventId + 1
          /\ UNCHANGED <<eventAcks, ingested>>
      BY <1>4 DEF BroadcastReliableEvent, clientVars
    <3> QED
      BY <3>2, <3>3, <3>4, SendReliableEventStep
  <2> QED
    BY <2>1, <2>2
<1>5. CASE ResendPendingReliableEvents /\ UNCHANGED clientVars
  <2>1. PICK sent :
           /\ pending' = [c \in Client |->
                 {IF <<c, p>> \in sent THEN Sent(p) ELSE p : p \in pending[c]}]
           /\ events' = [c \in Client |-> events[c] \cup
                 {p.event : p \in {q \in pending[c] : <<c, q>> \in sent}}]
    BY <1>5 DEF ResendPendingReliableEvents
  <2>2. \A c \in Client : \A p \in pending[c] : Sent(p).event = p.event
    BY DEF Sent
  <2>3. ASSUME NEW c \in Client
        PROVE  {p.event : p \in pending'[c]} = {p.event : p \in pending[c]}
    <3> DEFINE upd(p) == IF <<c, p>> \in sent THEN Sent(p) ELSE p
    <3>1. pending'[c] = {upd(p) : p \in pending[c]}
      BY <2>1
    <3>2. \A p \in pending[c] : upd(p).event = p.event
      BY <2>2
    <3> HIDE DEF upd
    <3> QED
      BY <3>1, <3>2
  <2>4. ASSUME NEW c \in Client
        PROVE  events'[c] \subseteq events[c] \cup {p.event : p \in pending[c]}
    BY <2>1
  <2> QED
    BY <1>5, <2>3, <2>4, PendingUpdateStep
    DEF ResendPendingReliableEvents, clientVars
<1>6. ASSUME NEW c \in Client, NEW id, HandleNetworkEventAckEnvelope(c, id),
             UNCHANGED clientVars
      PROVE  EventInv'
  <2>1. /\ id \in eventAcks[c]
        /\ pending' = [pending EXCEPT ![c] = {p \in pending[c] : p.event.id # id}]
        /\ UNCHANGED <<events, eventAcks, told, ingested, nextNetworkEventId>>
    BY <1>6 DEF HandleNetworkEventAckEnvelope, AcknowledgeReliableEvent,
                networkVars, clientVars
  <2>2. \A d \in Client : pending'[d] \subseteq pending[d]
    BY <2>1 DEF TypeOK, HostTypeOK
  <2>3. AckedEventsWereIngested' /\ OnlyToldEvents' /\ EventIdsAreUnique'
    BY <2>1, <2>2 DEF EventInv, AckedEventsWereIngested, OnlyToldEvents,
                      EventIdsAreUnique
  <2>4. PICK a \in ingested[c] : a.id = id /\ a \in told[c]
    BY <2>1 DEF EventInv, AckedEventsWereIngested, OnlyToldEvents
  <2>5. ASSUME NEW d \in Client, NEW e \in told[d]
        PROVE  e \in ingested[d] \/ \E p \in pending'[d] : p.event = e
    <3>1. e \in ingested[d] \/ \E p \in pending[d] : p.event = e
      BY DEF EventInv, ForgottenOnlyAfterIngested
    <3>2. CASE d = c /\ e.id = id
      BY <2>4, <3>2 DEF EventInv, EventIdsAreUnique
    <3>3. CASE ~(d = c /\ e.id = id)
      BY <2>1, <3>1, <3>3 DEF TypeOK, HostTypeOK
    <3> QED
      BY <3>2, <3>3
  <2>6. ForgottenOnlyAfterIngested'
    BY <2>1, <2>5 DEF ForgottenOnlyAfterIngested
  <2> QED
    BY <2>3, <2>6 DEF EventInv
<1>7. ASSUME NEW c \in Client, NEW e \in events[c], PumpReliableEvent(c, e),
             UNCHANGED hostVars
      PROVE  EventInv'
  <2>1. /\ eventAcks' = [eventAcks EXCEPT ![c] = @ \cup {e.id}]
        /\ ingested' = [ingested EXCEPT ![c] = @ \cup {e}]
        /\ UNCHANGED <<events, pending, told, nextNetworkEventId>>
    BY <1>7 DEF PumpReliableEvent, hostVars
  <2>2. e \in told[c]
    BY DEF EventInv, OnlyToldEvents
  <2>3. /\ \A d \in Client : ingested[d] \subseteq ingested'[d]
        /\ \A d \in Client : ingested'[d] \subseteq told[d]
        /\ e \in ingested'[c]
        /\ \A d \in Client : \A id \in eventAcks'[d] :
              id \in eventAcks[d] \/ (d = c /\ id = e.id)
    BY <2>1, <2>2 DEF EventInv, OnlyToldEvents, TypeOK, NetworkTypeOK, ClientTypeOK
  <2>4. AckedEventsWereIngested'
    BY <2>3 DEF EventInv, AckedEventsWereIngested
  <2> QED
    BY <2>1, <2>3, <2>4 DEF EventInv, OnlyToldEvents, EventIdsAreUnique,
                            ForgottenOnlyAfterIngested
<1>8. ASSUME NEW c \in Client, LoseEvent(c) \/ LoseEventAck(c),
             UNCHANGED <<hostVars, clientVars>>
      PROVE  EventInv'
  <2>1. UNCHANGED <<pending, told, ingested, nextNetworkEventId>>
    BY <1>8 DEF hostVars, clientVars
  <2>2. \A d \in Client : events'[d] \subseteq events[d]
                          /\ eventAcks'[d] \subseteq eventAcks[d]
    BY <1>8 DEF LoseEvent, LoseEventAck, TypeOK, NetworkTypeOK
  <2> QED
    BY <2>1, <2>2 DEF EventInv, AckedEventsWereIngested, OnlyToldEvents,
                      EventIdsAreUnique, ForgottenOnlyAfterIngested
<1>9. CASE TickAndSendSnapshots /\ UNCHANGED clientVars
  BY <1>1, <1>2, <1>3, <1>4, <1>5, <1>9
  DEF TickAndSendSnapshots, SkipSnapshot, SendSnapshotFails, SendSnapshot,
      EndSnapshots, EndBroadcast, eventPart, clientVars, networkVars
<1>10. ASSUME NEW c \in Client, UNCHANGED clientVars,
              ConnectSimulationOnlyClient(c) \/ PumpClientMessage(c)
       PROVE  EventInv'
  BY <1>1, <1>6, <1>10
  DEF ConnectSimulationOnlyClient, PumpClientMessage, HandleLoginEnvelope,
      HandleSnapshotAckEnvelope, eventPart, clientVars, networkVars
<1>11. ASSUME NEW c \in Remote, RemoteStep(c) PROVE EventInv'
  BY <1>1, <1>7, <1>11
  DEF Client, RemoteStep, ClientStep, Connect, TrySendLogin, PumpSnapshot,
      eventPart, hostVars, networkVars
<1>12. ASSUME NEW c \in Remote, NetworkStep(c) PROVE EventInv'
  BY <1>1, <1>8, <1>12
  DEF Client, NetworkStep, Lose, LoseLogin, LoseSnapshot, LoseSnapshotAck,
      eventPart, hostVars, clientVars
<1>13. CASE UNCHANGED vars
  BY <1>1, <1>13 DEF vars, networkVars, hostVars, clientVars, eventPart
<1> QED
  BY <1>9, <1>10, <1>11, <1>12, <1>13 DEF Next, HostStep

(* The server never forgets a tracked reliable event before its client has  *)
(* ingested it: HandleNetworkEventAckEnvelope erases exactly what the       *)
(* client's pump acknowledged, under any loss, repetition or reordering.    *)
THEOREM ReliableEventsKept == Spec => []ForgottenOnlyAfterIngested
<1>1. Init => EventInv
  BY DEF Init, NetworkInit, HostInit, ClientInit, EventInv, OnlyToldEvents,
         AckedEventsWereIngested, EventIdsAreUnique, ForgottenOnlyAfterIngested
<1>2. EventInv => ForgottenOnlyAfterIngested
  BY DEF EventInv
<1> QED
  BY <1>1, <1>2, EventStep, TypeCorrect, PTL DEF Spec
-----------------------------------------------------------------------------
(***************************************************************************)
(* Interest events.  SendInterestEvents moves the tracker first and sends   *)
(* the events after: in between, the events told and the tracker differ by  *)
(* what is left of the frame.                                               *)
(***************************************************************************)

(* The interest events about x in a set of events, and whether the newest   *)
(* of them says that x entered.                                             *)
AboutIn(T, x) == {e \in T : e.kind \in InterestKinds /\ e.subject = x}

SaysEntered(T, x) ==
    \E e \in AboutIn(T, x) : /\ e.kind = "EntityEnteredInterest"
                             /\ \A f \in AboutIn(T, x) : f.id <= e.id

(* What is left to tell client c.                                           *)
LeftEntered(c) == IF Serving(c) THEN frame.entered ELSE {}
LeftExited(c) == IF Serving(c) THEN frame.exited ELSE {}

InterestInv ==
    /\ frame # NoFrame => phase = "snapshots" /\ cursor <= Len(clients)
    /\ \A c \in Client : /\ LeftEntered(c) \subseteq known[c]
                          /\ LeftExited(c) \cap known[c] = {}
    /\ \A c \in Client, x \in Entity :
          SaysEntered(told[c], x) <=>
              x \in (known[c] \ LeftEntered(c)) \cup LeftExited(c)

interestPart == <<frame, phase, cursor, clients, known, told>>

(* A newer event about an entity decides what is told about it, and nothing *)
(* about the others.                                                        *)
LEMMA NewestSays ==
    ASSUME NEW T \in SUBSET NetworkEvent, NEW e \in NetworkEvent,
           e.kind \in InterestKinds, \A f \in T : f.id < e.id
    PROVE  /\ SaysEntered(T \cup {e}, e.subject) <=> e.kind = "EntityEnteredInterest"
           /\ \A x : x # e.subject => (SaysEntered(T \cup {e}, x) <=> SaysEntered(T, x))
<1>1. e.id \in Nat /\ \A f \in T : f.id \in Nat /\ f.id < e.id
  BY DEF NetworkEvent, EventId
<1>2. AboutIn(T \cup {e}, e.subject) = AboutIn(T, e.subject) \cup {e}
  BY DEF AboutIn
<1>3. \A f \in AboutIn(T, e.subject) : f.id \in Nat /\ f.id < e.id
  BY <1>1 DEF AboutIn
<1>4. SaysEntered(T \cup {e}, e.subject) <=> e.kind = "EntityEnteredInterest"
  <2>1. ASSUME SaysEntered(T \cup {e}, e.subject) PROVE e.kind = "EntityEnteredInterest"
    <3>1. PICK g \in AboutIn(T, e.subject) \cup {e} :
             /\ g.kind = "EntityEnteredInterest"
             /\ \A f \in AboutIn(T, e.subject) \cup {e} : f.id <= g.id
      BY <1>2, <2>1, Zenon DEF SaysEntered
    <3>2. e.id <= g.id
      BY <3>1
    <3>3. g = e
      BY <1>1, <1>3, <3>2
    <3> QED
      BY <3>1, <3>3
  <2>2. ASSUME e.kind = "EntityEnteredInterest" PROVE SaysEntered(T \cup {e}, e.subject)
    <3>1. \A f \in AboutIn(T, e.subject) \cup {e} : f.id <= e.id
      BY <1>1, <1>3
    <3> QED
      BY <1>2, <2>2, <3>1, Zenon DEF SaysEntered
  <2> QED
    BY <2>1, <2>2 DEF SaysEntered
<1>5. ASSUME NEW x, x # e.subject PROVE SaysEntered(T \cup {e}, x) <=> SaysEntered(T, x)
  <2>1. AboutIn(T \cup {e}, x) = AboutIn(T, x)
    BY <1>5 DEF AboutIn
  <2> QED
    BY <2>1 DEF SaysEntered
<1> QED
  BY <1>4, <1>5, Zenon

LEMMA OtherEventsSayNothing ==
    ASSUME NEW T, NEW e, e.kind \notin InterestKinds, NEW x
    PROVE  SaysEntered(T \cup {e}, x) <=> SaysEntered(T, x)
<1>1. AboutIn(T \cup {e}, x) = AboutIn(T, x)
  BY DEF AboutIn
<1> QED
  BY <1>1 DEF SaysEntered

(* While no frame is open, the events told and the tracker agree.           *)
LEMMA NoFrameStep ==
    ASSUME InterestInv, frame = NoFrame, frame' = NoFrame, known' = known,
           \A c \in Client, x \in Entity :
               SaysEntered(told'[c], x) <=> SaysEntered(told[c], x)
    PROVE  InterestInv'
<1>1. \A c \in Client : /\ LeftEntered(c) = {} /\ LeftExited(c) = {}
                        /\ LeftEntered(c)' = {} /\ LeftExited(c)' = {}
  BY DEF LeftEntered, LeftExited, NoFrame
<1> QED
  BY <1>1 DEF InterestInv

LEMMA SendSnapshotOpensFrame ==
    ASSUME TypeOK, InterestInv, NEW c \in Client, SendSnapshot(c)
    PROVE  InterestInv'
<1>1. /\ Serving(c) /\ frame = NoFrame /\ told' = told /\ phase' = phase
      /\ clients' = clients /\ cursor' = IF frame' = NoFrame THEN cursor + 1 ELSE cursor
  BY DEF SendSnapshot
<1>2. PICK visible \in SUBSET Entity :
         /\ frame' = [entered |-> visible \ known[c], exited |-> known[c] \ visible]
         /\ known' = [known EXCEPT ![c] = visible]
  BY DEF SendSnapshot, InterestFrame
<1>3. known \in [Client -> SUBSET Entity]
  BY DEF TypeOK, HostTypeOK
<1>4. frame'.entered = visible \ known[c] /\ frame'.exited = known[c] \ visible
  BY <1>2
<1>5. CASE frame' = NoFrame
  <2>1. visible \ known[c] = {} /\ known[c] \ visible = {}
    BY <1>4, <1>5 DEF NoFrame
  <2>2. visible = known[c]
    BY <2>1
  <2>3. known' = known
    BY <1>2, <1>3, <2>2
  <2> QED
    BY <1>1, <1>5, <2>3, NoFrameStep
<1>6. CASE frame' # NoFrame
  <2>1. cursor' = cursor /\ phase = "snapshots" /\ cursor <= Len(clients) /\ c = clients[cursor]
    BY <1>1, <1>6 DEF Serving
  <2>2. \A d \in Client : Serving(d)' <=> d = c
    BY <1>1, <2>1 DEF Serving
  <2>3. \A d \in Client : LeftEntered(d) = {} /\ LeftExited(d) = {}
    BY <1>1 DEF LeftEntered, LeftExited, NoFrame
  <2>4. /\ LeftEntered(c)' = visible \ known[c] /\ LeftExited(c)' = known[c] \ visible
        /\ \A d \in Client : d # c => LeftEntered(d)' = {} /\ LeftExited(d)' = {}
    BY <1>4, <2>2 DEF LeftEntered, LeftExited
  <2>5. known'[c] = visible /\ \A d \in Client : d # c => known'[d] = known[d]
    BY <1>2, <1>3
  <2>6. \A d \in Client : LeftEntered(d)' \subseteq known'[d] /\ LeftExited(d)' \cap known'[d] = {}
    BY <2>4, <2>5
  <2>7. ASSUME NEW d \in Client, NEW x \in Entity
        PROVE  SaysEntered(told'[d], x) <=>
                  x \in (known'[d] \ LeftEntered(d)') \cup LeftExited(d)'
    <3>1. SaysEntered(told'[d], x) <=> x \in known[d]
      BY <1>1, <2>3 DEF InterestInv
    <3>2. x \in known[d] <=> x \in (known'[d] \ LeftEntered(d)') \cup LeftExited(d)'
      BY <2>4, <2>5
    <3> QED
      BY <3>1, <3>2
  <2>8. phase' = "snapshots" /\ cursor' <= Len(clients')
    BY <1>1, <2>1
  <2> QED
    BY <2>6, <2>7, <2>8 DEF InterestInv
<1> QED
  BY <1>5, <1>6

(* An event of the frame is told: what it leaves and what is told move on   *)
(* together.                                                                *)
LEMMA SendInterestEventStep ==
    ASSUME "ReliableEvent" \notin MayRefuse, TypeOK, EventIdsAreUnique, InterestInv,
           NEW c \in Client, SendInterestEvent(c)
    PROVE  InterestInv'
<1>1. /\ phase = "snapshots" /\ cursor <= Len(clients) /\ c = clients[cursor]
      /\ phase' = phase /\ clients' = clients /\ known' = known
      /\ cursor' = IF frame' = NoFrame THEN cursor + 1 ELSE cursor
  BY DEF SendInterestEvent, Serving
<1>2. PICK x \in Entity, k \in InterestKinds :
         /\ IF k = "EntityEnteredInterest"
            THEN /\ x \in frame.entered
                 /\ frame' = [frame EXCEPT !.entered = @ \ {x}]
            ELSE /\ frame.entered = {} /\ x \in frame.exited
                 /\ frame' = [frame EXCEPT !.exited = @ \ {x}]
         /\ \E sent \in Accepted("ReliableEvent", {c}) :
               SendReliableEvent(sent, [id |-> nextNetworkEventId,
                                        kind |-> k, subject |-> x])
  BY Zenon DEF SendInterestEvent
<1>3. PICK e : e = [id |-> nextNetworkEventId, kind |-> k, subject |-> x]
  OBVIOUS
<1>4. SendReliableEvent({c}, e)
  BY <1>2, <1>3 DEF Accepted
<1>5. /\ e \in NetworkEvent /\ e.kind = k /\ e.subject = x
      /\ e.kind \in InterestKinds /\ e.id = nextNetworkEventId
  BY <1>3 DEF NetworkEvent, TypeOK, HostTypeOK
<1>6. told'[c] = told[c] \cup {e} /\ \A d \in Client : d # c => told'[d] = told[d]
  BY <1>4 DEF SendReliableEvent
<1>7. told[c] \in SUBSET NetworkEvent /\ \A f \in told[c] : f.id < e.id
  BY <1>5 DEF TypeOK, HostTypeOK, EventIdsAreUnique
<1>8. /\ SaysEntered(told'[c], x) <=> k = "EntityEnteredInterest"
      /\ \A y : y # x => (SaysEntered(told'[c], y) <=> SaysEntered(told[c], y))
  <2>1. PICK T \in SUBSET NetworkEvent : T = told[c] /\ \A f \in T : f.id < e.id
    BY <1>7
  <2>2. /\ SaysEntered(T \cup {e}, e.subject) <=> e.kind = "EntityEnteredInterest"
        /\ \A y : y # e.subject => (SaysEntered(T \cup {e}, y) <=> SaysEntered(T, y))
    BY <1>5, <2>1, NewestSays
  <2> QED
    BY <1>5, <1>6, <2>1, <2>2, Zenon
<1>9. /\ frame = [entered |-> frame.entered, exited |-> frame.exited]
      /\ frame.entered \subseteq Entity /\ frame.exited \subseteq Entity
  BY DEF TypeOK, HostTypeOK
<1>10. /\ LeftEntered(c) = frame.entered /\ LeftExited(c) = frame.exited
       /\ \A d \in Client : d # c => LeftEntered(d) = {} /\ LeftExited(d) = {}
  BY <1>1 DEF LeftEntered, LeftExited, Serving
<1>11. /\ LeftEntered(c)' = frame'.entered /\ LeftExited(c)' = frame'.exited
       /\ \A d \in Client : d # c => LeftEntered(d)' = {} /\ LeftExited(d)' = {}
  <2>1. CASE frame' = NoFrame
    BY <2>1 DEF LeftEntered, LeftExited, NoFrame
  <2>2. CASE frame' # NoFrame
    <3>1. cursor' = cursor
      BY <1>1, <2>2
    <3> QED
      BY <1>1, <3>1 DEF LeftEntered, LeftExited, Serving
  <2> QED
    BY <2>1, <2>2
<1>12. frame.entered \subseteq known[c] /\ frame.exited \cap known[c] = {}
  BY <1>10 DEF InterestInv
<1>13. \A y \in Entity : SaysEntered(told[c], y) <=>
                            y \in (known[c] \ frame.entered) \cup frame.exited
  BY <1>10 DEF InterestInv
<1>14. /\ frame'.entered \subseteq known[c] /\ frame'.exited \cap known[c] = {}
       /\ \A y \in Entity : SaysEntered(told'[c], y) <=>
                              y \in (known[c] \ frame'.entered) \cup frame'.exited
  <2>1. CASE k = "EntityEnteredInterest"
    <3>1. x \in frame.entered /\ frame' = [frame EXCEPT !.entered = @ \ {x}]
      BY <1>2, <2>1
    <3>2. frame'.entered = frame.entered \ {x} /\ frame'.exited = frame.exited
      BY <1>9, <3>1
    <3> QED
      BY <1>8, <1>12, <1>13, <2>1, <3>1, <3>2
  <2>2. CASE k # "EntityEnteredInterest"
    <3>1. /\ frame.entered = {} /\ x \in frame.exited
          /\ frame' = [frame EXCEPT !.exited = @ \ {x}]
      BY <1>2, <2>2
    <3>2. frame'.entered = {} /\ frame'.exited = frame.exited \ {x}
      BY <1>9, <3>1
    <3> QED
      BY <1>8, <1>12, <1>13, <2>2, <3>1, <3>2
  <2> QED
    BY <2>1, <2>2
<1>15. ASSUME NEW d \in Client, d # c
       PROVE  /\ LeftEntered(d)' \subseteq known'[d] /\ LeftExited(d)' \cap known'[d] = {}
              /\ \A y \in Entity : SaysEntered(told'[d], y) <=>
                    y \in (known'[d] \ LeftEntered(d)') \cup LeftExited(d)'
  <2>1. \A y \in Entity : SaysEntered(told[d], y) <=> y \in known[d]
    BY <1>10, <1>15 DEF InterestInv
  <2> QED
    BY <1>1, <1>6, <1>11, <1>15, <2>1
<1>16. frame' # NoFrame => phase' = "snapshots" /\ cursor' <= Len(clients')
  BY <1>1
<1> QED
  BY <1>1, <1>11, <1>14, <1>15, <1>16 DEF InterestInv

LEMMA BroadcastStep ==
    ASSUME TypeOK, InterestInv, BroadcastReliableEvent
    PROVE  InterestInv'
<1> DEFINE h == Head(tickEvents)
           e == [id |-> nextNetworkEventId, kind |-> h.kind, subject |-> h.subject]
<1>1. phase = "broadcast" /\ frame' = frame /\ known' = known /\ h \in DomainEvent
  BY DEF BroadcastReliableEvent, TypeOK, HostTypeOK
<1>2. frame = NoFrame
  BY <1>1 DEF InterestInv
<1>3. \A c \in Client : told'[c] = told[c] \/ told'[c] = told[c] \cup {e}
  BY DEF BroadcastReliableEvent, SendReliableEvent
<1>4. e.kind \notin InterestKinds
  BY <1>1 DEF DomainEvent, InterestKinds
<1> HIDE DEF e
<1>5. ASSUME NEW c \in Client, NEW x \in Entity
      PROVE  SaysEntered(told'[c], x) <=> SaysEntered(told[c], x)
  <2>1. CASE told'[c] = told[c]
    BY <2>1
  <2>2. CASE told'[c] = told[c] \cup {e}
    BY <1>4, <2>2, OtherEventsSayNothing
  <2> QED
    BY <1>3, <2>1, <2>2
<1> QED
  BY <1>1, <1>2, <1>5, NoFrameStep

(* Every step keeps InterestInv, one case per action.                       *)
LEMMA InterestStep ==
    ASSUME "ReliableEvent" \notin MayRefuse
    PROVE  TypeOK /\ EventIdsAreUnique /\ InterestInv /\ [Next]_vars => InterestInv'
<1> SUFFICES ASSUME TypeOK, EventIdsAreUnique, InterestInv, [Next]_vars PROVE InterestInv'
  OBVIOUS
<1>1. CASE UNCHANGED interestPart
  BY <1>1 DEF interestPart, InterestInv, LeftEntered, LeftExited, Serving
<1>2. ASSUME phase # "snapshots" \/ cursor > Len(clients) \/ frame = NoFrame,
             frame' = frame, known' = known, told' = told
      PROVE  InterestInv'
  <2>1. cursor \in Nat /\ Len(clients) \in Nat
    BY DEF TypeOK, HostTypeOK
  <2>2. frame = NoFrame
    BY <1>2, <2>1 DEF InterestInv
  <2> QED
    BY <1>2, <2>2, NoFrameStep
<1>3. CASE BeginTick
  BY <1>2, <1>3 DEF BeginTick
<1>4. ASSUME NEW c \in Client, SkipSnapshot(c) PROVE InterestInv'
  BY <1>2, <1>4 DEF SkipSnapshot
<1>5. ASSUME NEW c \in Client, SendSnapshotFails(c) PROVE InterestInv'
  BY <1>2, <1>5 DEF SendSnapshotFails
<1>6. ASSUME NEW c \in Client, SendSnapshot(c) PROVE InterestInv'
  BY <1>6, SendSnapshotOpensFrame
<1>7. ASSUME NEW c \in Client, SendInterestEvent(c) PROVE InterestInv'
  BY <1>7, SendInterestEventStep
<1>8. CASE EndSnapshots
  BY <1>2, <1>8 DEF EndSnapshots
<1>9. CASE BroadcastReliableEvent
  BY <1>9, BroadcastStep
<1>10. CASE EndBroadcast
  BY <1>2, <1>10 DEF EndBroadcast
<1>11. CASE ResendPendingReliableEvents
  BY <1>2, <1>11 DEF ResendPendingReliableEvents
<1>12. CASE TickAndSendSnapshots
  BY <1>3, <1>4, <1>5, <1>6, <1>7, <1>8, <1>9, <1>10, <1>11, <1>12
  DEF TickAndSendSnapshots
<1>13. ASSUME NEW c \in Client, ConnectSimulationOnlyClient(c) \/ PumpClientMessage(c)
       PROVE  InterestInv'
  <2>1. CASE HandleLoginEnvelope(c)
    BY <1>2, <2>1 DEF HandleLoginEnvelope
  <2> QED
    BY <1>1, <1>13, <2>1
    DEF ConnectSimulationOnlyClient, PumpClientMessage, HandleSnapshotAckEnvelope,
        HandleNetworkEventAckEnvelope, interestPart
<1>14. ASSUME NEW c \in Remote, RemoteStep(c) \/ NetworkStep(c) PROVE InterestInv'
  BY <1>1, <1>14 DEF RemoteStep, NetworkStep, hostVars, interestPart
<1>15. CASE UNCHANGED vars
  BY <1>1, <1>15 DEF vars, hostVars, interestPart
<1> QED
  BY <1>12, <1>13, <1>14, <1>15 DEF Next, HostStep

(* What is ingested or pending is what was told.                            *)
LEMMA ToldIsIngestedOrPending ==
    ASSUME EventInv, NEW c \in Client, NEW x
    PROVE  InterestEventsAbout(c, x) = AboutIn(told[c], x)
<1>1. ingested[c] \cup {p.event : p \in pending[c]} \subseteq told[c]
  BY DEF EventInv, OnlyToldEvents
<1>2. told[c] \subseteq ingested[c] \cup {p.event : p \in pending[c]}
  BY DEF EventInv, ForgottenOnlyAfterIngested
<1>3. told[c] = ingested[c] \cup {p.event : p \in pending[c]}
  BY <1>1, <1>2
<1> QED
  BY <1>3 DEF InterestEventsAbout, AboutIn

(* When transport_.Send takes every reliable event, SendInterestEvents      *)
(* leaves each client owed exactly the interest events that bring it to     *)
(* what its tracker knows, whatever is lost, resent or acknowledged.        *)
THEOREM InterestIsTold ==
    ASSUME "ReliableEvent" \notin MayRefuse
    PROVE  Spec => []InterestStreamMatchesTracker
<1>1. Init => EventInv
  BY DEF Init, NetworkInit, HostInit, ClientInit, EventInv, OnlyToldEvents,
         AckedEventsWereIngested, EventIdsAreUnique, ForgottenOnlyAfterIngested
<1>2. Init => InterestInv
  <2> SUFFICES ASSUME Init PROVE InterestInv
    OBVIOUS
  <2>1. /\ frame = NoFrame /\ phase = "pump"
        /\ \A c \in Client : told[c] = {} /\ known[c] = {}
    BY DEF Init, HostInit
  <2>2. \A x : ~SaysEntered({}, x)
    BY DEF SaysEntered, AboutIn
  <2>3. \A c \in Client : LeftEntered(c) = {} /\ LeftExited(c) = {}
    BY <2>1 DEF LeftEntered, LeftExited, Serving
  <2> QED
    BY <2>1, <2>2, <2>3 DEF InterestInv
<1>3. EventInv => EventIdsAreUnique
  BY DEF EventInv
<1>4. TypeOK /\ EventIdsAreUnique /\ InterestInv /\ [Next]_vars => InterestInv'
  BY InterestStep
<1>5. EventInv /\ InterestInv => InterestStreamMatchesTracker
  <2> SUFFICES ASSUME EventInv, InterestInv, NEW c \in Remote, NEW x \in Entity,
                      frame = NoFrame \/ ~Serving(c)
               PROVE  LastInterestAgrees(c, x)
    BY DEF InterestStreamMatchesTracker
  <2>1. c \in Client
    BY DEF Client
  <2>2. LeftEntered(c) = {} /\ LeftExited(c) = {}
    BY DEF LeftEntered, LeftExited, NoFrame
  <2>3. SaysEntered(told[c], x) <=> x \in known[c]
    BY <2>1, <2>2 DEF InterestInv
  <2>4. InterestEventsAbout(c, x) = AboutIn(told[c], x)
    BY <2>1, ToldIsIngestedOrPending
  <2> QED
    BY <2>3, <2>4 DEF SaysEntered, LastInterestAgrees
<1> QED
  BY <1>1, <1>2, <1>3, <1>4, <1>5, EventStep, TypeCorrect, PTL DEF Spec

(***************************************************************************)
(* Replication implements ReliableDelivery.  The refinement maps the        *)
(* entries pending for a client to the events owed to it; that a step on    *)
(* entries is a step on events is what EventInv gives.                      *)
(***************************************************************************)

(* What is owed to a client, by the refinement mapping.                     *)
LEMMA OwedOf ==
    ASSUME NEW c \in Client
    PROVE  /\ Owed[c] = {p.event : p \in pending[c]}
           /\ Owed'[c] = {p.event : p \in pending'[c]}
BY DEF Owed

(* A step that keeps the events of every client's entries is invisible.     *)
LEMMA SameEventsOwed ==
    ASSUME \A c \in Client :
               {p.event : p \in pending'[c]} = {p.event : p \in pending[c]},
           UNCHANGED <<told, ingested>>
    PROVE  UNCHANGED Delivery!vars
<1>1. Owed' = Owed
  BY DEF Owed
<1> QED
  BY <1>1 DEF Delivery!vars

(* Sending a new event tells it to the clients that Send reached.           *)
LEMMA SendTells ==
    ASSUME TypeOK, EventInv, NEW sent, NEW e \in NetworkEvent,
           e.id = nextNetworkEventId, SendReliableEvent(sent, e),
           UNCHANGED ingested
    PROVE  Delivery!Next
<1>0. ASSUME NEW c \in Client, NEW f \in told[c]
      PROVE  f.id # e.id
  BY <1>0 DEF EventInv, EventIdsAreUnique, TypeOK, HostTypeOK, EventId, NetworkEvent
<1>1. ASSUME NEW c \in Client, c \in sent
      PROVE  Delivery!Tell(c)
  <2> DEFINE new == [event |-> e, sendCount |-> 1, age |-> 0]
  <2>1. new.event = e
    OBVIOUS
  <2>2. ~IsPending(pending[c], e.id)
    BY <1>0 DEF IsPending, EventInv, OnlyToldEvents
  <2>3. pending'[c] = pending[c] \cup {new} /\ told'[c] = told[c] \cup {e}
    BY <1>1, <2>2 DEF SendReliableEvent, TrackReliableEvent
  <2>4. e \notin told[c]
    BY <1>0
  <2> HIDE DEF new
  <2>5. Owed'[c] = Owed[c] \cup {e}
    BY <2>1, <2>3, OwedOf
  <2> QED
    BY <2>3, <2>4, <2>5 DEF Delivery!Tell
<1>2. ASSUME NEW c \in Client, c \notin sent
      PROVE  Delivery!Rest(c)
  <2>1. pending'[c] = pending[c] /\ told'[c] = told[c]
    BY <1>2 DEF SendReliableEvent
  <2> QED
    BY <2>1, OwedOf DEF Delivery!Rest
<1> QED
  BY <1>1, <1>2 DEF Delivery!Next

(* An acknowledgement forgets one event, which its client has ingested.     *)
LEMMA AcknowledgementForgets ==
    ASSUME TypeOK, EventInv, NEW c \in Client, NEW id,
           HandleNetworkEventAckEnvelope(c, id), UNCHANGED clientVars
    PROVE  Delivery!Next
<1>1. /\ id \in eventAcks[c]
      /\ IsPending(pending[c], id)
      /\ pending' = [pending EXCEPT ![c] = {p \in pending[c] : p.event.id # id}]
      /\ UNCHANGED <<told, ingested>>
  BY DEF HandleNetworkEventAckEnvelope, AcknowledgeReliableEvent, clientVars
<1>2. PICK a \in ingested[c] : a.id = id /\ a \in told[c]
  BY <1>1 DEF EventInv, AckedEventsWereIngested, OnlyToldEvents
<1>3. \A p \in pending[c] : p.event \in told[c] /\ (p.event.id = id <=> p.event = a)
  BY <1>2 DEF EventInv, OnlyToldEvents, EventIdsAreUnique
<1>4. /\ pending'[c] = {p \in pending[c] : p.event # a}
      /\ \A d \in Client : d # c => pending'[d] = pending[d]
  BY <1>1, <1>3 DEF TypeOK, HostTypeOK
<1>5. a \in Owed[c] /\ Owed'[c] = Owed[c] \ {a}
  BY <1>1, <1>3, <1>4, OwedOf DEF IsPending
<1>6. Delivery!Forget(c)
  BY <1>1, <1>2, <1>5 DEF Delivery!Forget
<1>7. \A d \in Client : d # c => Delivery!Rest(d)
  BY <1>1, <1>4, OwedOf DEF Delivery!Rest
<1> QED
  BY <1>6, <1>7 DEF Delivery!Next

(* A copy of an event that arrives is ingested by its client alone.         *)
LEMMA PumpIngests ==
    ASSUME TypeOK, EventInv, NEW c \in Client, NEW e \in events[c],
           PumpReliableEvent(c, e), UNCHANGED hostVars
    PROVE  Delivery!Next
<1>1. /\ ingested' = [ingested EXCEPT ![c] = @ \cup {e}]
      /\ UNCHANGED <<told, pending>>
  BY DEF PumpReliableEvent, hostVars
<1>2. e \in told[c] /\ ingested'[c] = ingested[c] \cup {e}
  BY <1>1 DEF EventInv, OnlyToldEvents, TypeOK, ClientTypeOK
<1>3. \A d \in Client : Owed'[d] = Owed[d] /\ told'[d] = told[d]
  BY <1>1, OwedOf
<1>4. Delivery!Ingest(c)
  BY <1>2, <1>3 DEF Delivery!Ingest
<1>5. \A d \in Client : d # c => Delivery!Rest(d)
  BY <1>1, <1>3 DEF Delivery!Rest, TypeOK, ClientTypeOK
<1> QED
  BY <1>4, <1>5 DEF Delivery!Next

(* Every step of Replication is a step or a stutter of ReliableDelivery.    *)
LEMMA DeliveryStep ==
    TypeOK /\ EventInv /\ [Next]_vars => [Delivery!Next]_(Delivery!vars)
<1> SUFFICES ASSUME TypeOK, EventInv, [Next]_vars
             PROVE  Delivery!Next \/ UNCHANGED Delivery!vars
  OBVIOUS
<1>1. CASE UNCHANGED <<pending, told, ingested>>
  BY <1>1, SameEventsOwed
<1>2. CASE BeginTick /\ UNCHANGED clientVars
  <2>1. \A c \in Client : \A p \in pending[c] : Aged(p).event = p.event
    BY DEF Aged
  <2>2. ASSUME NEW c \in Client
        PROVE  {p.event : p \in pending'[c]} = {p.event : p \in pending[c]}
    <3>1. pending'[c] = {Aged(p) : p \in pending[c]}
      BY <1>2 DEF BeginTick, Older
    <3> QED
      BY <2>1, <3>1
  <2> QED
    BY <1>2, <2>2, SameEventsOwed DEF BeginTick, clientVars
<1>3. ASSUME NEW c \in Client, SendInterestEvent(c), UNCHANGED clientVars
      PROVE  Delivery!Next
  <2>0. PICK x \in Entity, k \in InterestKinds : \E sent :
           SendReliableEvent(sent, [id |-> nextNetworkEventId,
                                    kind |-> k, subject |-> x])
    BY <1>3 DEF SendInterestEvent
  <2>1. PICK sent : SendReliableEvent(sent, [id |-> nextNetworkEventId,
                                             kind |-> k, subject |-> x])
    BY <2>0
  <2>2. [id |-> nextNetworkEventId, kind |-> k, subject |-> x] \in NetworkEvent
    BY DEF NetworkEvent, TypeOK, HostTypeOK
  <2> QED
    BY <1>3, <2>1, <2>2, SendTells DEF clientVars
<1>4. CASE BroadcastReliableEvent /\ UNCHANGED clientVars
  <2> DEFINE h == Head(tickEvents)
             e == [id |-> nextNetworkEventId, kind |-> h.kind,
                   subject |-> h.subject]
  <2>1. CASE h.kind = "PlayerMoved"
    BY <1>1, <1>4, <2>1 DEF BroadcastReliableEvent, clientVars
  <2>2. CASE h.kind # "PlayerMoved"
    <3>1. h \in DomainEvent
      BY <1>4 DEF BroadcastReliableEvent, TypeOK, HostTypeOK
    <3>2. e \in NetworkEvent
      BY <2>2, <3>1 DEF DomainEvent, NetworkEvent, TypeOK, HostTypeOK
    <3>3. PICK sent : SendReliableEvent(sent, e)
      BY <1>4, <2>2 DEF BroadcastReliableEvent
    <3> QED
      BY <1>4, <3>2, <3>3, SendTells DEF clientVars
  <2> QED
    BY <2>1, <2>2
<1>5. CASE ResendPendingReliableEvents /\ UNCHANGED clientVars
  <2>1. PICK sent : pending' = [c \in Client |->
                 {IF <<c, p>> \in sent THEN Sent(p) ELSE p : p \in pending[c]}]
    BY <1>5 DEF ResendPendingReliableEvents
  <2>2. ASSUME NEW c \in Client
        PROVE  {p.event : p \in pending'[c]} = {p.event : p \in pending[c]}
    <3> DEFINE upd(p) == IF <<c, p>> \in sent THEN Sent(p) ELSE p
    <3>1. pending'[c] = {upd(p) : p \in pending[c]}
      BY <2>1
    <3>2. \A p \in pending[c] : upd(p).event = p.event
      BY DEF Sent
    <3> HIDE DEF upd
    <3> QED
      BY <3>1, <3>2
  <2> QED
    BY <1>5, <2>2, SameEventsOwed DEF ResendPendingReliableEvents, clientVars
<1>6. CASE TickAndSendSnapshots /\ UNCHANGED clientVars
  BY <1>1, <1>2, <1>3, <1>4, <1>5, <1>6
  DEF TickAndSendSnapshots, SkipSnapshot, SendSnapshotFails, SendSnapshot,
      EndSnapshots, EndBroadcast, clientVars
<1>7. ASSUME NEW c \in Client, UNCHANGED clientVars,
             ConnectSimulationOnlyClient(c) \/ PumpClientMessage(c)
      PROVE  Delivery!Next \/ UNCHANGED Delivery!vars
  BY <1>1, <1>7, AcknowledgementForgets
  DEF ConnectSimulationOnlyClient, PumpClientMessage, HandleLoginEnvelope,
      HandleSnapshotAckEnvelope, clientVars
<1>8. ASSUME NEW c \in Remote, RemoteStep(c)
      PROVE  Delivery!Next \/ UNCHANGED Delivery!vars
  BY <1>1, <1>8, PumpIngests
  DEF Client, RemoteStep, ClientStep, Connect, TrySendLogin, PumpSnapshot, hostVars
<1>9. ASSUME NEW c \in Remote, NetworkStep(c)
      PROVE  UNCHANGED <<pending, told, ingested>>
  BY <1>9 DEF NetworkStep, hostVars, clientVars
<1>10. CASE UNCHANGED vars
  BY <1>1, <1>10 DEF vars, hostVars, clientVars
<1> QED
  BY <1>1, <1>6, <1>7, <1>8, <1>9, <1>10 DEF Next, HostStep

(* EventInv holds throughout: what ties an acknowledged id to one event its *)
(* client ingested.                                                         *)
LEMMA EventInvariant == Spec => []EventInv
<1>1. Init => EventInv
  BY DEF Init, NetworkInit, HostInit, ClientInit, EventInv, OnlyToldEvents,
         AckedEventsWereIngested, EventIdsAreUnique, ForgottenOnlyAfterIngested
<1> QED
  BY <1>1, EventStep, TypeCorrect, PTL DEF Spec

(* The host, its clients and the network implement reliable delivery: under *)
(* any loss, repetition, reordering or refusal an event that was told stays *)
(* owed until HandleNetworkEventAckEnvelope forgets it, by itself, after    *)
(* its client's pump ingested it.                                           *)
THEOREM DeliveryImplemented == Spec => ImplementsReliableDelivery
<1>1. Init => Delivery!Init
  BY DEF Init, HostInit, ClientInit, Delivery!Init, Owed
<1> QED
  BY <1>1, DeliveryStep, EventInvariant, TypeCorrect, PTL
  DEF Spec, ImplementsReliableDelivery, Delivery!Spec
=============================================================================
