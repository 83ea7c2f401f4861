--------------------------- MODULE NetworkProtocol ---------------------------
(***************************************************************************)
(* The envelope every message travels in: how the sender fills it, what     *)
(* ValidateEnvelope refuses, the transport packet that carries it over a    *)
(* data channel, and the payload's codec per message class.                 *)
(***************************************************************************)
EXTENDS Serialization

CONSTANT kMaxNetworkPayloadBytes   \* 64 KiB in the program

kProtocolVersion == 1

NetworkChannel ==
    <<"MovementInput", "Snapshots", "CombatEvents", "LoginSpawn", "ChatUi",
      "TimeSync">>

MessageClass ==
    <<"ClientInput", "Snapshot", "SnapshotAck", "CombatEvent", "LoginRequest",
      "SpawnAccepted", "InterestEvent", "NetworkEventAck", "ChatUi",
      "TimeSyncRequest", "TimeSyncResponse">>

ExpectedChannelFor(class) ==
    CASE class = "ClientInput" -> "MovementInput"
      [] class \in {"Snapshot", "SnapshotAck"} -> "Snapshots"
      [] class = "CombatEvent" -> "CombatEvents"
      [] class \in {"LoginRequest", "SpawnAccepted", "InterestEvent",
                    "NetworkEventAck"} -> "LoginSpawn"
      [] class = "ChatUi" -> "ChatUi"
      [] class \in {"TimeSyncRequest", "TimeSyncResponse"} -> "TimeSync"

ValidateEnvelope(e) ==
    /\ e.protocolVersion = kProtocolVersion
    /\ Len(e.payload) <= kMaxNetworkPayloadBytes
    /\ e.channel = ExpectedChannelFor(e.messageClass)

-----------------------------------------------------------------------------
(* The class and the payload of a message *)

MessageClassForEvent(e) ==
    CASE e.kind = "PlayerSpawned" -> "SpawnAccepted"
      [] e.kind \in {"EntityEnteredInterest", "EntityLeftInterest"} -> "InterestEvent"
      [] OTHER -> "CombatEvent"

(* What is handed to a Send: a class and a message of that class.  Nothing  *)
(* sends ChatUi.                                                            *)
Item ==
    [class : {"LoginRequest"}, message : LoginCommand]
      \cup [class : {"ClientInput"}, message : ClientInputPacket]
      \cup [class : {"Snapshot"}, message : SnapshotDTO]
      \cup [class : {"SnapshotAck"}, message : SnapshotAckDTO]
      \cup [class : {"CombatEvent", "SpawnAccepted", "InterestEvent"},
            message : NetworkEventDTO]
      \cup [class : {"NetworkEventAck"}, message : NetworkEventAckDTO]
      \cup [class : {"TimeSyncRequest"}, message : TimeSyncRequest]
      \cup [class : {"TimeSyncResponse"}, message : TimeSyncResponse]

Serialize(class, m) ==
    CASE class = "LoginRequest" -> SerializeLoginCommand(m)
      [] class = "ClientInput" -> SerializeClientInputPacket(m)
      [] class = "Snapshot" -> SerializeSnapshot(m)
      [] class = "SnapshotAck" -> SerializeSnapshotAck(m)
      [] class \in {"CombatEvent", "SpawnAccepted", "InterestEvent"} ->
           SerializeNetworkEvent(m)
      [] class = "NetworkEventAck" -> SerializeNetworkEventAck(m)
      [] class = "TimeSyncRequest" -> SerializeTimeSyncRequest(m)
      [] class = "TimeSyncResponse" -> SerializeTimeSyncResponse(m)

Deserialize(class, bytes) ==
    CASE class = "LoginRequest" -> DeserializeLoginCommand(bytes)
      [] class = "ClientInput" -> DeserializeClientInputPacket(bytes)
      [] class = "Snapshot" -> DeserializeSnapshot(bytes)
      [] class = "SnapshotAck" -> DeserializeSnapshotAck(bytes)
      [] class \in {"CombatEvent", "SpawnAccepted", "InterestEvent"} ->
           DeserializeNetworkEvent(bytes)
      [] class = "NetworkEventAck" -> DeserializeNetworkEventAck(bytes)
      [] class = "TimeSyncRequest" -> DeserializeTimeSyncRequest(bytes)
      [] class = "TimeSyncResponse" -> DeserializeTimeSyncResponse(bytes)

(* The channel each sender names, and the number it puts on the envelope.   *)
ChannelOf(class) ==
    CASE class = "ClientInput" -> "MovementInput"
      [] class \in {"Snapshot", "SnapshotAck"} -> "Snapshots"
      [] class = "CombatEvent" -> "CombatEvents"
      [] class \in {"TimeSyncRequest", "TimeSyncResponse"} -> "TimeSync"
      [] OTHER -> "LoginSpawn"

SequenceOf(class, m) ==
    CASE class \in {"Snapshot", "SnapshotAck"} -> m.snapshotId
      [] class \in {"CombatEvent", "SpawnAccepted", "InterestEvent",
                    "NetworkEventAck"} -> m.eventId
      [] OTHER -> m.sequence

(* The envelope a session or the host builds; a session leaves peerId 0.    *)
Envelope(peerId, class, m, payload) ==
    [protocolVersion |-> kProtocolVersion, peerId |-> peerId,
     channel |-> ChannelOf(class), messageClass |-> class,
     sequence |-> SequenceOf(class, m), payload |-> payload]

-----------------------------------------------------------------------------
(* Transport packets *)

EncodeTransportPacket(e) ==
    Concat(<<Pod(2, e.protocolVersion), Pod(4, e.peerId),
             WriteEnum(NetworkChannel, e.channel),
             WriteEnum(MessageClass, e.messageClass), Pod(4, e.sequence),
             Pod(4, Len(e.payload))>>) \o e.payload

(* What does not decode, or decodes to an envelope that is not valid, is    *)
(* refused.                                                                 *)
DecodeTransportPacket(bytes) ==
    LET header == ReadFields(Reader(bytes),
            <<PodField("protocolVersion", 2), PodField("peerId", 4),
              EnumField("channel", NetworkChannel),
              EnumField("messageClass", MessageClass),
              PodField("sequence", 4), PodField("payloadSize", 4)>>)
        whole == ReadBytes(header, "payload", header.fields.payloadSize)
        envelope == FinishDecode(whole)
    IN  IF ~header.ok \/ header.fields.payloadSize > kMaxNetworkPayloadBytes
        THEN Refused
        ELSE IF envelope # Refused /\ ValidateEnvelope(envelope) THEN
            [f \in DOMAIN envelope \ {"payloadSize"} |-> envelope[f]]
        ELSE Refused
=============================================================================
