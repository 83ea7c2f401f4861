---------------------------- MODULE Serialization ----------------------------
(***************************************************************************)
(* The payloads of the network protocol as bytes (Serialization.cpp), and   *)
(* the conversion of domain events to network events and back               *)
(* (NetworkEvents.cpp).  A message is a record with the DTO's fields; a     *)
(* header is flattened into its command.  What is written and what is read  *)
(* are stated separately, as in the code: that they agree is checked, not   *)
(* built in.                                                                *)
(***************************************************************************)
EXTENDS BinaryCodec

WeaponType == <<"None", "Bow">>
ReplicatedEntityKind == <<"Player", "Projectile">>
SnapshotPriority == <<"Low", "Medium", "High">>
SnapshotDeliveryKind == <<"Full", "DeltaEligible">>
NetworkEventKind ==
    <<"PlayerSpawned", "WeaponWarmupStarted", "BowFired", "ProjectileSpawned",
      "HitConfirmed", "PlayerDamaged", "PlayerDied", "PlayerRespawned",
      "EntityEnteredInterest", "EntityLeftInterest">>

(* The fields of the DTOs.  Byte, Word and Number stand for the integers of  *)
(* one, of two and of more bytes.                                           *)
Word == {n \in Nat : n < 256 * 256}

LoginCommand ==
    [clientId : Number, sequence : Number, clientTimestampMs : Number]
ClientInputPacket ==
    [clientId : Number, sequence : Number, clientTimestampMs : Number,
     moveX : Byte, moveY : Byte, aimX : Word, aimY : Word, fire : BOOLEAN]
TimeSyncRequest == [clientId : Number, sequence : Number, clientSentAtMs : Number]
TimeSyncResponse ==
    [clientId : Number, sequence : Number, clientSentAtMs : Number,
     serverReceivedAtMs : Number, serverSentAtMs : Number]
NetworkEventAckDTO ==
    [clientId : Number, eventId : Number, clientReceivedAtMs : Number]
SnapshotAckDTO ==
    [clientId : Number, snapshotId : Number, baselineId : Number,
     ackedInputSequence : Number, clientReceivedAtMs : Number]

(* The variant of event payloads; its index is the kind.                    *)
NetworkEventPayloadDTO ==
    [kind : {"PlayerSpawned"}, entityId : Number, clientId : Number,
     x : Number, y : Number]
      \cup [kind : {"WeaponWarmupStarted"}, entityId : Number, startedAtMs : Number,
            completesAtMs : Number, weaponType : Range(WeaponType)]
      \cup [kind : {"BowFired"}, entityId : Number, firedAtMs : Number,
            weaponType : Range(WeaponType)]
      \cup [kind : {"ProjectileSpawned"}, projectileId : Number, ownerId : Number,
            x : Number, y : Number, sourceWeapon : Range(WeaponType)]
      \cup [kind : {"HitConfirmed"}, attackerId : Number, targetId : Number,
            projectileId : Number, serverTimeMs : Number]
      \cup [kind : {"PlayerDamaged"}, entityId : Number, attackerId : Number,
            damage : Number, healthAfter : Number]
      \cup [kind : {"PlayerDied"}, entityId : Number, attackerId : Number,
            respawnAtMs : Number]
      \cup [kind : {"PlayerRespawned"}, entityId : Number, x : Number, y : Number]
      \cup [kind : {"EntityEnteredInterest", "EntityLeftInterest"}, entityId : Number,
            observerClientId : Number]
NetworkEventDTO ==
    [eventId : Number, serverTick : Number, serverTimeMs : Number,
     payload : NetworkEventPayloadDTO]

MovementStateDTO ==
    [entityId : Number, x : Number, y : Number, vx : Number, vy : Number,
     aimX : Word, aimY : Word]
CombatStateDTO ==
    [entityId : Number, health : Number, maxHealth : Number,
     weaponType : Range(WeaponType), weaponWarming : BOOLEAN,
     weaponWarmupCompletesAtMs : Number, defeated : BOOLEAN,
     respawnAtMs : Number, serverOwnedProjectile : BOOLEAN,
     projectileOwnerId : Number]
ReplicationStateDTO ==
    [entityId : Number, ownerClientId : Number,
     kind : Range(ReplicatedEntityKind), priority : Range(SnapshotPriority)]
EntityStateDTO ==
    {e \in [movement : MovementStateDTO, combat : Seq(CombatStateDTO),
            replication : ReplicationStateDTO] : Len(e.combat) <= 1}
SnapshotDTO ==
    {s \in [snapshotId : Number, baselineId : Number,
            deliveryKind : Range(SnapshotDeliveryKind), serverTick : Number,
            serverTimeMs : Number, ackedInputSequence : Number,
            entities : Seq(EntityStateDTO)] : Len(s.entities) \in Number}

-----------------------------------------------------------------------------
U8(n) == Pod(1, n)
U16(n) == Pod(2, n)
U32(n) == Pod(4, n)
U64(n) == Pod(8, n)

(* Lists of fields of one width, in reading order.                          *)
Fields(width, names) == [i \in DOMAIN names |-> PodField(names[i], width)]

-----------------------------------------------------------------------------
(* Commands, acknowledgements and time sync *)

SerializeLoginCommand(m) ==
    Concat(<<U32(m.clientId), U32(m.sequence), U64(m.clientTimestampMs)>>)

DeserializeLoginCommand(bytes) ==
    FinishDecode(ReadFields(Reader(bytes),
        Fields(4, <<"clientId", "sequence">>)
            \o Fields(8, <<"clientTimestampMs">>)))

SerializeClientInputPacket(m) ==
    Concat(<<U32(m.clientId), U32(m.sequence), U64(m.clientTimestampMs),
             U8(m.moveX), U8(m.moveY), U16(m.aimX), U16(m.aimY),
             WriteBool(m.fire)>>)

DeserializeClientInputPacket(bytes) ==
    FinishDecode(ReadFields(Reader(bytes),
        Fields(4, <<"clientId", "sequence">>)
            \o Fields(8, <<"clientTimestampMs">>)
            \o Fields(1, <<"moveX", "moveY">>) \o Fields(2, <<"aimX", "aimY">>)
            \o <<BoolField("fire")>>))

SerializeTimeSyncRequest(m) ==
    Concat(<<U32(m.clientId), U32(m.sequence), U64(m.clientSentAtMs)>>)

DeserializeTimeSyncRequest(bytes) ==
    FinishDecode(ReadFields(Reader(bytes),
        Fields(4, <<"clientId", "sequence">>) \o Fields(8, <<"clientSentAtMs">>)))

SerializeTimeSyncResponse(m) ==
    Concat(<<U32(m.clientId), U32(m.sequence), U64(m.clientSentAtMs),
             U64(m.serverReceivedAtMs), U64(m.serverSentAtMs)>>)

DeserializeTimeSyncResponse(bytes) ==
    FinishDecode(ReadFields(Reader(bytes),
        Fields(4, <<"clientId", "sequence">>)
            \o Fields(8, <<"clientSentAtMs", "serverReceivedAtMs",
                           "serverSentAtMs">>)))

SerializeNetworkEventAck(m) ==
    Concat(<<U32(m.clientId), U32(m.eventId), U64(m.clientReceivedAtMs)>>)

DeserializeNetworkEventAck(bytes) ==
    FinishDecode(ReadFields(Reader(bytes),
        Fields(4, <<"clientId", "eventId">>)
            \o Fields(8, <<"clientReceivedAtMs">>)))

SerializeSnapshotAck(m) ==
    Concat(<<U32(m.clientId), U32(m.snapshotId), U32(m.baselineId),
             U32(m.ackedInputSequence), U64(m.clientReceivedAtMs)>>)

(* Mutant: the two snapshot ids are read in the other order.                *)
DeserializeSnapshotAckSwapped(bytes) ==
    FinishDecode(ReadFields(Reader(bytes),
        Fields(4, <<"clientId", "baselineId", "snapshotId",
                    "ackedInputSequence">>)
            \o Fields(8, <<"clientReceivedAtMs">>)))

DeserializeSnapshotAck(bytes) ==
    FinishDecode(ReadFields(Reader(bytes),
        Fields(4, <<"clientId", "snapshotId", "baselineId",
                    "ackedInputSequence">>)
            \o Fields(8, <<"clientReceivedAtMs">>)))

-----------------------------------------------------------------------------
(* Network events.  A domain event is a record of its kind and its fields.  *)
(* PlayerMoved, SnapshotApplied and LocalPredictionCorrected have no DTO.   *)

ToNetworkEventDTO(eventId, serverTick, serverTimeMs, event) ==
    IF event.kind \in Range(NetworkEventKind)
    THEN [eventId |-> eventId, serverTick |-> serverTick,
          serverTimeMs |-> serverTimeMs, payload |-> event]
    ELSE Refused

ToDomainEvent(dto) == dto.payload

SerializeEventPayload(e) ==
    CASE e.kind = "PlayerSpawned" ->
           Concat(<<U32(e.entityId), U32(e.clientId), U32(e.x), U32(e.y)>>)
      [] e.kind = "WeaponWarmupStarted" ->
           Concat(<<U32(e.entityId), U64(e.startedAtMs), U64(e.completesAtMs),
                    WriteEnum(WeaponType, e.weaponType)>>)
      [] e.kind = "BowFired" ->
           Concat(<<U32(e.entityId), U64(e.firedAtMs),
                    WriteEnum(WeaponType, e.weaponType)>>)
      [] e.kind = "ProjectileSpawned" ->
           Concat(<<U32(e.projectileId), U32(e.ownerId), U32(e.x), U32(e.y),
                    WriteEnum(WeaponType, e.sourceWeapon)>>)
      [] e.kind = "HitConfirmed" ->
           Concat(<<U32(e.attackerId), U32(e.targetId), U32(e.projectileId),
                    U64(e.serverTimeMs)>>)
      [] e.kind = "PlayerDamaged" ->
           Concat(<<U32(e.entityId), U32(e.attackerId), U32(e.damage),
                    U32(e.healthAfter)>>)
      [] e.kind = "PlayerDied" ->
           Concat(<<U32(e.entityId), U32(e.attackerId), U64(e.respawnAtMs)>>)
      [] e.kind = "PlayerRespawned" ->
           Concat(<<U32(e.entityId), U32(e.x), U32(e.y)>>)
      [] e.kind \in {"EntityEnteredInterest", "EntityLeftInterest"} ->
           Concat(<<U32(e.entityId), U32(e.observerClientId)>>)

SerializeNetworkEvent(m) ==
    Concat(<<U32(m.eventId), U64(m.serverTick), U64(m.serverTimeMs)>>)
        \o WriteEnum(NetworkEventKind, m.payload.kind)
        \o SerializeEventPayload(m.payload)

EventFields(kind) ==
    CASE kind = "PlayerSpawned" -> Fields(4, <<"entityId", "clientId", "x", "y">>)
      [] kind = "WeaponWarmupStarted" ->
           Fields(4, <<"entityId">>) \o Fields(8, <<"startedAtMs", "completesAtMs">>)
             \o <<EnumField("weaponType", WeaponType)>>
      [] kind = "BowFired" ->
           Fields(4, <<"entityId">>) \o Fields(8, <<"firedAtMs">>)
             \o <<EnumField("weaponType", WeaponType)>>
      [] kind = "ProjectileSpawned" ->
           Fields(4, <<"projectileId", "ownerId", "x", "y">>)
             \o <<EnumField("sourceWeapon", WeaponType)>>
      [] kind = "HitConfirmed" ->
           Fields(4, <<"attackerId", "targetId", "projectileId">>)
             \o Fields(8, <<"serverTimeMs">>)
      [] kind = "PlayerDamaged" ->
           Fields(4, <<"entityId", "attackerId", "damage", "healthAfter">>)
      [] kind = "PlayerDied" ->
           Fields(4, <<"entityId", "attackerId">>) \o Fields(8, <<"respawnAtMs">>)
      [] kind = "PlayerRespawned" -> Fields(4, <<"entityId", "x", "y">>)
      [] kind \in {"EntityEnteredInterest", "EntityLeftInterest"} ->
           Fields(4, <<"entityId", "observerClientId">>)

DeserializeNetworkEvent(bytes) ==
    LET header == ReadFields(Reader(bytes),
                    Fields(4, <<"eventId">>) \o Fields(8, <<"serverTick", "serverTimeMs">>))
        kind == ReadFields(header, <<EnumField("kind", NetworkEventKind)>>)
        payload == ReadFields(kind, EventFields(kind.fields.kind))
        Whole == With(header.fields, "payload",
                      With(payload.fields, "kind", kind.fields.kind))
    IN  IF kind.ok THEN FinishDecode(Having(payload, Whole))
        ELSE Refused

-----------------------------------------------------------------------------
(* Snapshots.  An absent combat state is the empty sequence, one that is    *)
(* there a sequence of one.                                                 *)

WriteMovement(m) ==
    Concat(<<U32(m.entityId), U32(m.x), U32(m.y), U32(m.vx), U32(m.vy),
             U16(m.aimX), U16(m.aimY)>>)

WriteCombat(c) ==
    Concat(<<U32(c.entityId), U32(c.health), U32(c.maxHealth),
             WriteEnum(WeaponType, c.weaponType), WriteBool(c.weaponWarming),
             U64(c.weaponWarmupCompletesAtMs), WriteBool(c.defeated),
             U64(c.respawnAtMs), WriteBool(c.serverOwnedProjectile),
             U32(c.projectileOwnerId)>>)

WriteReplication(r) ==
    Concat(<<U32(r.entityId), U32(r.ownerClientId),
             WriteEnum(ReplicatedEntityKind, r.kind),
             WriteEnum(SnapshotPriority, r.priority)>>)

WriteEntity(e) ==
    WriteMovement(e.movement) \o WriteBool(e.combat # <<>>)
        \o (IF e.combat # <<>> THEN WriteCombat(e.combat[1]) ELSE <<>>)
        \o WriteReplication(e.replication)

SerializeSnapshot(s) ==
    Concat(<<U32(s.snapshotId), U32(s.baselineId),
             WriteEnum(SnapshotDeliveryKind, s.deliveryKind), U64(s.serverTick),
             U64(s.serverTimeMs), U32(s.ackedInputSequence)>>)
        \o U32(Len(s.entities))
        \o Concat([i \in DOMAIN s.entities |-> WriteEntity(s.entities[i])])

ReadMovement(r) ==
    ReadFields(r, Fields(4, <<"entityId", "x", "y", "vx", "vy">>)
                    \o Fields(2, <<"aimX", "aimY">>))

ReadCombat(r) ==
    ReadFields(r, Fields(4, <<"entityId", "health", "maxHealth">>)
        \o <<EnumField("weaponType", WeaponType), BoolField("weaponWarming"),
             PodField("weaponWarmupCompletesAtMs", 8), BoolField("defeated"),
             PodField("respawnAtMs", 8), BoolField("serverOwnedProjectile"),
             PodField("projectileOwnerId", 4)>>)

ReadReplication(r) ==
    ReadFields(r, Fields(4, <<"entityId", "ownerClientId">>)
        \o <<EnumField("kind", ReplicatedEntityKind),
             EnumField("priority", SnapshotPriority)>>)

(* Reads one more entity; r.fields holds the entities read before.          *)
ReadEntity(r) ==
    LET movement == ReadMovement(r)
        has == ReadFields(movement, <<BoolField("hasCombat")>>)
        combat == IF has.ok /\ has.fields.hasCombat THEN ReadCombat(has) ELSE has
        replication == ReadReplication(combat)
    IN  IF ~replication.ok THEN Fail(r)
        ELSE Having(replication, Append(r.fields,
                [movement |-> movement.fields,
                 combat |-> IF has.fields.hasCombat THEN <<combat.fields>> ELSE <<>>,
                 replication |-> replication.fields]))

kMinSerializedEntityBytes == 4 + 4 * 4 + 2 * 2 + 1 + 4 + 4 + 2

(* The number of entities is limited by the bytes left before it is read,   *)
(* its own four included.                                                   *)
DeserializeSnapshot(bytes) ==
    LET header == ReadFields(Reader(bytes),
            Fields(4, <<"snapshotId", "baselineId">>)
              \o <<EnumField("deliveryKind", SnapshotDeliveryKind)>>
              \o Fields(8, <<"serverTick", "serverTimeMs">>)
              \o Fields(4, <<"ackedInputSequence">>))
        count == ReadFields(header, Fields(4, <<"entityCount">>))
        n == count.fields.entityCount
        read[i \in 0..n] == IF i = 0 THEN Having(count, <<>>)
                            ELSE ReadEntity(read[i - 1])
        list == read[n]
    IN  IF ~count.ok \/ n > Len(header.rest) \div kMinSerializedEntityBytes
        THEN Refused
        ELSE FinishDecode(Having(list, With(header.fields, "entities", list.fields)))
=============================================================================
