----------------------------- MODULE MCTransport -----------------------------
(* Scripts for Transport: between them, every message class and every kind  *)
(* of network event, with fields that all differ.                           *)
EXTENDS Transport

Of(class, message) == [class |-> class, message |-> message]

Login(c) == Of("LoginRequest", [clientId |-> c, sequence |-> 11, clientTimestampMs |-> 300])
Input(c) == Of("ClientInput", [clientId |-> c, sequence |-> 12, clientTimestampMs |-> 316,
                 moveX |-> 1, moveY |-> 2, aimX |-> 1000, aimY |-> 5, fire |-> TRUE])
SnapshotAck(c) == Of("SnapshotAck", [clientId |-> c, snapshotId |-> 31, baselineId |-> 30,
                       ackedInputSequence |-> 12, clientReceivedAtMs |-> 400])
EventAck(c) == Of("NetworkEventAck", [clientId |-> c, eventId |-> 41, clientReceivedAtMs |-> 401])
SyncRequest(c) == Of("TimeSyncRequest", [clientId |-> c, sequence |-> 13, clientSentAtMs |-> 402])
SyncResponse(c) == Of("TimeSyncResponse", [clientId |-> c, sequence |-> 13, clientSentAtMs |-> 402,
                        serverReceivedAtMs |-> 70000, serverSentAtMs |-> 70016])

Event(id, e) ==
    Of(MessageClassForEvent(e), ToNetworkEventDTO(id, 500, 8000, e))

Movement(n) == [entityId |-> n, x |-> 3000, y |-> 4000, vx |-> 6, vy |-> 7,
                aimX |-> 1000, aimY |-> 8]
Combat(n) == [entityId |-> n, health |-> 75, maxHealth |-> 100, weaponType |-> "Bow",
              weaponWarming |-> TRUE, weaponWarmupCompletesAtMs |-> 8100,
              defeated |-> FALSE, respawnAtMs |-> 0, serverOwnedProjectile |-> FALSE,
              projectileOwnerId |-> 0]
EntityOf(n, combat, kind, priority) ==
    [movement |-> Movement(n), combat |-> combat,
     replication |-> [entityId |-> n, ownerClientId |-> 1, kind |-> kind, priority |-> priority]]
SnapshotOf(id, entities) ==
    Of("Snapshot", [snapshotId |-> id, baselineId |-> 30, deliveryKind |-> "DeltaEligible",
         serverTick |-> 501, serverTimeMs |-> 8016, ackedInputSequence |-> 12,
         entities |-> entities])

PlayerEntity(n) == EntityOf(n, <<Combat(n)>>, "Player", "High")
Arrow == EntityOf(4, <<>>, "Projectile", "Low")

(* One snapshot has three entities and more bytes than the limit.           *)
FromServer(c) ==
  { << SnapshotOf(31, <<PlayerEntity(1), Arrow>>), SyncResponse(c),
       SnapshotOf(32, <<PlayerEntity(1), PlayerEntity(2), Arrow>>) >>,
    << Event(41, [kind |-> "PlayerSpawned", entityId |-> 1, clientId |-> c, x |-> 8, y |-> 9]),
       Event(42, [kind |-> "WeaponWarmupStarted", entityId |-> 1, startedAtMs |-> 7000,
                  completesAtMs |-> 7500, weaponType |-> "Bow"]),
       Event(43, [kind |-> "BowFired", entityId |-> 1, firedAtMs |-> 7501, weaponType |-> "Bow"]) >>,
    << Event(44, [kind |-> "ProjectileSpawned", projectileId |-> 4, ownerId |-> 1, x |-> 8,
                  y |-> 9, sourceWeapon |-> "Bow"]),
       Event(45, [kind |-> "HitConfirmed", attackerId |-> 1, targetId |-> 2,
                  projectileId |-> 4, serverTimeMs |-> 7900]),
       Event(46, [kind |-> "PlayerDamaged", entityId |-> 2, attackerId |-> 1, damage |-> 25,
                  healthAfter |-> 75]) >>,
    << Event(47, [kind |-> "PlayerDied", entityId |-> 2, attackerId |-> 1, respawnAtMs |-> 9000]),
       Event(48, [kind |-> "PlayerRespawned", entityId |-> 2, x |-> 8, y |-> 9]),
       Event(49, [kind |-> "EntityEnteredInterest", entityId |-> 2, observerClientId |-> c]) >>,
    << Event(50, [kind |-> "EntityLeftInterest", entityId |-> 2, observerClientId |-> c]) >> }

FromClient(c, s) ==
    IF Len(s) = 1 THEN <<Login(c), SyncRequest(c), EventAck(c)>>
    ELSE IF s[1].class = "Snapshot" THEN <<Input(c), SnapshotAck(c)>>
    ELSE <<Input(c), EventAck(c)>>

MCScript ==
    {[d \in Direction |->
        IF d[1] = Server
        THEN [k \in 1..(IF d[2] = 1 THEN Len(s) ELSE 1) |-> s[k]]
        ELSE [k \in 1..(IF d[1] = 1 THEN Len(FromClient(1, s)) ELSE 1) |-> FromClient(d[1], s)[k]]] :
       s \in FromServer(1)}
=============================================================================
