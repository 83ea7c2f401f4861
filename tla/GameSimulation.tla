--------------------------- MODULE GameSimulation ---------------------------
(***************************************************************************)
(* GameSimulation on the server (SimulationMode::ServerAuthoritative):      *)
(* players, weapons, projectiles, damage and respawn.  TickFixed is split   *)
(* into the steps of its loops, in the order the code takes them (variable  *)
(* phase).  Positions are abstracted: whether a projectile leaves the map   *)
(* and whom it comes close to is an input.  Deadlines (respawnAtMs,         *)
(* warmupCompletesAtMs, expiresAtMs) are counted down in ticks.             *)
(***************************************************************************)
EXTENDS Integers, FiniteSets, Sequences

CONSTANTS
    Client,          \* client ids; a client has one player
    MaxPlayers,
    MaxHealth,       \* maxPlayerHealth
    Damage,          \* WeaponDefinition::damage
    Warmup,          \* warmupMs, in ticks
    Lifetime,        \* projectileLifetimeMs, in ticks
    RespawnDelay,    \* respawnDelayMs, in ticks
    MaxSequence      \* bound: input sequence numbers, hence shots

ASSUME SimulationAssumption ==
    /\ MaxPlayers \in Nat
    /\ MaxHealth \in Nat \ {0}
    /\ Damage \in Nat
    /\ Warmup \in Nat
    /\ Lifetime \in Nat
    /\ RespawnDelay \in Nat
    /\ MaxSequence \in Nat

VARIABLES
    players,      \* clients with a player (playerByClient_)
    lastAccepted, \* [Client -> lastAcceptedSequence_]
    inputs,       \* pendingInputs_
    health,       \* [Client -> PlayerComponent::health]
    defeated,     \* [Client -> BOOLEAN]
    respawnIn,    \* [Client -> ticks to respawnAtMs]
    warming,      \* [Client -> BOOLEAN]
    warmupLeft,   \* [Client -> ticks to warmupCompletesAtMs]
    projectiles,  \* set of [id, owner, life]
    nextId,       \* nextNetworkId_
    phase,        \* which loop of TickFixed is running
    todo,         \* what that loop has not visited yet
    warmupLife,   \* history: [Client -> the warmup began in this life]
    deaths        \* history: [Client -> PlayerDied less PlayerRespawned]

vars == <<players, lastAccepted, inputs, health, defeated, respawnIn, warming,
          warmupLeft, projectiles, nextId, phase, todo, warmupLife, deaths>>

combatVars == <<health, defeated, respawnIn, warming, warmupLeft, projectiles,
                nextId, warmupLife, deaths>>

Projectile == [id : Nat \ {0}, owner : Client, life : 0..Lifetime]
Input == [client : Client, sequence : Nat \ {0}, fire : BOOLEAN]

(* Types of the simulation's registries and of the step of TickFixed.       *)
TypeOK ==
    /\ players \subseteq Client
    /\ lastAccepted \in [Client -> Nat]
    /\ inputs \in Seq(Input)
    /\ health \in [Client -> 0..MaxHealth]
    /\ defeated \in [Client -> BOOLEAN]
    /\ respawnIn \in [Client -> 0..RespawnDelay]
    /\ warming \in [Client -> BOOLEAN]
    /\ warmupLeft \in [Client -> 0..Warmup]
    /\ projectiles \subseteq Projectile
    /\ nextId \in Nat \ {0}
    /\ phase \in {"idle", "warmups", "projectiles", "respawns"}
    /\ \/ phase \in {"idle", "respawns"} /\ todo = {}
       \/ phase = "warmups" /\ todo \subseteq players
       \/ phase = "projectiles" /\ todo \subseteq projectiles
    /\ warmupLife \in [Client -> BOOLEAN]
    /\ deaths \in [Client -> Int]

Init ==
    /\ players = {}
    /\ lastAccepted = [c \in Client |-> 0]
    /\ inputs = <<>>
    /\ health = [c \in Client |-> MaxHealth]
    /\ defeated = [c \in Client |-> FALSE]
    /\ respawnIn = [c \in Client |-> 0]
    /\ warming = [c \in Client |-> FALSE]
    /\ warmupLeft = [c \in Client |-> 0]
    /\ projectiles = {}
    /\ nextId = 1
    /\ phase = "idle"
    /\ todo = {}
    /\ warmupLife = [c \in Client |-> FALSE]
    /\ deaths = [c \in Client |-> 0]

-----------------------------------------------------------------------------
(* A known client's login is accepted and changes nothing; a new one is     *)
(* refused when the server is full.  CreatePlayer's full health and idle    *)
(* weapon are what Init gives a client that has no player yet.              *)
SubmitLogin(c) ==
    /\ phase = "idle"
    /\ c \notin players
    /\ Cardinality(players) < MaxPlayers
    /\ players' = players \cup {c}
    /\ lastAccepted' = [lastAccepted EXCEPT ![c] = 0]
    /\ nextId' = nextId + 1
    /\ UNCHANGED <<inputs, health, defeated, respawnIn, warming, warmupLeft,
                   projectiles, phase, todo, warmupLife, deaths>>

(* Refused from an unknown client and when it is not newer than the last.   *)
SubmitInput(c, n, fire) ==
    /\ phase = "idle"
    /\ c \in players
    /\ n > lastAccepted[c]
    /\ lastAccepted' = [lastAccepted EXCEPT ![c] = n]
    /\ inputs' = Append(inputs, [client |-> c, sequence |-> n, fire |-> fire])
    /\ UNCHANGED <<players, phase, todo, combatVars>>

-----------------------------------------------------------------------------
(* Mutant: a deadline that has passed is counted on.                        *)
ElapsedPastZero(ticks) == ticks - 1

Elapsed(ticks) == IF ticks = 0 THEN 0 ELSE ticks - 1

(* ApplyInputToEntity: an input of a defeated player is dropped; a fire     *)
(* starts a warmup unless one is running.                                   *)
StartsWarmup(c) ==
    /\ ~defeated[c]
    /\ ~warming[c]
    /\ \E i \in 1..Len(inputs) : inputs[i].client = c /\ inputs[i].fire

(* TickFixed up to ProcessInputs: the clock advances, the queued inputs are *)
(* applied and dropped.                                                     *)
ProcessInputs ==
    /\ phase = "idle"
    /\ inputs' = <<>>
    /\ respawnIn' = [c \in Client |-> Elapsed(respawnIn[c])]
    /\ warming' = [c \in Client |-> warming[c] \/ StartsWarmup(c)]
    /\ warmupLeft' = [c \in Client |-> IF StartsWarmup(c) THEN Warmup
                                       ELSE Elapsed(warmupLeft[c])]
    /\ warmupLife' = [c \in Client |-> warmupLife[c] \/ StartsWarmup(c)]
    /\ projectiles' = {[q EXCEPT !.life = Elapsed(@)] : q \in projectiles}
    /\ phase' = "warmups"
    /\ todo' = players
    /\ UNCHANGED <<players, lastAccepted, health, defeated, nextId, deaths>>

(* ProcessWeaponWarmups for one player: CreateProjectile when it finishes.  *)
CancelWarmup(c) ==
    /\ defeated[c]
    /\ warming' = [warming EXCEPT ![c] = FALSE]
    /\ UNCHANGED <<projectiles, nextId>>

(* Mutant: the warmup is not complete at its deadline.                      *)
KeepWarmingAtDeadline(c) ==
    /\ ~defeated[c]
    /\ ~warming[c] \/ warmupLeft[c] >= 0
    /\ UNCHANGED <<warming, projectiles, nextId>>

KeepWarming(c) ==
    /\ ~defeated[c]
    /\ ~warming[c] \/ warmupLeft[c] > 0
    /\ UNCHANGED <<warming, projectiles, nextId>>

(* Mutants: a defeated player's warmup ends in an arrow; arrows share ids.  *)
FinishDefeatedWarmup(c) ==
    /\ warming[c] /\ warmupLeft[c] = 0
    /\ warming' = [warming EXCEPT ![c] = FALSE]
    /\ projectiles' = projectiles \cup
            {[id |-> nextId, owner |-> c, life |-> Lifetime]}
    /\ nextId' = nextId + 1

FinishWarmupSharingIds(c) ==
    /\ ~defeated[c]
    /\ warming[c] /\ warmupLeft[c] = 0
    /\ warming' = [warming EXCEPT ![c] = FALSE]
    /\ projectiles' = projectiles \cup
            {[id |-> nextId, owner |-> c, life |-> Lifetime]}
    /\ UNCHANGED nextId

FinishWarmup(c) ==
    /\ ~defeated[c]
    /\ warming[c] /\ warmupLeft[c] = 0
    /\ warming' = [warming EXCEPT ![c] = FALSE]
    /\ projectiles' = projectiles \cup
            {[id |-> nextId, owner |-> c, life |-> Lifetime]}
    /\ nextId' = nextId + 1

ProcessWeaponWarmup(c) ==
    /\ phase = "warmups"
    /\ c \in todo
    /\ CancelWarmup(c) \/ KeepWarming(c) \/ FinishWarmup(c)
    /\ todo' = todo \ {c}
    /\ UNCHANGED <<players, lastAccepted, inputs, health, defeated, respawnIn,
                   warmupLeft, phase, warmupLife, deaths>>

EndWarmups ==
    /\ phase = "warmups" /\ todo = {}
    /\ phase' = "projectiles"
    /\ todo' = projectiles
    /\ UNCHANGED <<players, lastAccepted, inputs, combatVars>>

-----------------------------------------------------------------------------
(* ProcessProjectiles for one projectile, which has moved: it is gone when  *)
(* its time is up or it left the map, it hits the first player close to it  *)
(* who is neither its owner nor defeated, or it flies on.                   *)
ProjectileGone(q) ==
    /\ projectiles' = projectiles \ {q}
    /\ UNCHANGED <<health, defeated, respawnIn, warmupLife, deaths>>

ProjectileFlies(q) ==
    /\ q.life > 0
    /\ UNCHANGED <<projectiles, health, defeated, respawnIn, warmupLife, deaths>>

HealthAfter(c) == IF health[c] > Damage THEN health[c] - Damage ELSE 0

(* Mutant: a defeated player can be hit, and die, again.                    *)
ProjectileHitsDefeated(q, c) ==
    /\ q.life > 0
    /\ c # q.owner
    /\ health' = [health EXCEPT ![c] = HealthAfter(c)]
    /\ IF HealthAfter(c) = 0
       THEN /\ defeated' = [defeated EXCEPT ![c] = TRUE]
            /\ respawnIn' = [respawnIn EXCEPT ![c] = RespawnDelay]
            /\ warmupLife' = [warmupLife EXCEPT ![c] = FALSE]
            /\ deaths' = [deaths EXCEPT ![c] = @ + 1]
       ELSE UNCHANGED <<defeated, respawnIn, warmupLife, deaths>>
    /\ projectiles' = projectiles \ {q}

ProjectileHits(q, c) ==
    /\ q.life > 0
    /\ c # q.owner
    /\ ~defeated[c]
    /\ health' = [health EXCEPT ![c] = HealthAfter(c)]
    /\ IF HealthAfter(c) = 0
       THEN /\ defeated' = [defeated EXCEPT ![c] = TRUE]
            /\ respawnIn' = [respawnIn EXCEPT ![c] = RespawnDelay]
            /\ warmupLife' = [warmupLife EXCEPT ![c] = FALSE]
            /\ deaths' = [deaths EXCEPT ![c] = @ + 1]
       ELSE UNCHANGED <<defeated, respawnIn, warmupLife, deaths>>
    /\ projectiles' = projectiles \ {q}

ProcessProjectile(q) ==
    /\ phase = "projectiles"
    /\ q \in todo
    /\ ProjectileGone(q) \/ ProjectileFlies(q)
                         \/ \E c \in players : ProjectileHits(q, c)
    /\ todo' = todo \ {q}
    /\ UNCHANGED <<players, lastAccepted, inputs, warming, warmupLeft, nextId,
                   phase>>

EndProjectiles ==
    /\ phase = "projectiles" /\ todo = {}
    /\ phase' = "respawns"
    /\ UNCHANGED <<players, lastAccepted, inputs, todo, combatVars>>

-----------------------------------------------------------------------------
(* Mutant: players without health are skipped, as the other loops skip them. *)
RespawnsLiving(c) ==
    c \in players /\ defeated[c] /\ respawnIn[c] = 0 /\ health[c] > 0

Respawns(c) == c \in players /\ defeated[c] /\ respawnIn[c] = 0

ProcessRespawns ==
    /\ phase = "respawns"
    /\ health' = [c \in Client |-> IF Respawns(c) THEN MaxHealth ELSE health[c]]
    /\ defeated' = [c \in Client |-> defeated[c] /\ ~Respawns(c)]
    /\ warming' = [c \in Client |-> warming[c] /\ ~Respawns(c)]
    /\ warmupLeft' = [c \in Client |-> IF Respawns(c) THEN 0 ELSE warmupLeft[c]]
    /\ deaths' = [c \in Client |-> IF Respawns(c) THEN deaths[c] - 1
                                                  ELSE deaths[c]]
    /\ phase' = "idle"
    /\ UNCHANGED <<players, lastAccepted, inputs, respawnIn, projectiles,
                   nextId, todo, warmupLife>>

TickFixed ==
    \/ ProcessInputs
    \/ \E c \in Client : ProcessWeaponWarmup(c)
    \/ EndWarmups
    \/ \E q \in projectiles : ProcessProjectile(q)
    \/ EndProjectiles
    \/ ProcessRespawns

Commands ==
    \E c \in Client : \/ SubmitLogin(c)
                      \/ \E n \in 1..MaxSequence, fire \in BOOLEAN :
                            SubmitInput(c, n, fire)

Next == Commands \/ TickFixed

Spec == Init /\ [][Next]_vars

(* The server's loop keeps ticking and each of its loops ends.              *)
FairSpec == Spec /\ WF_vars(TickFixed)

-----------------------------------------------------------------------------
(* A player is defeated exactly when its health is used up, whatever the    *)
(* order in which several arrows of one tick reach it and whenever it       *)
(* respawns (ProcessProjectiles, ProcessRespawns).                          *)
DefeatedIffNoHealth == \A c \in Client : defeated[c] <=> health[c] = 0

(* PlayerDied and PlayerRespawned alternate for each player: a player hit   *)
(* by two arrows in one tick dies once.                                     *)
DeathsMatchDefeats ==
    \A c \in Client : deaths[c] = IF defeated[c] THEN 1 ELSE 0

(* A warmup that is still running began in the player's present life; one   *)
(* that death has overtaken belongs to a player who is still defeated.      *)
WarmupOfThisLife == \A c \in Client : warming[c] => warmupLife[c] \/ defeated[c]

(* The life of a player is consistent: health, the defeated flag, the       *)
(* PlayerDied and PlayerRespawned events and the warmup agree.              *)
LifeInv == DefeatedIffNoHealth /\ DeathsMatchDefeats /\ WarmupOfThisLife

(* The arrow that this step adds for player c, if it adds one.              *)
NewArrow(c) ==
    {q \in projectiles' : q.owner = c /\ q.id = nextId /\ nextId' > nextId}

(* An arrow appears only for a living player who began its warmup in this   *)
(* life: death cancels the warmup (ProcessWeaponWarmups, ProcessRespawns).  *)
ArrowsComeFromThisLife ==
    [][\A c \in Client : NewArrow(c) # {} => ~defeated[c] /\ warmupLife[c]]_vars

(* Network ids are never reused: each arrow on the map has its own.         *)
ArrowIdsAreFresh ==
    /\ \A q \in projectiles : q.id < nextId
    /\ \A q, r \in projectiles : q.id = r.id => q = r

(* A defeated player respawns (ProcessRespawns), however many arrows are in *)
(* the air.                                                                 *)
DefeatedPlayerRespawns == \A c \in Client : defeated[c] ~> ~defeated[c]

(* A warmup ends: in an arrow, or cancelled by death or respawn.            *)
WarmupEnds == \A c \in Client : warming[c] ~> ~warming[c]
=============================================================================
