------------------------ MODULE GameSimulationProofs ------------------------
(***************************************************************************)
(* Proofs about GameSimulation, for any set of clients and any weapon and   *)
(* respawn settings: type correctness, the consistency of a player's life,  *)
(* the freshness of network ids, and that arrows come from living players.  *)
(***************************************************************************)
EXTENDS GameSimulation, TLAPS

(* A countdown stays within its bound.                                      *)
LEMMA ElapsedType ==
    ASSUME NEW bound \in Nat, NEW t \in 0..bound
    PROVE  Elapsed(t) \in 0..bound
  BY DEF Elapsed

(* Health after a hit stays within its bound.                               *)
LEMMA HealthAfterType ==
    ASSUME TypeOK, NEW c \in Client
    PROVE  HealthAfter(c) \in 0..MaxHealth
  BY SimulationAssumption DEF HealthAfter, TypeOK

(* Projectiles keep their type when their time runs down.                   *)
LEMMA AgedProjectileType ==
    ASSUME NEW q \in Projectile
    PROVE  [q EXCEPT !.life = Elapsed(@)] \in Projectile
  <1>1. Elapsed(q.life) \in 0..Lifetime
    BY ElapsedType, SimulationAssumption DEF Projectile
  <1> QED BY <1>1 DEF Projectile

(* The values Init gives have the types TypeOK states.                      *)
LEMMA TypeInit == Init => TypeOK
  BY SimulationAssumption DEF Init, TypeOK, Projectile, Input

(* Every step of the simulation keeps the types.                            *)
LEMMA TypeStep == TypeOK /\ [Next]_vars => TypeOK'
  <1> SUFFICES ASSUME TypeOK, [Next]_vars PROVE TypeOK'
    OBVIOUS
  <1> USE SimulationAssumption
  <1>1. ASSUME NEW c \in Client, SubmitLogin(c) PROVE TypeOK'
    BY <1>1 DEF SubmitLogin, TypeOK
  <1>2. ASSUME NEW c \in Client, NEW n \in 1..MaxSequence, NEW fire \in BOOLEAN,
               SubmitInput(c, n, fire)
        PROVE  TypeOK'
    <2>1. [client |-> c, sequence |-> n, fire |-> fire] \in Input
      BY DEF Input
    <2>2. inputs' \in Seq(Input)
      BY <1>2, <2>1 DEF SubmitInput, TypeOK
    <2> QED BY <1>2, <2>2 DEF SubmitInput, TypeOK, combatVars
  <1>3. CASE ProcessInputs
    <2>1. respawnIn' \in [Client -> 0..RespawnDelay]
      BY <1>3, ElapsedType DEF ProcessInputs, TypeOK
    <2>2. warmupLeft' \in [Client -> 0..Warmup]
      BY <1>3, ElapsedType DEF ProcessInputs, TypeOK
    <2>3. projectiles' \subseteq Projectile
      BY <1>3, AgedProjectileType DEF ProcessInputs, TypeOK
    <2>4. warming' \in [Client -> BOOLEAN] /\ warmupLife' \in [Client -> BOOLEAN]
      <3>1. \A c \in Client : StartsWarmup(c) \in BOOLEAN
        BY DEF StartsWarmup
      <3> QED BY <1>3, <3>1 DEF ProcessInputs, TypeOK
    <2>5. inputs' \in Seq(Input)
      BY <1>3 DEF ProcessInputs
    <2> QED BY <1>3, <2>1, <2>2, <2>3, <2>4, <2>5 DEF ProcessInputs, TypeOK
  <1>4. ASSUME NEW c \in Client, ProcessWeaponWarmup(c) PROVE TypeOK'
    <2> USE <1>4 DEF ProcessWeaponWarmup
    <2>1. CASE CancelWarmup(c)
      BY <2>1 DEF CancelWarmup, TypeOK
    <2>2. CASE KeepWarming(c)
      BY <2>2 DEF KeepWarming, TypeOK
    <2>3. CASE FinishWarmup(c)
      <3>1. [id |-> nextId, owner |-> c, life |-> Lifetime] \in Projectile
        BY DEF Projectile, TypeOK
      <3>2. /\ projectiles' = projectiles \cup {[id |-> nextId, owner |-> c, life |-> Lifetime]}
            /\ nextId' = nextId + 1
            /\ warming' = [warming EXCEPT ![c] = FALSE]
        BY <2>3 DEF FinishWarmup
      <3>3. warming' \in [Client -> BOOLEAN]
        BY <3>2, Zenon DEF TypeOK
      <3>4. projectiles' \subseteq Projectile /\ nextId' \in Nat \ {0}
        BY <3>1, <3>2 DEF TypeOK
      <3>5. /\ phase' = "warmups" /\ todo' \subseteq players'
        BY DEF TypeOK
      <3> HIDE DEF ProcessWeaponWarmup
      <3>6. UNCHANGED <<players, lastAccepted, inputs, health, defeated, respawnIn,
                        warmupLeft, warmupLife, deaths>>
        BY <1>4 DEF ProcessWeaponWarmup
      <3> QED BY <3>3, <3>4, <3>5, <3>6 DEF TypeOK
    <2> QED BY <2>1, <2>2, <2>3
  <1>5. CASE EndWarmups
    BY <1>5 DEF EndWarmups, TypeOK, combatVars
  <1>6. ASSUME NEW q \in projectiles, ProcessProjectile(q) PROVE TypeOK'
    <2> USE <1>6 DEF ProcessProjectile
    <2>1. CASE ProjectileGone(q)
      BY <2>1 DEF ProjectileGone, TypeOK
    <2>2. CASE ProjectileFlies(q)
      BY <2>2 DEF ProjectileFlies, TypeOK
    <2>3. ASSUME NEW c \in players, ProjectileHits(q, c) PROVE TypeOK'
      <3>1. c \in Client /\ HealthAfter(c) \in 0..MaxHealth
        BY HealthAfterType DEF TypeOK
      <3>2. health' \in [Client -> 0..MaxHealth]
        BY <2>3, <3>1 DEF ProjectileHits, TypeOK
      <3>3. CASE HealthAfter(c) = 0
        <4>1. /\ defeated' \in [Client -> BOOLEAN]
              /\ warmupLife' \in [Client -> BOOLEAN]
          <5>1. /\ defeated' = [defeated EXCEPT ![c] = TRUE]
                /\ warmupLife' = [warmupLife EXCEPT ![c] = FALSE]
            BY <2>3, <3>3 DEF ProjectileHits
          <5>2. defeated \in [Client -> BOOLEAN] /\ warmupLife \in [Client -> BOOLEAN]
            BY DEF TypeOK
          <5> QED BY <5>1, <5>2, Zenon
        <4>2. /\ respawnIn' \in [Client -> 0..RespawnDelay]
              /\ deaths' \in [Client -> Int]
          <5>1. /\ respawnIn' = [respawnIn EXCEPT ![c] = RespawnDelay]
                /\ deaths' = [deaths EXCEPT ![c] = deaths[c] + 1]
            BY <2>3, <3>3 DEF ProjectileHits
          <5>2. RespawnDelay \in 0..RespawnDelay /\ deaths[c] + 1 \in Int
            BY <3>1 DEF TypeOK
          <5> QED BY <3>1, <5>1, <5>2 DEF TypeOK
        <4> QED BY <2>3, <3>1, <3>2, <4>1, <4>2 DEF ProjectileHits, TypeOK
      <3>4. CASE HealthAfter(c) # 0
        BY <2>3, <3>1, <3>2, <3>4 DEF ProjectileHits, TypeOK
      <3> QED BY <3>3, <3>4
    <2> QED BY <2>1, <2>2, <2>3
  <1>7. CASE EndProjectiles
    BY <1>7 DEF EndProjectiles, TypeOK, combatVars
  <1>8. CASE ProcessRespawns
    BY <1>8 DEF ProcessRespawns, TypeOK
  <1>9. CASE UNCHANGED vars
    BY <1>9 DEF vars, TypeOK
  <1> QED BY <1>1, <1>2, <1>3, <1>4, <1>5, <1>6, <1>7, <1>8, <1>9
      DEF Next, Commands, TickFixed

(* Every variable of the simulation keeps its type, for any settings.       *)
THEOREM TypeCorrect == Spec => []TypeOK
  <1>1. Init => TypeOK BY TypeInit
  <1>2. TypeOK /\ [Next]_vars => TypeOK' BY TypeStep
  <1> QED BY <1>1, <1>2, PTL DEF Spec

-----------------------------------------------------------------------------
(* Init gives every client full health and no warmup.                       *)
LEMMA LifeInit == Init => LifeInv
  BY SimulationAssumption
  DEF Init, LifeInv, DefeatedIffNoHealth, DeathsMatchDefeats, WarmupOfThisLife

(* Hits, respawns and warmups keep a player's life consistent.              *)
LEMMA LifeStep == TypeOK /\ LifeInv /\ [Next]_vars => LifeInv'
  <1> SUFFICES ASSUME TypeOK, LifeInv, [Next]_vars PROVE LifeInv'
    OBVIOUS
  <1> USE DEF LifeInv, DefeatedIffNoHealth, DeathsMatchDefeats,
              WarmupOfThisLife, TypeOK
  <1>1. ASSUME NEW c \in Client, SubmitLogin(c) PROVE LifeInv'
    BY <1>1 DEF SubmitLogin
  <1>2. ASSUME NEW c \in Client, NEW n \in 1..MaxSequence, NEW fire \in BOOLEAN,
               SubmitInput(c, n, fire)
        PROVE  LifeInv'
    BY <1>2 DEF SubmitInput, combatVars
  <1>3. CASE ProcessInputs
    <2>1. \A c \in Client : warming'[c] => warmupLife'[c] \/ defeated'[c]
      BY <1>3 DEF ProcessInputs
    <2> QED BY <1>3, <2>1 DEF ProcessInputs
  <1>4. ASSUME NEW c \in Client, ProcessWeaponWarmup(c) PROVE LifeInv'
    <2>1. \A d \in Client : warming'[d] => warming[d]
      BY <1>4 DEF ProcessWeaponWarmup, CancelWarmup, KeepWarming, FinishWarmup
    <2> QED BY <1>4, <2>1 DEF ProcessWeaponWarmup
  <1>5. CASE EndWarmups
    BY <1>5 DEF EndWarmups, combatVars
  <1>6. ASSUME NEW q \in projectiles, ProcessProjectile(q) PROVE LifeInv'
    <2> USE <1>6 DEF ProcessProjectile
    <2>1. CASE ProjectileGone(q)
      BY <2>1 DEF ProjectileGone
    <2>2. CASE ProjectileFlies(q)
      BY <2>2 DEF ProjectileFlies
    <2>3. ASSUME NEW c \in players, ProjectileHits(q, c) PROVE LifeInv'
      <3>1. CASE HealthAfter(c) = 0
        <4>1. /\ health'[c] = 0 /\ defeated'[c] /\ deaths'[c] = 1
              /\ \A d \in Client \ {c} :
                    /\ health'[d] = health[d] /\ defeated'[d] = defeated[d]
                    /\ deaths'[d] = deaths[d] /\ warmupLife'[d] = warmupLife[d]
          BY <2>3, <3>1 DEF ProjectileHits
        <4>2. warming' = warming
          OBVIOUS
        <4>3. ASSUME NEW d \in Client
              PROVE  /\ defeated'[d] <=> health'[d] = 0
                     /\ deaths'[d] = IF defeated'[d] THEN 1 ELSE 0
                     /\ warming'[d] => warmupLife'[d] \/ defeated'[d]
          <5>1. CASE d = c
            BY <4>1, <5>1
          <5>2. CASE d # c
            BY <4>1, <4>2, <5>2
          <5> QED BY <5>1, <5>2
        <4> QED BY <4>3
      <3>2. CASE HealthAfter(c) # 0
        BY <2>3, <3>2 DEF ProjectileHits
      <3> QED BY <3>1, <3>2
    <2> QED BY <2>1, <2>2, <2>3
  <1>7. CASE EndProjectiles
    BY <1>7 DEF EndProjectiles, combatVars
  <1>8. CASE ProcessRespawns
    <2>1. ASSUME NEW c \in Client
          PROVE  /\ defeated'[c] <=> health'[c] = 0
                 /\ deaths'[c] = IF defeated'[c] THEN 1 ELSE 0
                 /\ warming'[c] => warmupLife'[c] \/ defeated'[c]
      <3>1. CASE Respawns(c)
        <4>1. /\ health'[c] = MaxHealth /\ ~defeated'[c] /\ ~warming'[c]
              /\ deaths'[c] = deaths[c] - 1
          BY <1>8, <3>1 DEF ProcessRespawns
        <4>2. deaths[c] = 1
          BY <3>1 DEF Respawns
        <4> QED BY <4>1, <4>2, SimulationAssumption
      <3>2. CASE ~Respawns(c)
        BY <1>8, <3>2 DEF ProcessRespawns
      <3> QED BY <3>1, <3>2
    <2> QED BY <2>1
  <1>9. CASE UNCHANGED vars
    BY <1>9 DEF vars
  <1> QED BY <1>1, <1>2, <1>3, <1>4, <1>5, <1>6, <1>7, <1>8, <1>9
      DEF Next, Commands, TickFixed

(* Health, defeat, death and respawn events and warmups always agree.       *)
THEOREM LifeCorrect == Spec => []LifeInv
  <1>1. Init => LifeInv BY LifeInit
  <1>2. TypeOK /\ LifeInv /\ [Next]_vars => LifeInv' BY LifeStep
  <1> QED BY <1>1, <1>2, TypeCorrect, PTL DEF Spec
-----------------------------------------------------------------------------
(* A step keeps, removes or ages the arrows, or adds one under nextId.      *)
LEMMA FreshStep == TypeOK /\ ArrowIdsAreFresh /\ [Next]_vars => ArrowIdsAreFresh'
  <1> SUFFICES ASSUME TypeOK, ArrowIdsAreFresh, [Next]_vars
               PROVE  ArrowIdsAreFresh'
    OBVIOUS
  <1>t. nextId \in Nat /\ \A q \in projectiles : q.id \in Nat
    BY DEF TypeOK, Projectile
  <1>1. CASE projectiles' \subseteq projectiles /\ nextId' \in {nextId, nextId + 1}
    BY <1>1, <1>t DEF ArrowIdsAreFresh
  <1>2. CASE ProcessInputs
    <2>1. \A q \in projectiles :
            [q EXCEPT !.life = Elapsed(@)].id = q.id
      BY DEF TypeOK, Projectile
    <2>2. nextId' = nextId
      BY <1>2 DEF ProcessInputs
    <2>3. \A q \in projectiles' : \E r \in projectiles :
             q = [r EXCEPT !.life = Elapsed(@)]
      BY <1>2 DEF ProcessInputs
    <2>4. \A q \in projectiles' : q.id < nextId'
      BY <2>1, <2>2, <2>3 DEF ArrowIdsAreFresh
    <2>5. ASSUME NEW q \in projectiles', NEW r \in projectiles', q.id = r.id
          PROVE  q = r
      <3>1. PICK q0 \in projectiles : q = [q0 EXCEPT !.life = Elapsed(@)]
        BY <2>3
      <3>2. PICK r0 \in projectiles : r = [r0 EXCEPT !.life = Elapsed(@)]
        BY <2>3
      <3>3. q0.id = r0.id
        BY <2>1, <2>5, <3>1, <3>2
      <3> QED BY <3>1, <3>2, <3>3 DEF ArrowIdsAreFresh
    <2> QED BY <2>4, <2>5 DEF ArrowIdsAreFresh
  <1>3. ASSUME NEW c \in Client, FinishWarmup(c) PROVE ArrowIdsAreFresh'
    <2>1. \A q \in projectiles' : q \in projectiles \/ q.id = nextId
      BY <1>3 DEF FinishWarmup
    <2>2. \A q, r \in projectiles' \ projectiles : q = r
      BY <1>3 DEF FinishWarmup
    <2>3. nextId' = nextId + 1
      BY <1>3 DEF FinishWarmup
    <2>4. \A q \in projectiles' : q.id < nextId'
      BY <1>t, <2>1, <2>3 DEF ArrowIdsAreFresh
    <2>5. ASSUME NEW q \in projectiles', NEW r \in projectiles', q.id = r.id
          PROVE  q = r
      BY <1>t, <2>1, <2>2, <2>5 DEF ArrowIdsAreFresh
    <2> QED BY <2>4, <2>5 DEF ArrowIdsAreFresh
  <1>4. \/ projectiles' \subseteq projectiles /\ nextId' \in {nextId, nextId + 1}
        \/ ProcessInputs
        \/ \E c \in Client : FinishWarmup(c)
    <2>1. ASSUME NEW c \in Client, NEW n \in 1..MaxSequence, NEW fire \in BOOLEAN,
                 SubmitLogin(c) \/ SubmitInput(c, n, fire)
          PROVE  projectiles' \subseteq projectiles /\ nextId' \in {nextId, nextId + 1}
      BY <2>1 DEF SubmitLogin, SubmitInput, combatVars
    <2>2. ASSUME NEW c \in Client, ProcessWeaponWarmup(c), ~FinishWarmup(c)
          PROVE  projectiles' \subseteq projectiles /\ nextId' \in {nextId, nextId + 1}
      BY <2>2 DEF ProcessWeaponWarmup, CancelWarmup, KeepWarming
    <2>3. ASSUME NEW q \in projectiles, ProcessProjectile(q)
          PROVE  projectiles' \subseteq projectiles /\ nextId' \in {nextId, nextId + 1}
      BY <2>3 DEF ProcessProjectile, ProjectileGone, ProjectileFlies, ProjectileHits
    <2>4. ASSUME EndWarmups \/ EndProjectiles \/ ProcessRespawns \/ UNCHANGED vars
          PROVE  projectiles' \subseteq projectiles /\ nextId' \in {nextId, nextId + 1}
      BY <2>4 DEF EndWarmups, EndProjectiles, ProcessRespawns, combatVars, vars
    <2>5. ASSUME NEW c \in Client, SubmitLogin(c)
          PROVE  projectiles' \subseteq projectiles /\ nextId' \in {nextId, nextId + 1}
      BY <2>5 DEF SubmitLogin
    <2> QED BY <2>1, <2>2, <2>3, <2>4, <2>5 DEF Next, Commands, TickFixed
  <1> QED BY <1>1, <1>2, <1>3, <1>4

(* Network ids are never handed out twice.                                  *)
THEOREM FreshIds == Spec => []ArrowIdsAreFresh
  <1>1. Init => ArrowIdsAreFresh
    BY DEF Init, ArrowIdsAreFresh
  <1> QED BY <1>1, FreshStep, TypeCorrect, PTL DEF Spec

-----------------------------------------------------------------------------
(* The only step that adds an arrow is FinishWarmup, of a living player.    *)
LEMMA NewArrowStep ==
    ASSUME TypeOK, LifeInv, ArrowIdsAreFresh, [Next]_vars,
           NEW c \in Client, NewArrow(c) # {}
    PROVE  ~defeated[c] /\ warmupLife[c]
  <1> PICK q \in projectiles' : q.owner = c /\ q.id = nextId /\ nextId' > nextId
    BY DEF NewArrow
  <1>t. nextId \in Nat /\ \A r \in projectiles : r.id \in Nat /\ r.id < nextId
    BY DEF TypeOK, Projectile, ArrowIdsAreFresh
  <1>1. q \notin projectiles
    BY <1>t
  <1>2. ASSUME NEW d \in Client, ProcessWeaponWarmup(d) PROVE ~defeated[c] /\ warmupLife[c]
    <2>1. FinishWarmup(d)
      BY <1>1, <1>2 DEF ProcessWeaponWarmup, CancelWarmup, KeepWarming
    <2>2. q = [id |-> nextId, owner |-> d, life |-> Lifetime]
      BY <1>1, <2>1 DEF FinishWarmup
    <2>3. d = c
      BY <2>2
    <2> QED BY <2>1, <2>3 DEF FinishWarmup, LifeInv, WarmupOfThisLife
  <1>3. ASSUME NEW d \in Client, SubmitLogin(d) PROVE FALSE
    BY <1>1, <1>3 DEF SubmitLogin
  <1>4. ASSUME nextId' = nextId PROVE FALSE
    BY <1>t, <1>4
  <1>5. ASSUME NEW d \in Client, NEW n \in 1..MaxSequence, NEW fire \in BOOLEAN,
               SubmitInput(d, n, fire)
        PROVE  FALSE
    BY <1>4, <1>5 DEF SubmitInput, combatVars
  <1>6. ASSUME NEW r \in projectiles, ProcessProjectile(r) PROVE FALSE
    BY <1>4, <1>6 DEF ProcessProjectile
  <1>7. ASSUME ProcessInputs \/ EndWarmups \/ EndProjectiles \/ ProcessRespawns
                 \/ UNCHANGED vars
        PROVE  FALSE
    BY <1>4, <1>7 DEF ProcessInputs, EndWarmups, EndProjectiles, ProcessRespawns,
                      combatVars, vars
  <1> QED BY <1>2, <1>3, <1>5, <1>6, <1>7 DEF Next, Commands, TickFixed

(* An arrow appears only for a living player's warmup of its present life.  *)
THEOREM ArrowsCorrect == Spec => ArrowsComeFromThisLife
  <1>1. TypeOK /\ LifeInv /\ ArrowIdsAreFresh /\ [Next]_vars =>
          [\A c \in Client : NewArrow(c) # {} => ~defeated[c] /\ warmupLife[c]]_vars
    BY NewArrowStep
  <1> QED BY <1>1, TypeCorrect, LifeCorrect, FreshIds, PTL
      DEF Spec, ArrowsComeFromThisLife
=============================================================================
