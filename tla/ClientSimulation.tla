-------------------------- MODULE ClientSimulation --------------------------
(***************************************************************************)
(* A client's copy of the world.  The server's registry is cut to what the  *)
(* client may see (BuildSnapshot), ordered and capped (ReplicationPlanner), *)
(* sent over a channel that loses and reorders, and written over the        *)
(* client's registry (ApplySnapshot).  Between two snapshots the client     *)
(* ticks the same GameSimulation code as the server, in the mode            *)
(* ClientPrediction: on arrows, warmups and respawns of its copy.           *)
(*                                                                         *)
(* A position is its chunk on the map's x axis, and only the server's is    *)
(* kept: the client's own player is module Prediction's, the others are     *)
(* drawn by module ClientPresentation.  Whom an arrow comes close to is an  *)
(* input, as in module GameSimulation.  So is when a deadline passes: the   *)
(* client compares the server's deadlines with its own clock, which counts  *)
(* its own ticks and is not related to the server's.  A player is defeated  *)
(* when it has no health (GameSimulation, DefeatedIffNoHealth).             *)
(***************************************************************************)
EXTENDS Integers, Sequences, FiniteSets

CONSTANTS
    Local,        \* the client whose copy this is
    Other,        \* the other clients
    Chunk,        \* chunks the players walk through
    MaxHealth,    \* maxPlayerHealth
    Damage,       \* WeaponDefinition::damage
    Caps,         \* maxEntitiesPerSnapshot, 0 for none
    MaxMoves,     \* bound: moves from a chunk to another
    MaxId,        \* bound: network ids, hence arrows
    MaxInFlight   \* bound: snapshots in flight

Client == Other \cup {Local}
Nobody == 0       \* no client owns an arrow, no entity shot a player

ASSUME ClientSimulationAssumption ==
    /\ Client \subseteq Nat \ {0} /\ IsFiniteSet(Client) /\ Local \notin Other
    /\ Chunk \subseteq Nat /\ Caps \subseteq Nat
    /\ MaxHealth \in Nat \ {0} /\ Damage \in Nat \ {0}
    /\ MaxMoves \in Nat /\ MaxId \in Nat \ {0} /\ MaxInFlight \in Nat

VARIABLES
    cap,            \* the server's maxEntitiesPerSnapshot
    server,         \* the server's registry: [ids -> entity]
    chunk,          \* [ids of server -> Chunk]
    nextId,         \* the server's nextNetworkId_
    moves,          \* bound: moves made
    inFlight,       \* snapshots in flight, oldest first: [ids -> entity and chunk]
    registry,       \* the client's registry: [ids -> entity]
    predicted,      \* ids with PredictedTag; the others have InterpolatedTag
    playerByClient, \* the client's playerByClient_: [some clients -> ids]
    applied         \* the last snapshot applied, as a sequence of length 0 or 1

serverVars == <<cap, server, chunk, nextId, moves>>
clientVars == <<registry, predicted, playerByClient, applied>>
vars == <<serverVars, inFlight, clientVars>>

Entity == [kind : {"Player", "Projectile"}, owner : Client \cup {Nobody},
           shooter : Nat, health : 0..MaxHealth, warming : BOOLEAN]

NewPlayer(c) == [kind |-> "Player", owner |-> c, shooter |-> Nobody,
                 health |-> MaxHealth, warming |-> FALSE]
NewArrow(i) == [kind |-> "Projectile", owner |-> Nobody, shooter |-> i,
                health |-> 0, warming |-> FALSE]

Players(r) == {i \in DOMAIN r : r[i].kind = "Player"}
Arrows(r) == {i \in DOMAIN r : r[i].kind = "Projectile"}
Alive(r) == {i \in Players(r) : r[i].health > 0}
Warming(r) == {i \in Players(r) : r[i].warming}

(* The id the client's own simulation gives its player before any snapshot, *)
(* and the id the server gave it.                                           *)
ProvisionalId == 1
ServerId(c) == CHOOSE i \in Players(server) : server[i].owner = c
LoggedIn(c) == \E i \in Players(server) : server[i].owner = c

Init ==
    /\ cap \in Caps
    /\ server = << >> /\ chunk = << >> /\ nextId = 1 /\ moves = 0
    /\ inFlight = << >>
    /\ registry = [i \in {ProvisionalId} |-> NewPlayer(Local)]
    /\ predicted = {ProvisionalId}
    /\ playerByClient = [c \in {Local} |-> ProvisionalId]
    /\ applied = << >>

-----------------------------------------------------------------------------
(* TickFixed, the same code in both modes: fired start a warmup, done end   *)
(* theirs, each arrow a has a fate (it hits the player fate[a], flies on as *)
(* itself or is gone), up respawn.                                          *)
Fates(r) ==
    {fate \in [Arrows(r) -> Alive(r) \cup Arrows(r) \cup {Nobody}] :
        /\ \A a \in Arrows(r) : fate[a] \in {a, Nobody} \/
                                (fate[a] \in Alive(r) /\ fate[a] # r[a].shooter)
        /\ \A i \in Alive(r) : \* who is defeated is not hit again
              LET hits == Cardinality({a \in Arrows(r) : fate[a] = i}) IN
              hits > 0 => (hits - 1) * Damage < r[i].health}

(* Mutant: the health is not kept from falling below zero.                  *)
HealthAfterUnclamped(r, i, fate) ==
    r[i].health - Damage * Cardinality({a \in Arrows(r) : fate[a] = i})

HealthAfter(r, i, fate) ==
    LET hits == Cardinality({a \in Arrows(r) : fate[a] = i})
    IN  IF r[i].health > hits * Damage THEN r[i].health - hits * Damage ELSE 0

Ticked(r, fired, done, fate, up) ==
    [i \in Players(r) \cup {a \in Arrows(r) : fate[a] = a} |->
        CASE i \in Arrows(r) -> r[i]
          [] i \in up -> [r[i] EXCEPT !.health = MaxHealth, !.warming = FALSE]
          [] OTHER -> [r[i] EXCEPT
                !.health = HealthAfter(r, i, fate),
                !.warming = (@ \/ i \in fired) /\ i \in Alive(r) \ done]]

With(f, g) == [i \in DOMAIN f \cup DOMAIN g |-> IF i \in DOMAIN g THEN g[i] ELSE f[i]]

(* ProcessWeaponWarmups on the server: an arrow for each of done, in the    *)
(* order of the players.  It flies in the same tick.                        *)
RankIn(S, i) == Cardinality({j \in S : j < i})
Loosed(done) ==
    [n \in nextId..(nextId + Cardinality(done) - 1) |->
        CHOOSE i \in done : RankIn(done, i) = n - nextId]

WithLoosed(done) ==
    With(server, [n \in DOMAIN Loosed(done) |-> NewArrow(Loosed(done)[n])])

(* SpawnTransformForClient, in chunks: eight tiles make one.                *)
SpawnChunk(c) == (10 + (c % 20)) \div 8

(* Submit(LoginCommand) of a new client, with CreatePlayer.                 *)
Login(c) ==
    /\ ~LoggedIn(c)
    /\ nextId <= MaxId
    /\ server' = With(server, [i \in {nextId} |-> NewPlayer(c)])
    /\ chunk' = With(chunk, [i \in {nextId} |-> SpawnChunk(c)])
    /\ nextId' = nextId + 1
    /\ UNCHANGED <<cap, moves, inFlight, clientVars>>

(* One entity at a time moves, to a chunk next to its own; the defeated do  *)
(* not.                                                                     *)
Moved(i, to) ==
    /\ moves < MaxMoves
    /\ i \in Alive(server) \cup Arrows(server)
    /\ to - chunk[i] \in {-1, 1}

(* Bound: an id is left for each arrow to come and each login.              *)
IdsLeft(fired) ==
    nextId + Cardinality(Warming(server) \cup fired)
           + Cardinality({c \in Client : ~LoggedIn(c)}) <= MaxId + 1

(* shot is the registry with the arrows of done.                            *)
ServerTick(moved, fired, done, shot, fate, up) ==
    LET ticked == Ticked(shot, fired, done, fate, up)
        walked == With(chunk, moved)
    IN  /\ IdsLeft(fired)
        /\ server' = ticked
        /\ chunk' = [i \in DOMAIN ticked |->
               CASE i \in up -> SpawnChunk(ticked[i].owner)
                 [] i >= nextId -> walked[shot[i].shooter]
                 [] OTHER -> walked[i]]
        /\ nextId' = nextId + Cardinality(done)
        /\ moves' = moves + Cardinality(DOMAIN moved)
        /\ UNCHANGED <<cap, inFlight, clientVars>>

(* Every tick of the server from here: those who walk, fire, finish, hit    *)
(* and respawn are inputs.                                                  *)
Walks == {<< >>} \cup UNION {[{i} -> Chunk] : i \in DOMAIN server}
Walk(moved) == \A i \in DOMAIN moved : Moved(i, moved[i])

ServerTicks ==
    \E moved \in Walks : Walk(moved) /\
    \E fired \in SUBSET (Alive(server) \ Warming(server)),
       done \in SUBSET (Warming(server) \cap Alive(server)),
       up \in SUBSET (Players(server) \ Alive(server)) :
    \E shot \in {WithLoosed(done)} : \E fate \in Fates(shot) :
        ServerTick(moved, fired, done, shot, fate, up)

-----------------------------------------------------------------------------
InAreaOfInterest(a, b) == a - b \in -1..1

BuildSnapshot(c) ==
    [i \in {j \in DOMAIN server :
                \/ server[j].owner = c
                \/ InAreaOfInterest(chunk[ServerId(c)], chunk[j])} |->
        [entity |-> server[i], chunk |-> chunk[i]]]

(* PriorityForEntity: arrows, the observer's own and whoever warms up.      *)
High(c, e) == e.kind = "Projectile" \/ e.owner = c \/ e.warming

(* The planner's order: the observer's own, then by priority, then by id.   *)
Before(c, s, i, j) ==
    LET own(k) == s[k].entity.owner = c
        high(k) == High(c, s[k].entity)
    IN  \/ own(i) /\ ~own(j)
        \/ own(i) = own(j) /\ high(i) /\ ~high(j)
        \/ own(i) = own(j) /\ high(i) = high(j) /\ i < j

Plan(c, s) ==
    [i \in {j \in DOMAIN s :
                \/ cap = 0
                \/ Cardinality({k \in DOMAIN s : Before(c, s, k, j)}) < cap} |-> s[i]]

PlannedSnapshot(c) == Plan(c, BuildSnapshot(c))

(* A snapshot that does not fit is one that is lost.                        *)
SendSnapshot ==
    /\ LoggedIn(Local)
    /\ Len(inFlight) < MaxInFlight
    /\ inFlight' = Append(inFlight, PlannedSnapshot(Local))
    /\ UNCHANGED <<serverVars, clientVars>>

-----------------------------------------------------------------------------
(* PlanSnapshotDelta against the baseline the client acknowledged.          *)
(* Mutant: only where an entity is and whose it is tells it has changed.    *)
EquivalentButForCombat(a, b) ==
    a.chunk = b.chunk /\ a.entity.kind = b.entity.kind /\ a.entity.owner = b.entity.owner

EquivalentEntityState(a, b) == a = b

PlanSnapshotDelta(current, baseline) ==
    [i \in DOMAIN current \cup DOMAIN baseline |->
        CASE i \notin DOMAIN baseline -> "Added"
          [] i \notin DOMAIN current -> "Removed"
          [] OTHER -> IF EquivalentEntityState(current[i], baseline[i])
                      THEN "Unchanged" ELSE "Changed"]

-----------------------------------------------------------------------------
(* Mutants: the client's own go too; the index keeps who left.              *)
LeavingWithTheLocal(s) == DOMAIN registry \ DOMAIN s

Leaving(s) == {i \in DOMAIN registry \ DOMAIN s : registry[i].owner # Local}

IndexKeepingAll(s) ==
    LET seen == Players([i \in DOMAIN s |-> s[i].entity])
    IN  [c \in DOMAIN playerByClient \cup {s[i].entity.owner : i \in seen} |->
            IF \E i \in seen : s[i].entity.owner = c
            THEN CHOOSE i \in seen : s[i].entity.owner = c
            ELSE playerByClient[c]]

(* playerByClient_ takes the snapshot's players; then the players who leave *)
(* interest are erased from it by the client they have in the registry.     *)
Index(s) ==
    LET seen == Players([i \in DOMAIN s |-> s[i].entity])
        owners == {s[i].entity.owner : i \in seen}
        erased == {registry[i].owner : i \in Leaving(s) \cap Players(registry)}
    IN  [c \in (DOMAIN playerByClient \cup owners) \ erased |->
            IF c \in owners THEN CHOOSE i \in seen : s[i].entity.owner = c
                            ELSE playerByClient[c]]

(* Mutant: an entity the client knows keeps the health it has there.        *)
WrittenOnce(s, i) ==
    IF i \in DOMAIN s /\ i \in DOMAIN registry
    THEN [s[i].entity EXCEPT !.health = registry[i].health]
    ELSE IF i \in DOMAIN s THEN s[i].entity ELSE registry[i]

Written(s, i) == IF i \in DOMAIN s THEN s[i].entity ELSE registry[i]

(* ApplyServerSnapshot: ApplySnapshot, then the inputs the server has not   *)
(* acknowledged are replayed, and one of them may fire again.               *)
ApplySnapshot(s, refire) ==
    LET kept == DOMAIN registry \ Leaving(s)
        index == Index(s)
        own == {i \in DOMAIN s : s[i].entity.owner = Local /\ s[i].entity.kind = "Player"}
    IN  /\ registry' = [i \in kept \cup DOMAIN s |->
               LET e == Written(s, i)
                   replayed == refire /\ Local \in DOMAIN index /\ i = index[Local]
               IN  [e EXCEPT !.warming = @ \/ (replayed /\ e.health > 0)]]
        /\ predicted' = (predicted \cap (kept \ DOMAIN s)) \cup own
        /\ playerByClient' = index
        /\ applied' = <<s>>

PumpSnapshot(n) ==
    /\ n \in DOMAIN inFlight
    /\ \E refire \in BOOLEAN : ApplySnapshot(inFlight[n], refire)
    /\ inFlight' = [m \in 1..(Len(inFlight) - 1) |->
                        inFlight[IF m < n THEN m ELSE m + 1]]
    /\ UNCHANGED serverVars

(* Mutant: the client looses an arrow of its own when its warmup ends.      *)
TickSimulationLoosing(fired, done, fate, up) ==
    /\ registry' = LET ticked == Ticked(registry, fired, done, fate, up)
                   IN  With(ticked, [i \in {MaxId + 1 : d \in done} |-> NewArrow(1)])
    /\ predicted' = predicted \cap DOMAIN registry'
    /\ UNCHANGED <<playerByClient, applied, inFlight, serverVars>>

(* TickSimulation in the mode ClientPrediction: no arrow is created.        *)
TickSimulation(fired, done, fate, up) ==
    /\ registry' = Ticked(registry, fired, done, fate, up)
    /\ predicted' = predicted \cap DOMAIN registry'
    /\ UNCHANGED <<playerByClient, applied, inFlight, serverVars>>

ClientTicks ==
    \E fired \in SUBSET ({playerByClient[Local]} \cap (Alive(registry) \ Warming(registry))),
       done \in SUBSET (Warming(registry) \cap Alive(registry)),
       fate \in Fates(registry),
       up \in SUBSET (Players(registry) \ Alive(registry)) :
          TickSimulation(fired, done, fate, up)

Next ==
    \/ \E c \in Client : Login(c)
    \/ ServerTicks
    \/ SendSnapshot
    \/ \E n \in DOMAIN inFlight : PumpSnapshot(n)
    \/ ClientTicks

Spec == Init /\ [][Next]_vars

(* The clients log in.  Deadlines pass on the server: warmups end, arrows   *)
(* end and the defeated respawn.  Of the snapshots sent again and again not *)
(* all are lost, and one that is in flight arrives.                         *)
Fairness ==
    /\ \A c \in Client : WF_vars(Login(c))
    /\ WF_vars(\E done \in {Warming(server) \cap Alive(server)} :
               \E shot \in {WithLoosed(done)} : \E fate \in Fates(shot) :
                   ServerTick(<< >>, {}, done, shot, fate, {}))
    /\ WF_vars(ServerTick(<< >>, {}, {}, server, [a \in Arrows(server) |-> Nobody], {}))
    /\ WF_vars(ServerTick(<< >>, {}, {}, server, [a \in Arrows(server) |-> a],
                          Players(server) \ Alive(server)))
    /\ WF_vars(SendSnapshot)
    /\ WF_vars(PumpSnapshot(1))

FairSpec == Spec /\ Fairness

-----------------------------------------------------------------------------
(* Types; what is predicted is in the registry.                             *)
TypeOK ==
    /\ cap \in Caps
    /\ DOMAIN server \subseteq 1..MaxId /\ DOMAIN chunk = DOMAIN server
    /\ \A i \in DOMAIN server : server[i] \in Entity /\ chunk[i] \in Nat
    /\ nextId \in 1..(MaxId + 1) /\ moves \in 0..MaxMoves
    /\ Len(inFlight) <= MaxInFlight
    /\ \A i \in DOMAIN registry : registry[i] \in Entity
    /\ predicted \subseteq DOMAIN registry
    /\ DOMAIN playerByClient \subseteq Client

(* The client's index of players is exact, whatever snapshots it applied in *)
(* whatever order: each entry names that client's player in the registry,   *)
(* and every other client's player in the registry has its entry            *)
(* (ApplySnapshot erases the entry of a player who leaves interest).        *)
PlayerIndexIsExact ==
    /\ \A c \in DOMAIN playerByClient :
          /\ playerByClient[c] \in Players(registry)
          /\ registry[playerByClient[c]].owner = c
    /\ \A i \in Players(registry) : registry[i].owner # Local =>
          /\ registry[i].owner \in DOMAIN playerByClient
          /\ playerByClient[registry[i].owner] = i

(* From its first snapshot on the client predicts the player the server     *)
(* gave it, although its own simulation had named it 1, which may be        *)
(* another player's id on the server, and although the server cuts each     *)
(* snapshot to its interest and to a number of entities.                    *)
LocalPlayerIsTheServers ==
    applied # << >> =>
        /\ Local \in DOMAIN playerByClient
        /\ playerByClient[Local] = ServerId(Local)
        /\ ServerId(Local) \in predicted
        /\ \A i \in predicted : registry[i].owner = Local

(* Whatever the client's own ticks do, all that its registry holds is in    *)
(* the last snapshot it applied, but for the player it made before it knew  *)
(* its id: that one stays when the snapshots name the local player          *)
(* otherwise and nobody in sight has its id.                                *)
OnlyTheProvisionalPlayerLingers ==
    applied # << >> =>
        \A i \in DOMAIN registry \ DOMAIN applied[1] :
            i = ProvisionalId /\ registry[i].owner = Local

(* The delta plan of a snapshot says enough to make it from the baseline:   *)
(* what it calls unchanged may be taken from there (PlanSnapshotDelta).     *)
DeltaDescribesSnapshot ==
    \A n \in DOMAIN inFlight :
        LET current == PlannedSnapshot(Local)
            delta == PlanSnapshotDelta(current, inFlight[n])
        IN  current = [i \in {j \in DOMAIN delta : delta[j] # "Removed"} |->
                          IF delta[i] = "Unchanged" THEN inFlight[n][i]
                                                    ELSE current[i]]

(* The registry is what the server plans to show this client, but for the   *)
(* lingering provisional player and the local player's own warmup.          *)
Mirrors ==
    /\ LoggedIn(Local)
    /\ LET view == PlannedSnapshot(Local) IN
       /\ DOMAIN view \subseteq DOMAIN registry
       /\ \A i \in DOMAIN registry :
             IF i \in DOMAIN view
             THEN [registry[i] EXCEPT !.warming = @ /\ registry[i].owner # Local]
                    = [view[i].entity EXCEPT !.warming = @ /\ registry[i].owner # Local]
             ELSE i = ProvisionalId /\ registry[i].owner = Local

(* What the client invented, an arrow that hit, a player who died or rose,  *)
(* does not stay: when the game on the server comes to rest, the client's   *)
(* registry comes to mirror it and goes on doing so (ApplySnapshot).        *)
ClientMirrorsServer == <>[]Mirrors

(* "Clients never own arrows, hit detection, or combat truth": the health   *)
(* of a player on the client changes only when a snapshot is applied.       *)
ClientNeverOwnsCombat ==
    [][inFlight' = inFlight =>
          \A i \in DOMAIN registry \cap DOMAIN registry' :
              registry'[i].health = registry[i].health]_vars
=============================================================================
