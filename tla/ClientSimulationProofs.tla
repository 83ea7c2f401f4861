----------------------- MODULE ClientSimulationProofs -----------------------
(***************************************************************************)
(* Proofs about ClientSimulation, for every set of clients, map, cap on a   *)
(* snapshot's entities and bound.                                           *)
(***************************************************************************)
EXTENDS ClientSimulation, FiniteSetTheorems, TLAPS

(***************************************************************************)
(* The inductive invariant.  What an id stands for on the server, a player  *)
(* of a client or an arrow, never changes, and a player is never removed:   *)
(* so snapshots of whatever age agree on it.                                *)
(***************************************************************************)

(* Players belong to a client and arrows to nobody.                         *)
Shaped(e) ==
    /\ e \in Entity
    /\ e.kind = "Player" => e.owner \in Client
    /\ e.kind = "Projectile" => e.owner = Nobody

Same(e, f) == e.kind = f.kind /\ e.owner = f.owner

OnePlayerEach(r) == \A i, j \in Players(r) : r[i].owner = r[j].owner => i = j

(* The server's registry: fresh ids, and one player to a client.            *)
ServerSound ==
    /\ nextId \in 1..(MaxId + 1)
    /\ DOMAIN server \subseteq 1..(nextId - 1)
    /\ \A i \in DOMAIN server : Shaped(server[i])
    /\ OnePlayerEach(server)
    /\ DOMAIN chunk = DOMAIN server
    /\ \A i \in DOMAIN server : chunk[i] \in Nat
    /\ cap \in Caps /\ moves \in 0..MaxMoves

View == UNION {[D -> [entity : Entity, chunk : Nat]] : D \in SUBSET (1..MaxId)}

(* A snapshot agrees with a server's registry r on what its ids stand for,  *)
(* its players are still there, and the local player is one of them.        *)
SnapshotSound(s, r, next) ==
    /\ s \in View
    /\ \A i \in DOMAIN s :
          /\ i < next
          /\ Shaped(s[i].entity)
          /\ s[i].entity.kind = "Player" => i \in DOMAIN r
          /\ i \in DOMAIN r => Same(s[i].entity, r[i])
    /\ \E i \in DOMAIN s : s[i].entity.kind = "Player" /\ s[i].entity.owner = Local

ChannelSound ==
    /\ inFlight \in Seq(View) /\ Len(inFlight) <= MaxInFlight
    /\ \A n \in 1..Len(inFlight) : SnapshotSound(inFlight[n], server, nextId)
    /\ \/ applied = << >>
       \/ applied = <<applied[1]>> /\ SnapshotSound(applied[1], server, nextId)

(* The client's registry holds what the last snapshot holds, and the player *)
(* it made itself.                                                          *)
RegistrySound ==
    /\ DOMAIN registry \subseteq 1..MaxId
    /\ \A i \in DOMAIN registry :
          /\ Shaped(registry[i])
          /\ \/ /\ i = ProvisionalId
                /\ registry[i].kind = "Player" /\ registry[i].owner = Local
             \/ /\ applied # << >> /\ i \in DOMAIN applied[1]
                /\ Same(registry[i], applied[1][i].entity)
    /\ predicted \subseteq DOMAIN registry
    /\ \A i \in predicted : registry[i].owner = Local
    /\ DOMAIN playerByClient \subseteq Client
    /\ PlayerIndexIsExact
    /\ LocalPlayerIsTheServers

CopyInv == ServerSound /\ ChannelSound /\ RegistrySound

-----------------------------------------------------------------------------
(***************************************************************************)
(* What a tick does to a registry.                                          *)
(***************************************************************************)
LEMMA IdsAreFinite ==
    ASSUME NEW S, S \subseteq 1..MaxId
    PROVE  IsFiniteSet(S) /\ Cardinality(S) \in Nat
<1>1. IsFiniteSet(1..MaxId)
  BY FS_Interval, ClientSimulationAssumption
<1> QED
  BY <1>1, FS_Subset, FS_CardinalityType

(* Damage keeps health between zero and the most.                           *)
LEMMA HealthAfterType ==
    ASSUME NEW r, DOMAIN r \subseteq 1..MaxId, NEW i, NEW fate,
           r[i].health \in 0..MaxHealth
    PROVE  HealthAfter(r, i, fate) \in 0..MaxHealth
<1> DEFINE hit == {a \in Arrows(r) : fate[a] = i}
<1>1. hit \subseteq 1..MaxId
  BY DEF Arrows
<1>2. PICK hits \in Nat : hits = Cardinality(hit)
  BY <1>1, IdsAreFinite
<1>3. PICK loss \in Nat : loss = hits * Damage
  <2>1. Damage \in Nat
    BY ClientSimulationAssumption
  <2>2. hits * Damage \in Nat
    BY <1>2, <2>1
  <2> QED
    BY <2>2
<1>4. HealthAfter(r, i, fate) = IF r[i].health > loss THEN r[i].health - loss ELSE 0
  BY <1>2, <1>3 DEF HealthAfter
<1> QED
  BY <1>3, <1>4, ClientSimulationAssumption

(* TickFixed removes no player and changes neither kind nor owner.          *)
LEMMA TickedShape ==
    ASSUME NEW r, DOMAIN r \subseteq 1..MaxId, \A i \in DOMAIN r : Shaped(r[i]),
           NEW fired, NEW done, NEW fate, NEW up, up \subseteq Players(r),
           NEW t, t = Ticked(r, fired, done, fate, up)
    PROVE  /\ Players(r) \subseteq DOMAIN t /\ DOMAIN t \subseteq DOMAIN r
           /\ \A i \in DOMAIN t : Shaped(t[i]) /\ Same(t[i], r[i])
<1>1. DOMAIN t = Players(r) \cup {a \in Arrows(r) : fate[a] = a}
  BY DEF Ticked
<1>2. Players(r) \subseteq DOMAIN r /\ Arrows(r) \subseteq DOMAIN r
  BY DEF Players, Arrows
<1>3. ASSUME NEW i \in DOMAIN t PROVE Shaped(t[i]) /\ Same(t[i], r[i])
  <2>1. i \in DOMAIN r /\ r[i] \in Entity /\ Shaped(r[i])
    BY <1>1, <1>2 DEF Shaped
  <2>2. CASE i \in Arrows(r)
    <3>1. i \notin up
      BY <2>2 DEF Arrows, Players
    <3>2. t[i] = r[i]
      BY <1>1, <1>3, <2>2, <3>1 DEF Ticked
    <3> QED
      BY <2>1, <3>2 DEF Same
  <2>3. CASE i \notin Arrows(r) /\ i \in up
    <3>1. t[i] = [r[i] EXCEPT !.health = MaxHealth, !.warming = FALSE]
      BY <1>1, <1>3, <2>3 DEF Ticked
    <3>2. PICK h \in 0..MaxHealth : h = MaxHealth
      BY ClientSimulationAssumption
    <3>3. t[i] \in Entity /\ t[i].kind = r[i].kind /\ t[i].owner = r[i].owner
      BY <2>1, <3>1, <3>2 DEF Entity
    <3> QED
      BY <2>1, <3>3 DEF Shaped, Same
  <2>4. CASE i \notin Arrows(r) /\ i \notin up
    <3> DEFINE h == HealthAfter(r, i, fate)
               w == (r[i].warming \/ i \in fired) /\ i \in Alive(r) \ done
    <3>1. t[i] = [r[i] EXCEPT !.health = h, !.warming = w]
      BY <1>1, <1>3, <2>4 DEF Ticked
    <3>2. h \in 0..MaxHealth
      BY <2>1, HealthAfterType DEF Entity
    <3>3. w \in BOOLEAN
      OBVIOUS
    <3> HIDE DEF h, w
    <3>4. t[i] \in Entity /\ t[i].kind = r[i].kind /\ t[i].owner = r[i].owner
      BY <2>1, <3>1, <3>2, <3>3 DEF Entity
    <3> QED
      BY <2>1, <3>4 DEF Shaped, Same
  <2> QED
    BY <2>2, <2>3, <2>4
<1> QED
  BY <1>1, <1>2, <1>3

(* A set of ids has one of each rank.                                       *)
LEMMA RankOnto ==
    ASSUME NEW S, S \subseteq 1..MaxId, NEW k \in 0..(Cardinality(S) - 1)
    PROVE  \E i \in S : RankIn(S, i) = k
<1> DEFINE T == 0..(Cardinality(S) - 1)
           below(i) == {j \in S : j < i}
           f == [i \in S |-> RankIn(S, i)]
<1>1. IsFiniteSet(S) /\ Cardinality(S) \in Nat
  BY IdsAreFinite
<1>2. \A i \in S : i \in Int
  BY ClientSimulationAssumption
<1>3. ASSUME NEW i \in S
      PROVE  /\ IsFiniteSet(below(i)) /\ RankIn(S, i) \in Nat
             /\ RankIn(S, i) = Cardinality(below(i)) /\ RankIn(S, i) < Cardinality(S)
  <2>1. below(i) \in SUBSET S /\ below(i) # S
    BY <1>2
  <2>2. RankIn(S, i) = Cardinality(below(i))
    BY DEF RankIn
  <2> HIDE DEF below
  <2>3. /\ IsFiniteSet(below(i)) /\ Cardinality(below(i)) \in Nat
        /\ Cardinality(below(i)) <= Cardinality(S) /\ Cardinality(S) # Cardinality(below(i))
    BY <1>1, <2>1, FS_Subset, FS_CardinalityType
  <2> QED
    BY <1>1, <2>2, <2>3
<1>4. ASSUME NEW i \in S, NEW j \in S, i < j PROVE RankIn(S, i) # RankIn(S, j)
  <2>1. \A a \in S : a < i => a < j
    BY <1>2, <1>4
  <2>2. below(i) \in SUBSET below(j)
    BY <2>1
  <2>3. i \in below(j) /\ i \notin below(i)
    BY <1>2, <1>4
  <2> HIDE DEF below
  <2>4. Cardinality(below(i)) # Cardinality(below(j))
    BY <1>3, <2>2, <2>3, FS_Subset
  <2> QED
    BY <1>3, <2>4
<1>5. f \in Injection(S, T)
  <2>1. ASSUME NEW i \in S PROVE RankIn(S, i) \in T
    <3>1. RankIn(S, i) \in Nat /\ RankIn(S, i) < Cardinality(S)
      BY <1>3, <2>1
    <3> QED
      BY <1>1, <3>1
  <2>2. \A i, j \in S : f[i] = f[j] => i = j
    BY <1>2, <1>4
  <2>3. f \in [S -> T]
    BY <2>1
  <2> QED
    BY <2>2, <2>3 DEF Injection, IsInjective
<1>6. IsFiniteSet(T) /\ Cardinality(T) = Cardinality(S)
  BY <1>1, FS_Interval
<1>7. f \in Surjection(S, T)
  <2> HIDE DEF f, T
  <2> QED
    BY <1>5, <1>6, FS_Injection
<1> QED
  BY <1>7 DEF Surjection

-----------------------------------------------------------------------------
(***************************************************************************)
(* The server's steps.                                                      *)
(***************************************************************************)

(* What every step of the server keeps of its registry.                     *)
ServerGrows ==
    /\ nextId <= nextId'
    /\ \A i \in DOMAIN server : server[i].kind = "Player" => i \in DOMAIN server'
    /\ \A i \in DOMAIN server' : i < nextId => i \in DOMAIN server /\ Same(server'[i], server[i])

LEMMA SpawnChunkType ==
    ASSUME NEW c \in Client
    PROVE  SpawnChunk(c) \in Nat
<1>1. c \in Nat
  BY ClientSimulationAssumption
<1>2. PICK x \in Nat : x = 10 + (c % 20)
  BY <1>1
<1> QED
  BY <1>2 DEF SpawnChunk

LEMMA LoginStep ==
    ASSUME ServerSound, NEW c \in Client, Login(c)
    PROVE  ServerSound' /\ ServerGrows
<1> USE ClientSimulationAssumption
<1>1. /\ ~LoggedIn(c) /\ nextId <= MaxId /\ nextId' = nextId + 1
      /\ server' = With(server, [i \in {nextId} |-> NewPlayer(c)])
      /\ chunk' = With(chunk, [i \in {nextId} |-> SpawnChunk(c)])
      /\ cap' = cap /\ moves' = moves
  BY DEF Login
<1>2. /\ nextId \in 1..MaxId /\ nextId' \in 1..(MaxId + 1) /\ nextId <= nextId'
      /\ nextId' - 1 = nextId /\ \A i \in DOMAIN server : i \in 1..(nextId - 1)
  BY <1>1 DEF ServerSound
<1>3. nextId \notin DOMAIN server
  BY <1>2
<1>4. /\ DOMAIN server' = DOMAIN server \cup {nextId}
      /\ server'[nextId] = NewPlayer(c)
      /\ \A i \in DOMAIN server : server'[i] = server[i]
  BY <1>1, <1>3 DEF With
<1>5. /\ DOMAIN chunk' = DOMAIN server \cup {nextId}
      /\ chunk'[nextId] = SpawnChunk(c)
      /\ \A i \in DOMAIN server : chunk'[i] = chunk[i]
  BY <1>1, <1>3 DEF With, ServerSound
<1>6. /\ Shaped(NewPlayer(c)) /\ NewPlayer(c).kind = "Player"
      /\ NewPlayer(c).owner = c
  BY DEF Shaped, NewPlayer, Entity, Nobody
<1>7. DOMAIN server' \subseteq 1..(nextId' - 1)
  BY <1>2, <1>4
<1>8. \A i \in DOMAIN server' : Shaped(server'[i]) /\ chunk'[i] \in Nat
  BY <1>4, <1>5, <1>6, SpawnChunkType DEF ServerSound
<1>9. OnePlayerEach(server')
  <2>1. \A i \in Players(server') : i = nextId \/ i \in Players(server)
    BY <1>4 DEF Players
  <2>2. \A i \in Players(server) : i \in DOMAIN server /\ server[i].owner # c
    BY <1>1 DEF Players, LoggedIn
  <2> QED
    BY <1>4, <1>6, <2>1, <2>2 DEF ServerSound, OnePlayerEach
<1>10. ServerSound'
  BY <1>1, <1>2, <1>4, <1>5, <1>7, <1>8, <1>9 DEF ServerSound
<1>11. ServerGrows
  BY <1>2, <1>4 DEF ServerGrows, Same
<1> QED
  BY <1>10, <1>11

(* The ids of the arrows loosed.                                            *)
NewIds(done) == nextId..(nextId + Cardinality(done) - 1)

(* The server's registry with the arrows of those whose warmup is done.     *)
ServerWithArrows(shot, done) ==
    /\ DOMAIN shot = DOMAIN server \cup NewIds(done)
    /\ DOMAIN shot \subseteq 1..MaxId
    /\ \A i \in DOMAIN server : shot[i] = server[i]
    /\ \A i \in DOMAIN shot \ DOMAIN server :
          shot[i].kind = "Projectile" /\ shot[i].shooter \in done
    /\ \A i \in DOMAIN shot : Shaped(shot[i])
    /\ Players(shot) = Players(server)

LEMMA WithLoosedShape ==
    ASSUME ServerSound, NEW done, done \subseteq DOMAIN server,
           nextId + Cardinality(done) <= MaxId + 1,
           NEW shot, shot = WithLoosed(done)
    PROVE  ServerWithArrows(shot, done)
<1> USE ClientSimulationAssumption
<1> DEFINE k == Cardinality(done)
           new == nextId..(nextId + k - 1)
<1>1. done \subseteq 1..MaxId /\ nextId \in 1..(MaxId + 1)
      /\ \A i \in DOMAIN server : i \in 1..(nextId - 1)
  BY DEF ServerSound
<1>2. k \in Nat
  BY <1>1, IdsAreFinite
<1> HIDE DEF k
<1>3. new \subseteq 1..MaxId /\ \A i \in DOMAIN server : i \in 1..MaxId /\ i \notin new
  BY <1>1, <1>2 DEF k
<1>4. ASSUME NEW n \in new PROVE Loosed(done)[n] \in done
  <2>1. n - nextId \in 0..(k - 1)
    BY <1>1, <1>2, <1>4
  <2>2. \E i \in done : RankIn(done, i) = n - nextId
    BY <1>1, <2>1, RankOnto DEF k
  <2>3. Loosed(done)[n] = CHOOSE i \in done : RankIn(done, i) = n - nextId
    BY <1>4 DEF Loosed, k
  <2> QED
    BY <2>2, <2>3
<1>5. DOMAIN Loosed(done) = new
  BY DEF Loosed, k
<1>6. /\ DOMAIN shot = DOMAIN server \cup new
      /\ \A i \in DOMAIN server : shot[i] = server[i]
      /\ \A i \in new : shot[i] = NewArrow(Loosed(done)[i])
  <2> DEFINE g == [n \in DOMAIN Loosed(done) |-> NewArrow(Loosed(done)[n])]
  <2>1. shot = With(server, g)
    BY DEF WithLoosed
  <2>2. DOMAIN g = new /\ \A n \in new : g[n] = NewArrow(Loosed(done)[n])
    BY <1>5
  <2> HIDE DEF g, new
  <2> QED
    BY <1>3, <2>1, <2>2 DEF With
<1>7. ASSUME NEW i \in done
      PROVE  /\ Shaped(NewArrow(i)) /\ NewArrow(i).shooter = i
             /\ NewArrow(i).kind = "Projectile"
  <2>1. i \in Nat /\ 0 \in 0..MaxHealth
    BY <1>1, <1>7
  <2> QED
    BY <2>1 DEF NewArrow, Shaped, Entity, Nobody
<1> HIDE DEF new
<1>8. \A i \in new : /\ shot[i].kind = "Projectile" /\ shot[i].shooter \in done
                     /\ Shaped(shot[i])
  BY <1>4, <1>6, <1>7
<1>9. Players(shot) = Players(server)
  BY <1>6, <1>8 DEF Players
<1> QED
  BY <1>2, <1>3, <1>6, <1>8, <1>9 DEF ServerSound, ServerWithArrows, NewIds, new, k

LEMMA ServerTickStep ==
    ASSUME ServerSound, NEW moved \in Walks, Walk(moved),
           NEW fired \in SUBSET (Alive(server) \ Warming(server)),
           NEW done \in SUBSET (Warming(server) \cap Alive(server)),
           NEW up \in SUBSET (Players(server) \ Alive(server)),
           NEW shot, shot = WithLoosed(done), NEW fate,
           ServerTick(moved, fired, done, shot, fate, up)
    PROVE  ServerSound' /\ ServerGrows
<1> USE ClientSimulationAssumption
<1>1. /\ done \subseteq DOMAIN server /\ fired \subseteq DOMAIN server
      /\ up \subseteq DOMAIN server /\ Warming(server) \subseteq DOMAIN server
      /\ done \subseteq Warming(server) /\ up \subseteq Players(server)
  BY DEF Alive, Warming, Players
<1>2. /\ nextId \in 1..(MaxId + 1) /\ DOMAIN server \subseteq 1..MaxId
      /\ \A i \in DOMAIN server : i < nextId
  BY DEF ServerSound
<1>3. Cardinality(done) \in Nat /\ nextId + Cardinality(done) <= MaxId + 1
  <2> DEFINE busy == Warming(server) \cup fired
             out == {c \in Client : ~LoggedIn(c)}
  <2>1. busy \subseteq 1..MaxId /\ done \in SUBSET busy /\ done \subseteq 1..MaxId
    BY <1>1, <1>2
  <2>2. IsFiniteSet(out)
    BY FS_Subset
  <2>3. nextId + Cardinality(busy) + Cardinality(out) <= MaxId + 1
    BY DEF ServerTick, IdsLeft
  <2> HIDE DEF busy, out
  <2>4. /\ Cardinality(busy) \in Nat /\ Cardinality(done) \in Nat
        /\ Cardinality(done) <= Cardinality(busy)
    BY <2>1, IdsAreFinite, FS_Subset
  <2>5. Cardinality(out) \in Nat
    BY <2>2, FS_CardinalityType
  <2> QED
    BY <1>2, <2>3, <2>4, <2>5
<1>4. /\ DOMAIN shot = DOMAIN server \cup NewIds(done)
      /\ DOMAIN shot \subseteq 1..MaxId
      /\ \A i \in DOMAIN server : shot[i] = server[i]
      /\ \A i \in DOMAIN shot \ DOMAIN server :
            shot[i].kind = "Projectile" /\ shot[i].shooter \in done
      /\ \A i \in DOMAIN shot : Shaped(shot[i])
      /\ Players(shot) = Players(server)
  <2>1. ServerWithArrows(shot, done)
    BY <1>1, <1>3, WithLoosedShape
  <2> QED
    BY <2>1 DEF ServerWithArrows
<1>5. PICK ticked : ticked = Ticked(shot, fired, done, fate, up)
  OBVIOUS
<1>6. PICK walked : walked = With(chunk, moved)
  OBVIOUS
<1>7. /\ server' = ticked
      /\ chunk' = [i \in DOMAIN ticked |->
             CASE i \in up -> SpawnChunk(ticked[i].owner)
               [] i >= nextId -> walked[shot[i].shooter]
               [] OTHER -> walked[i]]
      /\ nextId' = nextId + Cardinality(done)
      /\ moves' = moves + Cardinality(DOMAIN moved)
      /\ cap' = cap
  BY <1>5, <1>6 DEF ServerTick
<1>8. /\ Players(server) \subseteq DOMAIN ticked /\ DOMAIN ticked \subseteq DOMAIN shot
      /\ \A i \in DOMAIN ticked : Shaped(ticked[i]) /\ Same(ticked[i], shot[i])
  BY <1>1, <1>4, <1>5, TickedShape
<1>9. /\ \A i \in DOMAIN server : walked[i] \in Nat
      /\ moves' \in 0..MaxMoves
  <2>1. CASE moved = << >>
    <3>1. DOMAIN moved = {} /\ Cardinality({}) = 0
      BY <2>1, FS_EmptySet
    <3>2. \A i \in DOMAIN server : walked[i] = chunk[i]
      BY <1>6, <3>1 DEF With, ServerSound
    <3> QED
      BY <1>7, <3>1, <3>2 DEF ServerSound
  <2>2. ASSUME NEW i \in DOMAIN server, moved \in [{i} -> Chunk]
        PROVE  /\ \A j \in DOMAIN server : walked[j] \in Nat
               /\ moves' \in 0..MaxMoves
    <3>1. DOMAIN moved = {i} /\ moved[i] \in Chunk /\ moved[i] \in Nat
      BY <2>2
    <3>2. Cardinality({i}) = 1
      BY FS_Singleton
    <3>3. moves < MaxMoves
      BY <3>1 DEF Walk, Moved
    <3>4. \A j \in DOMAIN server : walked[j] = IF j \in {i} THEN moved[j] ELSE chunk[j]
      BY <1>6, <3>1 DEF With, ServerSound
    <3> QED
      BY <1>7, <3>1, <3>2, <3>3, <3>4 DEF ServerSound
  <2>3. moved = << >> \/ \E i \in DOMAIN server : moved \in [{i} -> Chunk]
    BY DEF Walks
  <2> QED
    BY <2>1, <2>2, <2>3
<1>10. /\ nextId' \in 1..(MaxId + 1) /\ nextId <= nextId'
       /\ DOMAIN server' \subseteq 1..(nextId' - 1)
  <2>1. \A i \in DOMAIN server : i \in 1..(nextId' - 1)
    BY <1>2, <1>3, <1>7
  <2>2. NewIds(done) \subseteq 1..(nextId' - 1)
    BY <1>2, <1>3, <1>7 DEF NewIds
  <2>3. nextId' \in 1..(MaxId + 1) /\ nextId <= nextId'
    BY <1>2, <1>3, <1>7
  <2> QED
    BY <1>4, <1>7, <1>8, <2>1, <2>2, <2>3
<1>11. \A i \in DOMAIN server' : i \in DOMAIN server => Same(server'[i], server[i])
  BY <1>4, <1>7, <1>8
<1>12. \A i \in DOMAIN server' : i \notin DOMAIN server =>
          i >= nextId /\ server'[i].kind = "Projectile"
  <2> SUFFICES ASSUME NEW i \in DOMAIN server', i \notin DOMAIN server
               PROVE  i >= nextId /\ server'[i].kind = "Projectile"
    OBVIOUS
  <2>1. i \in DOMAIN shot \ DOMAIN server /\ i \in NewIds(done)
    BY <1>4, <1>7, <1>8
  <2>2. i >= nextId
    BY <1>2, <1>3, <2>1 DEF NewIds
  <2> QED
    BY <1>4, <1>7, <1>8, <2>1, <2>2 DEF Same
<1>13. OnePlayerEach(server')
  <2>1. \A i \in Players(server') :
           i \in Players(server) /\ server'[i].owner = server[i].owner
    BY <1>11, <1>12 DEF Players, Same
  <2> QED
    BY <2>1 DEF ServerSound, OnePlayerEach
<1>14. DOMAIN chunk' = DOMAIN server' /\ \A i \in DOMAIN server' : chunk'[i] \in Nat
  <2>1. DOMAIN chunk' = DOMAIN server'
    BY <1>7
  <2> SUFFICES ASSUME NEW i \in DOMAIN server' PROVE chunk'[i] \in Nat
    BY <2>1
  <2>2. chunk'[i] = CASE i \in up -> SpawnChunk(ticked[i].owner)
                      [] i >= nextId -> walked[shot[i].shooter]
                      [] OTHER -> walked[i]
    BY <1>7
  <2>3. CASE i \in up
    <3>1. ticked[i].owner \in Client /\ ~(i >= nextId)
      <4>1. i \in DOMAIN server /\ server[i].kind = "Player"
        BY <1>1, <2>3 DEF Players
      <4> QED
        BY <1>2, <1>7, <1>8, <1>11, <4>1 DEF Shaped, Same, ServerSound
    <3>2. chunk'[i] = SpawnChunk(ticked[i].owner)
      BY <2>2, <2>3, <3>1
    <3> QED
      BY <3>1, <3>2, SpawnChunkType
  <2>4. CASE i \notin up /\ i >= nextId
    <3>1. i \in DOMAIN shot \ DOMAIN server
      BY <1>2, <1>7, <1>8, <2>4
    <3> QED
      BY <1>1, <1>4, <1>9, <2>2, <2>4, <3>1
  <2>5. CASE i \notin up /\ ~(i >= nextId)
    <3>1. i \in DOMAIN server
      BY <1>12, <2>5
    <3> QED
      BY <1>9, <2>2, <2>5, <3>1
  <2> QED
    BY <2>3, <2>4, <2>5
<1>15. ServerSound'
  BY <1>7, <1>8, <1>9, <1>10, <1>13, <1>14 DEF ServerSound
<1>16. ServerGrows
  <2>1. \A i \in DOMAIN server : server[i].kind = "Player" => i \in DOMAIN server'
    BY <1>7, <1>8 DEF Players
  <2>2. \A i \in DOMAIN server' : i < nextId => i \in DOMAIN server
    BY <1>2, <1>4, <1>7, <1>8, <1>12
  <2> QED
    BY <1>10, <1>11, <2>1, <2>2 DEF ServerGrows
<1> QED
  BY <1>15, <1>16
-----------------------------------------------------------------------------
(***************************************************************************)
(* What the client holds stays right while the server goes on.              *)
(***************************************************************************)
PlayerOf(r, c) == CHOOSE i \in Players(r) : r[i].owner = c

LEMMA PlayerOfIs ==
    ASSUME NEW r, OnePlayerEach(r), NEW i \in Players(r)
    PROVE  PlayerOf(r, r[i].owner) = i
BY DEF PlayerOf, OnePlayerEach

LEMMA ViewIs ==
    ASSUME NEW s \in View
    PROVE  /\ DOMAIN s \subseteq 1..MaxId
           /\ \A i \in DOMAIN s : i \in Int /\ s[i].entity \in Entity /\ s[i].chunk \in Nat
<1>1. PICK D \in SUBSET (1..MaxId) : s \in [D -> [entity : Entity, chunk : Nat]]
  BY DEF View
<1> QED
  BY <1>1, ClientSimulationAssumption

(* The local player of a snapshot is the server's.                          *)
LEMMA SnapshotNamesLocal ==
    ASSUME NEW r, NEW next, OnePlayerEach(r), NEW s, SnapshotSound(s, r, next),
           NEW i \in DOMAIN s, s[i].entity.kind = "Player", s[i].entity.owner = Local
    PROVE  PlayerOf(r, Local) = i
<1>1. i \in Players(r) /\ r[i].owner = Local
  BY DEF SnapshotSound, Same, Players
<1> QED
  BY <1>1, PlayerOfIs

LEMMA SnapshotStaysSound ==
    ASSUME ServerSound, ServerSound', ServerGrows, NEW s, SnapshotSound(s, server, nextId)
    PROVE  SnapshotSound(s, server', nextId')
<1>1. nextId \in Int /\ nextId' \in Int /\ nextId <= nextId'
  BY DEF ServerSound, ServerGrows
<1> SUFFICES ASSUME NEW i \in DOMAIN s
             PROVE  /\ i < nextId'
                    /\ s[i].entity.kind = "Player" => i \in DOMAIN server'
                    /\ i \in DOMAIN server' => Same(s[i].entity, server'[i])
  BY DEF SnapshotSound
<1>2. /\ i \in Int /\ i < nextId
      /\ s[i].entity.kind = "Player" => i \in DOMAIN server
      /\ i \in DOMAIN server => Same(s[i].entity, server[i])
  <2>1. i \in Int
    BY ViewIs DEF SnapshotSound
  <2> QED
    BY <2>1 DEF SnapshotSound
<1>3. i < nextId'
  BY <1>1, <1>2
<1>4. s[i].entity.kind = "Player" => i \in DOMAIN server'
  BY <1>2 DEF ServerGrows, Same
<1>5. i \in DOMAIN server' => Same(s[i].entity, server'[i])
  BY <1>2 DEF ServerGrows, Same
<1> QED
  BY <1>3, <1>4, <1>5

LEMMA ServerLeavesCopy ==
    ASSUME ServerSound, ServerSound', ServerGrows, ChannelSound, RegistrySound,
           UNCHANGED <<inFlight, clientVars>>
    PROVE  ChannelSound' /\ RegistrySound'
<1>1. /\ inFlight' = inFlight /\ registry' = registry /\ predicted' = predicted
      /\ playerByClient' = playerByClient /\ applied' = applied
  BY DEF clientVars
<1>2. ASSUME NEW n \in 1..Len(inFlight)
      PROVE  SnapshotSound(inFlight[n], server', nextId')
  BY <1>2, SnapshotStaysSound DEF ChannelSound
<1>3. applied # << >> => /\ applied = <<applied[1]>>
                         /\ SnapshotSound(applied[1], server, nextId)
                         /\ SnapshotSound(applied[1], server', nextId')
  BY SnapshotStaysSound DEF ChannelSound
<1>4. ChannelSound'
  BY <1>1, <1>2, <1>3 DEF ChannelSound
<1>5. ASSUME applied # << >>
      PROVE  PlayerOf(server', Local) = PlayerOf(server, Local)
  <2>1. PICK s : s = applied[1]
    OBVIOUS
  <2>2. SnapshotSound(s, server, nextId) /\ SnapshotSound(s, server', nextId')
    BY <1>3, <1>5, <2>1
  <2>3. PICK i \in DOMAIN s : s[i].entity.kind = "Player" /\ s[i].entity.owner = Local
    BY <2>2 DEF SnapshotSound
  <2>4. OnePlayerEach(server) /\ OnePlayerEach(server')
    BY DEF ServerSound
  <2> QED
    BY <2>2, <2>3, <2>4, SnapshotNamesLocal
<1>6. LocalPlayerIsTheServers'
  <2>1. ServerId(Local) = PlayerOf(server, Local) /\ ServerId(Local)' = PlayerOf(server', Local)
    BY DEF ServerId, PlayerOf
  <2> QED
    BY <1>1, <1>5, <2>1 DEF RegistrySound, LocalPlayerIsTheServers
<1>7. PlayerIndexIsExact'
  BY <1>1 DEF RegistrySound, PlayerIndexIsExact, Players
<1> QED
  BY <1>1, <1>4, <1>6, <1>7 DEF RegistrySound

-----------------------------------------------------------------------------
(***************************************************************************)
(* The planner never cuts the observer's own player: nothing comes before   *)
(* it.                                                                      *)
(***************************************************************************)
LEMMA NothingBeforeTheOwn ==
    ASSUME ServerSound, NEW s, DOMAIN s \subseteq DOMAIN server,
           \A i \in DOMAIN s : s[i].entity = server[i],
           NEW me \in DOMAIN s, server[me].kind = "Player", server[me].owner = Local
    PROVE  {k \in DOMAIN s : Before(Local, s, k, me)} = {}
<1> SUFFICES ASSUME NEW k \in DOMAIN s, Before(Local, s, k, me) PROVE FALSE
  OBVIOUS
<1>1. s[k].entity = server[k] /\ s[me].entity = server[me]
  OBVIOUS
<1>2. server[k].owner = Local => k = me
  <2>1. server[k].kind \in {"Player", "Projectile"} /\ Shaped(server[k])
    BY DEF ServerSound, Shaped, Entity
  <2>2. Local # Nobody
    BY ClientSimulationAssumption DEF Client, Nobody
  <2> QED
    BY <2>1, <2>2 DEF ServerSound, OnePlayerEach, Players, Shaped
<1>3. k \in Int
  BY ClientSimulationAssumption DEF ServerSound
<1> QED
  BY <1>1, <1>2, <1>3 DEF Before

LEMMA PlannedSnapshotIsSound ==
    ASSUME ServerSound, LoggedIn(Local)
    PROVE  SnapshotSound(PlannedSnapshot(Local), server, nextId)
<1> USE ClientSimulationAssumption
<1>1. PICK me \in DOMAIN server : server[me].kind = "Player" /\ server[me].owner = Local
  BY DEF LoggedIn, Players
<1>2. PICK b : b = BuildSnapshot(Local)
  OBVIOUS
<1>3. PICK p : p = PlannedSnapshot(Local)
  OBVIOUS
<1>4. /\ DOMAIN b \subseteq DOMAIN server /\ me \in DOMAIN b
      /\ \A i \in DOMAIN b : b[i] = [entity |-> server[i], chunk |-> chunk[i]]
  BY <1>1, <1>2 DEF BuildSnapshot
<1>5. p = [i \in {j \in DOMAIN b :
                    \/ cap = 0
                    \/ Cardinality({k \in DOMAIN b : Before(Local, b, k, j)}) < cap} |-> b[i]]
  BY <1>2, <1>3, Zenon DEF PlannedSnapshot, Plan
<1>6. me \in DOMAIN p
  <2>1. \A i \in DOMAIN b : b[i].entity = server[i]
    BY <1>4
  <2>2. {k \in DOMAIN b : Before(Local, b, k, me)} = {}
    BY <1>1, <1>4, <2>1, NothingBeforeTheOwn
  <2>3. Cardinality({k \in DOMAIN b : Before(Local, b, k, me)}) = 0
    BY <2>2, FS_EmptySet
  <2>4. cap \in Nat
    BY DEF ServerSound
  <2>5. \/ cap = 0
        \/ Cardinality({k \in DOMAIN b : Before(Local, b, k, me)}) < cap
    BY <2>3, <2>4
  <2> QED
    BY <1>4, <1>5, <2>5, Zenon
<1>7. DOMAIN p \subseteq DOMAIN b /\ \A i \in DOMAIN p : p[i] = b[i]
  BY <1>5, Zenon
<1>8. /\ DOMAIN p \subseteq DOMAIN server
      /\ \A i \in DOMAIN p : /\ p[i] \in [entity : Entity, chunk : Nat]
                             /\ p[i].entity = server[i] /\ Shaped(server[i]) /\ i < nextId
  BY <1>4, <1>7 DEF ServerSound, Shaped
<1>9. p \in View
  <2>1. p = [i \in DOMAIN p |-> p[i]]
    BY <1>5, Zenon
  <2>2. p \in [DOMAIN p -> [entity : Entity, chunk : Nat]]
    BY <1>8, <2>1
  <2>3. DOMAIN p \in SUBSET (1..MaxId)
    BY <1>8 DEF ServerSound
  <2> QED
    BY <2>2, <2>3 DEF View
<1> QED
  BY <1>1, <1>3, <1>6, <1>8, <1>9 DEF SnapshotSound, Same

LEMMA SendStep ==
    ASSUME CopyInv, SendSnapshot
    PROVE  CopyInv'
<1> USE DEF CopyInv
<1>1. /\ LoggedIn(Local) /\ Len(inFlight) < MaxInFlight
      /\ inFlight' = Append(inFlight, PlannedSnapshot(Local))
      /\ UNCHANGED <<serverVars, clientVars>>
  BY DEF SendSnapshot
<1>2. PICK p : p = PlannedSnapshot(Local) /\ SnapshotSound(p, server, nextId)
  BY <1>1, PlannedSnapshotIsSound
<1>3. p \in View
  BY <1>2 DEF SnapshotSound
<1>4. inFlight \in Seq(View) /\ Len(inFlight) \in Nat
  BY DEF ChannelSound
<1>5. /\ inFlight' \in Seq(View) /\ Len(inFlight') = Len(inFlight) + 1
      /\ \A n \in 1..Len(inFlight) : inFlight'[n] = inFlight[n]
      /\ inFlight'[Len(inFlight) + 1] = p
  BY <1>1, <1>2, <1>3, <1>4
<1>6. /\ server' = server /\ nextId' = nextId /\ chunk' = chunk /\ cap' = cap
      /\ moves' = moves /\ applied' = applied /\ registry' = registry
      /\ predicted' = predicted /\ playerByClient' = playerByClient
  BY <1>1 DEF serverVars, clientVars
<1>7. ASSUME NEW n \in 1..Len(inFlight') PROVE SnapshotSound(inFlight'[n], server, nextId)
  <2>1. n \in 1..Len(inFlight) \/ n = Len(inFlight) + 1
    BY <1>4, <1>5, <1>7
  <2> QED
    BY <1>2, <1>5, <2>1 DEF ChannelSound
<1>8. Len(inFlight') <= MaxInFlight
  BY <1>1, <1>4, <1>5, ClientSimulationAssumption
<1>9. ChannelSound'
  BY <1>5, <1>6, <1>7, <1>8 DEF ChannelSound
<1>10. ServerSound' /\ RegistrySound'
  BY <1>6 DEF ServerSound, RegistrySound, PlayerIndexIsExact, LocalPlayerIsTheServers,
              ServerId, Players
<1> QED
  BY <1>9, <1>10

-----------------------------------------------------------------------------
(***************************************************************************)
(* The client's steps.  A snapshot may be older than the one applied before *)
(* it: that the two agree is that both agree with the server.               *)
(***************************************************************************)

LEMMA LocalIsSomebody == Local \in Client /\ Local # Nobody
BY ClientSimulationAssumption DEF Client, Nobody

(* Another client's player in the registry is that player on the server.    *)
LEMMA OtherPlayersAreTheServers ==
    ASSUME CopyInv, NEW i \in Players(registry), registry[i].owner # Local
    PROVE  i \in Players(server) /\ server[i].owner = registry[i].owner
<1>1. i \in DOMAIN registry /\ registry[i].kind = "Player"
  BY DEF Players
<1>2. applied # << >> /\ i \in DOMAIN applied[1] /\ Same(registry[i], applied[1][i].entity)
  BY <1>1 DEF CopyInv, RegistrySound
<1>3. PICK s : s = applied[1] /\ SnapshotSound(s, server, nextId)
  BY <1>2 DEF CopyInv, ChannelSound
<1>4. s[i].entity.kind = "Player" /\ s[i].entity.owner = registry[i].owner /\ i \in DOMAIN s
  BY <1>1, <1>2, <1>3 DEF Same
<1> QED
  BY <1>3, <1>4 DEF SnapshotSound, Same, Players

(* What a snapshot leaves behind is the provisional player alone.           *)
LEMMA LeftBehind ==
    ASSUME CopyInv, NEW s, SnapshotSound(s, server, nextId),
           NEW i \in DOMAIN registry, i \notin Leaving(s), i \notin DOMAIN s
    PROVE  i = ProvisionalId /\ registry[i].kind = "Player" /\ registry[i].owner = Local
<1>1. registry[i].owner = Local
  BY DEF Leaving
<1>2. registry[i].kind = "Player"
  BY <1>1, LocalIsSomebody DEF CopyInv, RegistrySound, Shaped, Entity
<1>3. ASSUME applied # << >>, i \in DOMAIN applied[1], Same(registry[i], applied[1][i].entity)
      PROVE  FALSE
  <2>1. PICK old : old = applied[1] /\ SnapshotSound(old, server, nextId)
    BY <1>3 DEF CopyInv, ChannelSound
  <2>2. i \in DOMAIN old /\ old[i].entity.kind = "Player" /\ old[i].entity.owner = Local
    BY <1>1, <1>2, <1>3, <2>1 DEF Same
  <2>3. PICK j \in DOMAIN s : s[j].entity.kind = "Player" /\ s[j].entity.owner = Local
    BY DEF SnapshotSound
  <2>4. OnePlayerEach(server)
    BY DEF CopyInv, ServerSound
  <2>5. PlayerOf(server, Local) = i
    BY <2>1, <2>2, <2>4, SnapshotNamesLocal
  <2>6. PlayerOf(server, Local) = j
    BY <2>3, <2>4, SnapshotNamesLocal
  <2> QED
    BY <2>3, <2>5, <2>6
<1> QED
  BY <1>1, <1>2, <1>3 DEF CopyInv, RegistrySound

(* playerByClient_ after ApplySnapshot.                                     *)
LEMMA IndexIs ==
    ASSUME CopyInv, NEW s, SnapshotSound(s, server, nextId), NEW index, index = Index(s)
    PROVE  /\ DOMAIN index \subseteq Client
           /\ \A i \in DOMAIN s : s[i].entity.kind = "Player" =>
                 s[i].entity.owner \in DOMAIN index /\ index[s[i].entity.owner] = i
           /\ \A c \in DOMAIN index :
                 /\ index[c] \in DOMAIN s /\ s[index[c]].entity.kind = "Player"
                 /\ s[index[c]].entity.owner = c
<1> DEFINE seen == Players([i \in DOMAIN s |-> s[i].entity])
           owners == {s[i].entity.owner : i \in seen}
           erased == {registry[i].owner : i \in Leaving(s) \cap Players(registry)}
           all == (DOMAIN playerByClient \cup owners) \ erased
<1>1. seen = {i \in DOMAIN s : s[i].entity.kind = "Player"}
  BY DEF Players
<1>2. /\ DOMAIN index = all
      /\ \A c \in all : index[c] = IF c \in owners
                                   THEN CHOOSE i \in seen : s[i].entity.owner = c
                                   ELSE playerByClient[c]
  <2>1. index = [c \in all |-> IF c \in owners
                               THEN CHOOSE i \in seen : s[i].entity.owner = c
                               ELSE playerByClient[c]]
    BY Zenon DEF Index
  <2> HIDE DEF seen, owners, erased
  <2> QED
    BY <2>1
<1> HIDE DEF seen
<1>3. ASSUME NEW i \in seen
      PROVE  /\ i \in Players(server) /\ server[i].owner = s[i].entity.owner
             /\ s[i].entity.owner \in Client
  BY <1>1, <1>3 DEF SnapshotSound, Same, Players, Shaped
<1>4. \A i, j \in seen : s[i].entity.owner = s[j].entity.owner => i = j
  BY <1>3 DEF CopyInv, ServerSound, OnePlayerEach
<1>5. ASSUME NEW i \in seen PROVE s[i].entity.owner \notin erased
  <2> SUFFICES ASSUME NEW j \in Leaving(s) \cap Players(registry),
                      registry[j].owner = s[i].entity.owner
               PROVE  FALSE
    OBVIOUS
  <2>1. j \notin DOMAIN s /\ registry[j].owner # Local /\ j \in Players(registry)
    BY DEF Leaving
  <2>2. j \in Players(server) /\ server[j].owner = registry[j].owner
    BY <2>1, OtherPlayersAreTheServers
  <2>3. i = j
    BY <1>3, <1>5, <2>2 DEF CopyInv, ServerSound, OnePlayerEach
  <2> QED
    BY <1>1, <1>5, <2>1, <2>3
<1>6. ASSUME NEW i \in seen
      PROVE  s[i].entity.owner \in DOMAIN index /\ index[s[i].entity.owner] = i
  <2> DEFINE c == s[i].entity.owner
  <2>1. c \in owners /\ c \in all
    BY <1>5, <1>6
  <2>2. index[c] = CHOOSE k \in seen : s[k].entity.owner = c
    BY <1>2, <2>1
  <2>3. (CHOOSE k \in seen : s[k].entity.owner = c) = i
    BY <1>4, <1>6
  <2> QED
    BY <1>2, <2>1, <2>2, <2>3
<1>7. ASSUME NEW c \in DOMAIN index PROVE c \in owners
  <2> SUFFICES ASSUME c \notin owners PROVE FALSE
    OBVIOUS
  <2>1. c \in DOMAIN playerByClient /\ c \notin erased
    BY <1>2, <1>7
  <2>2. PICK i : i = playerByClient[c]
    OBVIOUS
  <2>3. i \in Players(registry) /\ registry[i].owner = c
    BY <2>1, <2>2 DEF CopyInv, RegistrySound, PlayerIndexIsExact
  <2>4. c # Local
    BY <1>1 DEF SnapshotSound
  <2>5. i \in Players(server) /\ server[i].owner = c
    BY <2>3, <2>4, OtherPlayersAreTheServers
  <2>6. i \in DOMAIN s
    BY <2>1, <2>3, <2>4 DEF Leaving, Players
  <2>7. s[i].entity.kind = "Player" /\ s[i].entity.owner = c
    BY <2>5, <2>6 DEF SnapshotSound, Same, Players
  <2> QED
    BY <1>1, <2>6, <2>7
<1>8. ASSUME NEW c \in DOMAIN index
      PROVE  index[c] \in seen /\ s[index[c]].entity.owner = c /\ c \in Client
  <2>1. PICK i \in seen : s[i].entity.owner = c
    BY <1>7, <1>8
  <2> QED
    BY <1>3, <1>6, <2>1
<1> QED
  BY <1>1, <1>6, <1>8

(* The registry, predicted tags and index after ApplySnapshot.              *)
LEMMA ApplyStep ==
    ASSUME CopyInv, NEW s, SnapshotSound(s, server, nextId), NEW refire \in BOOLEAN,
           ApplySnapshot(s, refire), UNCHANGED serverVars
    PROVE  RegistrySound'
<1> DEFINE kept == DOMAIN registry \ Leaving(s)
           own == {i \in DOMAIN s : s[i].entity.owner = Local /\ s[i].entity.kind = "Player"}
           index == Index(s)
           warm(i) == Written(s, i).warming \/
                      ((refire /\ Local \in DOMAIN index /\ i = index[Local])
                          /\ Written(s, i).health > 0)
<1>1. /\ registry' = [i \in kept \cup DOMAIN s |-> [Written(s, i) EXCEPT !.warming = warm(i)]]
      /\ predicted' = (predicted \cap (kept \ DOMAIN s)) \cup own
      /\ playerByClient' = index /\ applied' = <<s>>
  BY Zenon DEF ApplySnapshot
<1>2. server' = server
  BY DEF serverVars
<1>3. \A i \in kept : i \in DOMAIN registry /\ Shaped(registry[i])
  BY DEF CopyInv, RegistrySound
<1>4. ASSUME NEW i \in kept, i \notin DOMAIN s
      PROVE  i = ProvisionalId /\ registry[i].kind = "Player" /\ registry[i].owner = Local
  BY <1>4, LeftBehind
<1>5. ASSUME NEW i \in kept \cup DOMAIN s
      PROVE  /\ Shaped(registry'[i]) /\ Same(registry'[i], Written(s, i))
  <2>1. Shaped(Written(s, i))
    BY <1>3, <1>5 DEF Written, SnapshotSound
  <2>2. warm(i) \in BOOLEAN
    BY <2>1 DEF Shaped, Entity
  <2>3. registry'[i] = [Written(s, i) EXCEPT !.warming = warm(i)]
    BY <1>1, <1>5
  <2>4. PICK e : e = Written(s, i)
    OBVIOUS
  <2>5. PICK w \in BOOLEAN : w = warm(i)
    BY <2>2
  <2>6. registry'[i] = [e EXCEPT !.warming = w] /\ e \in Entity
    BY <2>1, <2>3, <2>4, <2>5 DEF Shaped
  <2>7. /\ registry'[i] \in Entity
        /\ registry'[i].kind = e.kind /\ registry'[i].owner = e.owner
    BY <2>6 DEF Entity
  <2> QED
    BY <2>1, <2>4, <2>7 DEF Shaped, Same
<1>6. DOMAIN registry' = kept \cup DOMAIN s
  BY <1>1
<1> HIDE DEF kept
<1>7. \A i \in DOMAIN s : Same(registry'[i], s[i].entity)
  BY <1>5 DEF Written
<1>8. \A i \in DOMAIN registry' : i \notin DOMAIN s =>
         i = ProvisionalId /\ registry'[i].kind = "Player" /\ registry'[i].owner = Local
  BY <1>4, <1>5, <1>6 DEF Written, Same
<1>9. PICK found : found = index
  OBVIOUS
<1>10. /\ DOMAIN found \subseteq Client
       /\ \A i \in DOMAIN s : s[i].entity.kind = "Player" =>
             s[i].entity.owner \in DOMAIN found /\ found[s[i].entity.owner] = i
       /\ \A c \in DOMAIN found :
             /\ found[c] \in DOMAIN s /\ s[found[c]].entity.kind = "Player"
             /\ s[found[c]].entity.owner = c
  BY <1>9, IndexIs
<1>11. playerByClient' = found
  BY <1>1, <1>9
<1>12. applied' # << >> /\ applied'[1] = s
  BY <1>1
<1>13. PlayerIndexIsExact'
  <2>1. ASSUME NEW c \in DOMAIN found
        PROVE  found[c] \in Players(registry') /\ registry'[found[c]].owner = c
    BY <1>6, <1>7, <1>10, <2>1 DEF Players, Same
  <2>2. ASSUME NEW i \in Players(registry'), registry'[i].owner # Local
        PROVE  registry'[i].owner \in DOMAIN found /\ found[registry'[i].owner] = i
    <3>1. i \in DOMAIN s /\ registry'[i].kind = "Player"
      BY <1>8, <2>2 DEF Players
    <3> QED
      BY <1>7, <1>10, <3>1 DEF Same
  <2> QED
    BY <1>11, <2>1, <2>2 DEF PlayerIndexIsExact
<1>14. /\ predicted' \subseteq DOMAIN registry'
       /\ \A i \in predicted' : registry'[i].owner = Local
  <2>1. ASSUME NEW i \in predicted' PROVE i \in DOMAIN registry' /\ registry'[i].owner = Local
    <3>1. CASE i \in DOMAIN s
      <4>1. s[i].entity.owner = Local
        BY <1>1, <2>1, <3>1
      <4> QED
        BY <1>6, <1>7, <3>1, <4>1 DEF Same
    <3>2. CASE i \notin DOMAIN s
      <4>1. i \in kept
        BY <1>1, <2>1, <3>2
      <4> QED
        BY <1>6, <1>8, <3>2, <4>1
    <3> QED
      BY <3>1, <3>2
  <2> QED
    BY <2>1
<1>15. LocalPlayerIsTheServers'
  <2>1. PICK j \in DOMAIN s : s[j].entity.kind = "Player" /\ s[j].entity.owner = Local
    BY DEF SnapshotSound
  <2>2. j = ServerId(Local)'
    <3>1. OnePlayerEach(server)
      BY DEF CopyInv, ServerSound
    <3>2. PlayerOf(server, Local) = j
      BY <2>1, <3>1, SnapshotNamesLocal
    <3> QED
      BY <1>2, <3>2 DEF ServerId, PlayerOf
  <2>3. j \in predicted'
    BY <1>1, <2>1
  <2> QED
    BY <1>10, <1>11, <1>14, <2>1, <2>2, <2>3 DEF LocalPlayerIsTheServers
<1>16. DOMAIN registry' \subseteq 1..MaxId
  <2>1. DOMAIN s \subseteq 1..MaxId
    BY ViewIs DEF SnapshotSound
  <2> QED
    BY <1>6, <2>1 DEF kept, CopyInv, RegistrySound
<1>17. \A i \in DOMAIN registry' : Shaped(registry'[i])
  BY <1>5, <1>6
<1> QED
  BY <1>7, <1>8, <1>10, <1>11, <1>12, <1>13, <1>14, <1>15, <1>16, <1>17 DEF RegistrySound

LEMMA PumpStep ==
    ASSUME CopyInv, NEW n \in DOMAIN inFlight, PumpSnapshot(n)
    PROVE  CopyInv'
<1>1. inFlight \in Seq(View) /\ Len(inFlight) \in Nat /\ n \in 1..Len(inFlight)
  BY DEF CopyInv, ChannelSound
<1>2. PICK refire \in BOOLEAN : ApplySnapshot(inFlight[n], refire)
  BY DEF PumpSnapshot
<1>3. /\ inFlight' = [m \in 1..(Len(inFlight) - 1) |->
                          inFlight[IF m < n THEN m ELSE m + 1]]
      /\ UNCHANGED serverVars
  BY DEF PumpSnapshot
<1>4. PICK s : s = inFlight[n] /\ SnapshotSound(s, server, nextId)
  BY <1>1 DEF CopyInv, ChannelSound
<1>5. RegistrySound'
  BY <1>2, <1>3, <1>4, ApplyStep
<1>6. /\ server' = server /\ nextId' = nextId /\ chunk' = chunk /\ cap' = cap
      /\ moves' = moves
  BY <1>3 DEF serverVars
<1>7. ServerSound'
  BY <1>6 DEF CopyInv, ServerSound, OnePlayerEach, Players
<1>8. \A m \in 1..(Len(inFlight) - 1) :
         \E k \in 1..Len(inFlight) : inFlight'[m] = inFlight[k]
  <2> SUFFICES ASSUME NEW m \in 1..(Len(inFlight) - 1)
               PROVE  \E k \in 1..Len(inFlight) : inFlight'[m] = inFlight[k]
    OBVIOUS
  <2>1. inFlight'[m] = inFlight[IF m < n THEN m ELSE m + 1]
    BY <1>3
  <2>2. (IF m < n THEN m ELSE m + 1) \in 1..Len(inFlight)
    BY <1>1
  <2> QED
    BY <2>1, <2>2
<1>9. inFlight' \in Seq(View) /\ Len(inFlight') = Len(inFlight) - 1
  <2>1. \A m \in 1..(Len(inFlight) - 1) : inFlight'[m] \in View
    BY <1>1, <1>8
  <2>2. Len(inFlight) - 1 \in Nat
    BY <1>1
  <2>3. inFlight' \in [1..(Len(inFlight) - 1) -> View]
    BY <1>3, <2>1
  <2> QED
    BY <2>2, <2>3
<1>10. \A m \in 1..Len(inFlight') : SnapshotSound(inFlight'[m], server, nextId)
  BY <1>8, <1>9 DEF CopyInv, ChannelSound
<1>11. applied' = <<s>>
  BY <1>2, <1>4 DEF ApplySnapshot
<1>12. Len(inFlight') <= MaxInFlight
  BY <1>1, <1>9, ClientSimulationAssumption DEF CopyInv, ChannelSound
<1>13. ChannelSound'
  BY <1>4, <1>6, <1>9, <1>10, <1>11, <1>12 DEF ChannelSound
<1> QED
  BY <1>5, <1>7, <1>13 DEF CopyInv

(* A tick of the client's simulation removes arrows only.                   *)
LEMMA ClientTickStep ==
    ASSUME CopyInv, NEW fired, NEW done, NEW fate, NEW up, up \subseteq Players(registry),
           TickSimulation(fired, done, fate, up)
    PROVE  CopyInv'
<1>1. /\ registry' = Ticked(registry, fired, done, fate, up)
      /\ predicted' = predicted \cap DOMAIN registry'
      /\ playerByClient' = playerByClient /\ applied' = applied /\ inFlight' = inFlight
      /\ server' = server /\ nextId' = nextId /\ chunk' = chunk /\ cap' = cap
      /\ moves' = moves
  BY DEF TickSimulation, serverVars
<1>2. /\ Players(registry) \subseteq DOMAIN registry' /\ DOMAIN registry' \subseteq DOMAIN registry
      /\ \A i \in DOMAIN registry' : Shaped(registry'[i]) /\ Same(registry'[i], registry[i])
  <2>1. DOMAIN registry \subseteq 1..MaxId /\ \A i \in DOMAIN registry : Shaped(registry[i])
    BY DEF CopyInv, RegistrySound
  <2> QED
    BY <1>1, <2>1, TickedShape
<1>3. ServerSound' /\ ChannelSound'
  BY <1>1 DEF CopyInv, ServerSound, ChannelSound, OnePlayerEach, Players
<1>4. \A i \in DOMAIN registry' :
         registry'[i].kind = registry[i].kind /\ registry'[i].owner = registry[i].owner
  BY <1>2 DEF Same
<1>5. Players(registry') = Players(registry)
  BY <1>2, <1>4 DEF Players
<1>6. PlayerIndexIsExact'
  <2>1. \A i \in Players(registry) : registry'[i].owner = registry[i].owner
    BY <1>2, <1>4
  <2> QED
    BY <1>1, <1>5, <2>1 DEF CopyInv, RegistrySound, PlayerIndexIsExact
<1>7. predicted' \subseteq DOMAIN registry' /\ \A i \in predicted' : registry'[i].owner = Local
  BY <1>1, <1>4 DEF CopyInv, RegistrySound
<1>8. LocalPlayerIsTheServers'
  <2>1. ServerId(Local)' = ServerId(Local)
    BY <1>1 DEF ServerId, Players
  <2>2. applied # << >> => playerByClient[Local] \in Players(registry)
    BY DEF CopyInv, RegistrySound, PlayerIndexIsExact, LocalPlayerIsTheServers
  <2> QED
    BY <1>1, <1>2, <1>7, <2>1, <2>2 DEF CopyInv, RegistrySound, LocalPlayerIsTheServers
<1>9. RegistrySound'
  BY <1>1, <1>2, <1>4, <1>6, <1>7, <1>8 DEF CopyInv, RegistrySound, Same
<1> QED
  BY <1>3, <1>9 DEF CopyInv

-----------------------------------------------------------------------------
LEMMA InitIsSound == Init => CopyInv
<1> SUFFICES ASSUME Init PROVE CopyInv
  OBVIOUS
<1> USE ClientSimulationAssumption DEF Init
<1>1. DOMAIN server = {} /\ DOMAIN chunk = {} /\ Players(server) = {}
  BY DEF Players
<1>2. ServerSound
  BY <1>1 DEF ServerSound, OnePlayerEach
<1>3. inFlight \in Seq(View) /\ Len(inFlight) = 0
  OBVIOUS
<1>4. ChannelSound
  BY <1>3 DEF ChannelSound
<1>5. /\ DOMAIN registry = {1} /\ registry[1] = NewPlayer(Local)
      /\ predicted = {1} /\ DOMAIN playerByClient = {Local} /\ playerByClient[Local] = 1
  BY DEF ProvisionalId
<1>6. /\ Shaped(NewPlayer(Local)) /\ NewPlayer(Local).kind = "Player"
      /\ NewPlayer(Local).owner = Local
  BY LocalIsSomebody DEF Shaped, NewPlayer, Entity, Nobody
<1>7. PlayerIndexIsExact /\ LocalPlayerIsTheServers
  BY <1>5, <1>6 DEF PlayerIndexIsExact, LocalPlayerIsTheServers, Players
<1>8. 1 \in 1..MaxId
  OBVIOUS
<1>9. RegistrySound
  BY <1>5, <1>6, <1>7, <1>8, LocalIsSomebody DEF RegistrySound, ProvisionalId
<1> QED
  BY <1>2, <1>4, <1>9 DEF CopyInv

LEMMA NextKeepsCopyInv == CopyInv /\ [Next]_vars => CopyInv'
<1> SUFFICES ASSUME CopyInv, [Next]_vars PROVE CopyInv'
  OBVIOUS
<1>1. ASSUME NEW c \in Client, Login(c) PROVE CopyInv'
  <2>1. ServerSound' /\ ServerGrows
    BY <1>1, LoginStep DEF CopyInv
  <2>2. UNCHANGED <<inFlight, clientVars>>
    BY <1>1 DEF Login
  <2> QED
    BY <2>1, <2>2, ServerLeavesCopy DEF CopyInv
<1>2. CASE ServerTicks
  <2>1. PICK moved \in Walks :
          /\ Walk(moved)
          /\ \E fired \in SUBSET (Alive(server) \ Warming(server)),
                done \in SUBSET (Warming(server) \cap Alive(server)),
                up \in SUBSET (Players(server) \ Alive(server)) :
             \E shot \in {WithLoosed(done)} : \E fate \in Fates(shot) :
                 ServerTick(moved, fired, done, shot, fate, up)
    BY <1>2, Zenon DEF ServerTicks
  <2>2. PICK fired \in SUBSET (Alive(server) \ Warming(server)),
             done \in SUBSET (Warming(server) \cap Alive(server)),
             up \in SUBSET (Players(server) \ Alive(server)) :
          \E shot \in {WithLoosed(done)} : \E fate \in Fates(shot) :
              ServerTick(moved, fired, done, shot, fate, up)
    BY <2>1, Zenon
  <2>3. PICK shot \in {WithLoosed(done)} : \E fate \in Fates(shot) :
              ServerTick(moved, fired, done, shot, fate, up)
    BY <2>2, Zenon
  <2>4. PICK fate \in Fates(shot) : ServerTick(moved, fired, done, shot, fate, up)
    BY <2>3, Zenon
  <2>5. shot = WithLoosed(done)
    BY <2>3
  <2>6. ServerSound' /\ ServerGrows
    BY <2>1, <2>4, <2>5, ServerTickStep, Zenon DEF CopyInv
  <2>7. UNCHANGED <<inFlight, clientVars>>
    BY <2>4 DEF ServerTick
  <2> QED
    BY <2>6, <2>7, ServerLeavesCopy DEF CopyInv
<1>3. CASE SendSnapshot
  BY <1>3, SendStep
<1>4. ASSUME NEW n \in DOMAIN inFlight, PumpSnapshot(n) PROVE CopyInv'
  BY <1>4, PumpStep
<1>5. CASE ClientTicks
  <2>1. PICK fired \in SUBSET ({playerByClient[Local]} \cap (Alive(registry) \ Warming(registry))),
             done \in SUBSET (Warming(registry) \cap Alive(registry)),
             fate \in Fates(registry),
             up \in SUBSET (Players(registry) \ Alive(registry)) :
                TickSimulation(fired, done, fate, up)
    BY <1>5, Zenon DEF ClientTicks
  <2> QED
    BY <2>1, ClientTickStep
<1>6. CASE UNCHANGED vars
  BY <1>6 DEF vars, serverVars, clientVars, CopyInv, ServerSound, ChannelSound,
              RegistrySound, PlayerIndexIsExact, LocalPlayerIsTheServers, OnePlayerEach,
              Players, ServerId
<1> QED
  BY <1>1, <1>2, <1>3, <1>4, <1>5, <1>6 DEF Next

(* The invariant above holds at every state.                                *)
LEMMA CopyIsSound == Spec => []CopyInv
BY InitIsSound, NextKeepsCopyInv, PTL DEF Spec

(* The server's registry, the channel and the client's registry keep their  *)
(* types: ids within bounds, health between zero and the most whatever      *)
(* hits, an owner for each player (GameSimulation::TickFixed).              *)
THEOREM ClientSimulationTypes == Spec => []TypeOK
<1>1. CopyInv => TypeOK
  BY ClientSimulationAssumption DEF CopyInv, ServerSound, ChannelSound, RegistrySound,
                                    Shaped, TypeOK
<1> QED
  BY <1>1, CopyIsSound, PTL

(* ApplySnapshot keeps playerByClient_ exact, whatever snapshots arrive in  *)
(* whatever order and whatever the client's ticks do between them.          *)
THEOREM IndexStaysExact == Spec => []PlayerIndexIsExact
<1>1. CopyInv => PlayerIndexIsExact
  BY DEF CopyInv, RegistrySound
<1> QED
  BY <1>1, CopyIsSound, PTL

(* From the first ApplySnapshot on the client predicts the player the       *)
(* server gave it, whatever cap and interest leave of each snapshot.        *)
THEOREM LocalPlayerIsNeverCut == Spec => []LocalPlayerIsTheServers
<1>1. CopyInv => LocalPlayerIsTheServers
  BY DEF CopyInv, RegistrySound
<1> QED
  BY <1>1, CopyIsSound, PTL

(* ApplySnapshot removes all that is not in the snapshot, but for the       *)
(* player the client made before it knew its id.                            *)
THEOREM OnlyTheProvisionalStays == Spec => []OnlyTheProvisionalPlayerLingers
<1>1. CopyInv => OnlyTheProvisionalPlayerLingers
  BY DEF CopyInv, RegistrySound, OnlyTheProvisionalPlayerLingers
<1> QED
  BY <1>1, CopyIsSound, PTL

(* PlanSnapshotDelta tells what is to be kept, sent and removed to make a   *)
(* snapshot from any baseline.                                              *)
THEOREM DeltaIsEnough == Spec => []DeltaDescribesSnapshot
<1>1. DeltaDescribesSnapshot
  <2> SUFFICES ASSUME NEW n \in DOMAIN inFlight
               PROVE  LET current == PlannedSnapshot(Local)
                          delta == PlanSnapshotDelta(current, inFlight[n])
                      IN  current = [i \in {j \in DOMAIN delta : delta[j] # "Removed"} |->
                                        IF delta[i] = "Unchanged" THEN inFlight[n][i]
                                                                  ELSE current[i]]
    BY DEF DeltaDescribesSnapshot
  <2>1. PICK current : current = PlannedSnapshot(Local)
    OBVIOUS
  <2>2. current = [i \in DOMAIN current |-> current[i]]
    BY <2>1 DEF PlannedSnapshot, Plan
  <2>3. PICK base : base = inFlight[n]
    OBVIOUS
  <2>4. PICK delta : delta = PlanSnapshotDelta(current, base)
    OBVIOUS
  <2>5. /\ DOMAIN delta = DOMAIN current \cup DOMAIN base
        /\ \A i \in DOMAIN current \cup DOMAIN base :
              delta[i] = CASE i \notin DOMAIN base -> "Added"
                           [] i \notin DOMAIN current -> "Removed"
                           [] OTHER -> IF EquivalentEntityState(current[i], base[i])
                                       THEN "Unchanged" ELSE "Changed"
    BY <2>4 DEF PlanSnapshotDelta
  <2>6. ASSUME NEW i \in DOMAIN current
        PROVE  /\ delta[i] # "Removed"
               /\ delta[i] = "Unchanged" => base[i] = current[i]
    BY <2>5, <2>6 DEF EquivalentEntityState
  <2>7. \A i \in DOMAIN delta : i \notin DOMAIN current => delta[i] = "Removed"
    BY <2>5
  <2>8. {j \in DOMAIN delta : delta[j] # "Removed"} = DOMAIN current
    BY <2>5, <2>6, <2>7
  <2>9. current = [i \in {j \in DOMAIN delta : delta[j] # "Removed"} |->
                      IF delta[i] = "Unchanged" THEN base[i] ELSE current[i]]
    BY <2>2, <2>6, <2>8
  <2> QED
    BY <2>1, <2>3, <2>4, <2>9
<1> QED
  BY <1>1, PTL

=============================================================================
