-------------------------- MODULE ServerNetworkHost --------------------------
(***************************************************************************)
(* ServerNetworkHost and the parts of ServerRuntime it drives.  The host is *)
(* one thread: it pumps client messages, then runs TickAndSendSnapshots.    *)
(* TickAndSendSnapshots is split into the steps of its loops, in the order  *)
(* the code takes them (variable phase), so that each transport Send is a   *)
(* step that may fail by itself.  What the simulation computes in a tick is *)
(* an input here: the domain events it queues and the entities a client     *)
(* sees.  The simulation itself is module GameSimulation.                   *)
(***************************************************************************)
EXTENDS Network, ServerClientReplicationState

CONSTANTS
    MaxPlayers,       \* SimulationConfig::maxPlayers
    SnapshotInterval, \* snapshotSendIntervalMs, in ticks
    MayRefuse,        \* the Sends that transport_ can refuse
    MaxEventId,       \* bound: network event ids the host hands out
    MaxSnapshotId     \* bound: snapshot ids the host hands out

ASSUME HostAssumption ==
    /\ MaxPlayers \in Nat
    /\ SnapshotInterval \in Nat
    /\ MayRefuse \subseteq {"Snapshot", "ReliableEvent", "Resend"}
    /\ MaxEventId \in Nat
    /\ MaxSnapshotId \in Nat

VARIABLES
    players,            \* clients the simulation knows (playerByClient_)
    simEvents,          \* domain events queued and not drained yet
    clients,            \* clients_, in login order
    acked,              \* [Client -> last acknowledged snapshot id, 0 is none]
    snapshotWait,       \* [Client -> ticks until nextSnapshotSendAtMs_]
    known,              \* [Client -> entities the interest tracker knows]
    pending,            \* [Client -> pending reliable events]
    baselines,          \* [Client -> cached baselines, oldest first]
    nextSnapshotId,
    nextNetworkEventId,
    phase,              \* where the host's thread is
    cursor,             \* the client of clients_ being served
    frame,              \* its interest events not sent yet
    tickEvents,         \* drained domain events not broadcast yet
    told                \* history: [Client -> events tracked for the client]

hostVars == <<players, simEvents, clients, acked, snapshotWait, known, pending,
              baselines, nextSnapshotId, nextNetworkEventId, phase, cursor,
              frame, tickEvents, told>>

(* What the simulation queues.  PlayerMoved is every kind without a DTO.    *)
DomainEvent ==
    [kind : {"PlayerSpawned", "Combat", "PlayerMoved"}, subject : Client]

NetworkClients == {clients[i] : i \in 1..Len(clients)}

HostTypeOK ==
    /\ players \subseteq Client
    /\ simEvents \in Seq(DomainEvent)
    /\ clients \in Seq(Client)
    /\ acked \in [Client -> Nat]
    /\ snapshotWait \in [Client -> 0..SnapshotInterval]
    /\ known \in [Client -> SUBSET Entity]
    /\ pending \in [Client -> SUBSET PendingOf(NetworkEvent)]
    /\ baselines \in [Client -> Seq(SnapshotId)]
    /\ nextSnapshotId \in SnapshotId
    /\ nextNetworkEventId \in EventId
    /\ phase \in {"pump", "snapshots", "broadcast", "resend"}
    /\ cursor \in Nat \ {0}
    /\ frame \in [entered : SUBSET Entity, exited : SUBSET Entity]
    /\ tickEvents \in Seq(DomainEvent)
    /\ told \in [Client -> SUBSET NetworkEvent]

HostInit ==
    /\ players = {}
    /\ simEvents = <<>>
    /\ clients = <<>>
    /\ acked = [c \in Client |-> 0]
    /\ snapshotWait = [c \in Client |-> 0]
    /\ known = [c \in Client |-> {}]
    /\ pending = [c \in Client |-> {}]
    /\ baselines = [c \in Client |-> <<>>]
    /\ nextSnapshotId = 1
    /\ nextNetworkEventId = 1
    /\ phase = "pump"
    /\ cursor = 1
    /\ frame = NoFrame
    /\ tickEvents = <<>>
    /\ told = [c \in Client |-> {}]

(* Bound: event ids left once those already queued have taken theirs.       *)
EventIdsLeft ==
    MaxEventId + 1 - (nextNetworkEventId + Len(simEvents) + Len(tickEvents))

-----------------------------------------------------------------------------
(* GameSimulation::Submit(login): TRUE for a known client, a new player     *)
(* otherwise while there is room.  ok is what it returns.                   *)
SubmitLogin(c, ok) ==
    \/ /\ ok /\ c \in players
       /\ UNCHANGED <<players, simEvents>>
    \/ /\ ok /\ c \notin players /\ Cardinality(players) < MaxPlayers
       /\ EventIdsLeft > 0
       /\ players' = players \cup {c}
       /\ simEvents' =
            Append(simEvents, [kind |-> "PlayerSpawned", subject |-> c])
    \/ /\ ~ok /\ c \notin players /\ Cardinality(players) >= MaxPlayers
       /\ UNCHANGED <<players, simEvents>>

(* A test driver's client: it plays, and is never sent anything.            *)
ConnectSimulationOnlyClient(c) ==
    /\ phase = "pump"
    /\ c \in SimulationOnly
    /\ c \notin players
    /\ \E ok \in BOOLEAN : SubmitLogin(c, ok)
    /\ UNCHANGED <<clients, acked, snapshotWait, known, pending, baselines,
                   nextSnapshotId, nextNetworkEventId, phase, cursor, frame,
                   tickEvents, told>>
    /\ UNCHANGED networkVars

(* A refused login is dropped without an answer; an accepted one lists the  *)
(* client once, with a fresh replication state (the initial one).           *)
HandleLoginEnvelope(c) ==
    /\ phase = "pump"
    /\ c \in logins
    /\ logins' = logins \ {c}
    /\ \E ok \in BOOLEAN :
          /\ SubmitLogin(c, ok)
          /\ clients' = IF ok /\ c \notin NetworkClients
                        THEN Append(clients, c) ELSE clients
    /\ UNCHANGED <<acked, snapshotWait, known, pending, baselines,
                   nextSnapshotId, nextNetworkEventId, phase, cursor, frame,
                   tickEvents, told>>
    /\ UNCHANGED <<snapshots, snapshotAcks, events, eventAcks>>

(* Rejected from an unknown client, for a snapshot no longer (or never)     *)
(* cached, and when it is not newer than the last one.                      *)
HandleSnapshotAckEnvelope(c, id) ==
    /\ phase = "pump"
    /\ id \in snapshotAcks[c]
    /\ snapshotAcks' = [snapshotAcks EXCEPT ![c] = @ \ {id}]
    /\ IF c \in NetworkClients /\ Find(baselines[c], id) /\ id > acked[c]
       THEN acked' = [acked EXCEPT ![c] = id]
       ELSE UNCHANGED acked
    /\ UNCHANGED <<players, simEvents, clients, snapshotWait, known, pending,
                   baselines, nextSnapshotId, nextNetworkEventId, phase,
                   cursor, frame, tickEvents, told>>
    /\ UNCHANGED <<logins, snapshots, events, eventAcks>>

(* Mutant: one client's acknowledgement is taken for every client's.        *)
HandleEventAckOfAnyone(c, id) ==
    /\ phase = "pump"
    /\ id \in eventAcks[c]
    /\ pending' = [d \in Client |-> AcknowledgeReliableEvent(pending[d], id)]
    /\ UNCHANGED <<players, simEvents, clients, acked, snapshotWait, known,
                   baselines, nextSnapshotId, nextNetworkEventId, phase,
                   cursor, frame, tickEvents, told>>
    /\ UNCHANGED networkVars

(* An acknowledgement of an event that is not pending changes nothing.      *)
HandleNetworkEventAckEnvelope(c, id) ==
    /\ phase = "pump"
    /\ id \in eventAcks[c]
    /\ c \in NetworkClients
    /\ IsPending(pending[c], id)
    /\ pending' = [pending EXCEPT ![c] = AcknowledgeReliableEvent(@, id)]
    /\ UNCHANGED <<players, simEvents, clients, acked, snapshotWait, known,
                   baselines, nextSnapshotId, nextNetworkEventId, phase,
                   cursor, frame, tickEvents, told>>
    /\ UNCHANGED networkVars

-----------------------------------------------------------------------------
(* runtime_.Tick() and DrainEvents(): the clock advances by one tick, and   *)
(* what the simulation queued, at logins and in this tick, is drained.      *)
BeginTick ==
    /\ phase = "pump"
    /\ \/ tickEvents' = simEvents
       \/ /\ EventIdsLeft > 0
          /\ \E c \in players, k \in {"Combat", "PlayerMoved"} :
                tickEvents' = Append(simEvents, [kind |-> k, subject |-> c])
    /\ simEvents' = <<>>
    /\ snapshotWait' =
          [c \in Client |-> IF snapshotWait[c] = 0 THEN 0 ELSE snapshotWait[c] - 1]
    /\ pending' = [c \in Client |-> Older(pending[c])]
    /\ phase' = "snapshots"
    /\ cursor' = 1
    /\ UNCHANGED <<players, clients, acked, known, baselines, nextSnapshotId,
                   nextNetworkEventId, frame, told>>
    /\ UNCHANGED networkVars

(* The client whose turn it is in the loop over clients_.                   *)
Serving(c) ==
    /\ phase = "snapshots"
    /\ cursor <= Len(clients)
    /\ c = clients[cursor]

ShouldSendSnapshot(c) == snapshotWait[c] = 0

SkipSnapshot(c) ==
    /\ Serving(c)
    /\ frame = NoFrame
    /\ ~ShouldSendSnapshot(c) \/ nextSnapshotId > MaxSnapshotId
    /\ cursor' = cursor + 1
    /\ UNCHANGED <<players, simEvents, clients, acked, snapshotWait, known,
                   pending, baselines, nextSnapshotId, nextNetworkEventId,
                   phase, frame, tickEvents, told>>
    /\ UNCHANGED networkVars

(* transport_.Send accepts any part of what it is given, or all of it.      *)
Accepted(what, S) == IF what \in MayRefuse THEN SUBSET S ELSE {S}

(* SendReliableEvent to each client of `to`, `sent` being those for which   *)
(* transport_.Send returned TRUE: only then is the event tracked.           *)
SendReliableEvent(sent, e) ==
    /\ events' = [c \in Client |->
                    IF c \in sent THEN events[c] \cup {e} ELSE events[c]]
    /\ pending' = [c \in Client |->
                    IF c \in sent THEN TrackReliableEvent(pending[c], e)
                                  ELSE pending[c]]
    /\ told' = [c \in Client |->
                    IF c \in sent THEN told[c] \cup {e} ELSE told[c]]

(* The snapshot id is spent, and the client is tried again next tick.       *)
SendSnapshotFails(c) ==
    /\ Serving(c)
    /\ frame = NoFrame
    /\ ShouldSendSnapshot(c)
    /\ "Snapshot" \in MayRefuse
    /\ nextSnapshotId <= MaxSnapshotId
    /\ nextSnapshotId' = nextSnapshotId + 1
    /\ cursor' = cursor + 1
    /\ UNCHANGED <<players, simEvents, clients, acked, snapshotWait, known,
                   pending, baselines, nextNetworkEventId, phase, frame,
                   tickEvents, told>>
    /\ UNCHANGED networkVars

(* The next snapshot of client c, built on the baseline it acknowledged.    *)
NextSnapshot(c) ==
    LET baseline == EffectiveBaseline(baselines[c], acked[c])
    IN  [id |-> nextSnapshotId,
         baseline |-> baseline,
         kind |-> IF baseline = 0 THEN "Full" ELSE "DeltaEligible"]

(* SendSnapshot and MarkSnapshotSent.  visible is what the simulation puts  *)
(* in the client's snapshot after the area of interest and the planner's    *)
(* budget have been applied.                                                *)
SendSnapshot(c) ==
    /\ Serving(c)
    /\ frame = NoFrame
    /\ ShouldSendSnapshot(c)
    /\ nextSnapshotId <= MaxSnapshotId
    /\ nextSnapshotId' = nextSnapshotId + 1
    /\ snapshots' = [snapshots EXCEPT ![c] = @ \cup {NextSnapshot(c)}]
    /\ \E visible \in SUBSET Entity :
          /\ frame' = InterestFrame(known[c], visible)
          /\ Cardinality(frame'.entered \cup frame'.exited) <= EventIdsLeft
          /\ known' = [known EXCEPT ![c] = visible]
    /\ baselines' = [baselines EXCEPT ![c] = Store(@, nextSnapshotId)]
    /\ snapshotWait' = [snapshotWait EXCEPT ![c] = SnapshotInterval]
    /\ cursor' = IF frame' = NoFrame THEN cursor + 1 ELSE cursor
    /\ UNCHANGED <<players, simEvents, clients, acked, pending,
                   nextNetworkEventId, phase, tickEvents, told>>
    /\ UNCHANGED <<logins, snapshotAcks, events, eventAcks>>

(* One pass of SendInterestEvents' loops: entered first, then exited.  The  *)
(* tracker has already moved on, whether or not Send takes the event.       *)
SendInterestEvent(c) ==
    /\ Serving(c)
    /\ \E x \in Entity, k \in InterestKinds :
          /\ IF k = "EntityEnteredInterest"
             THEN /\ x \in frame.entered
                  /\ frame' = [frame EXCEPT !.entered = @ \ {x}]
             ELSE /\ frame.entered = {} /\ x \in frame.exited
                  /\ frame' = [frame EXCEPT !.exited = @ \ {x}]
          /\ \E sent \in Accepted("ReliableEvent", {c}) :
                SendReliableEvent(sent, [id |-> nextNetworkEventId,
                                         kind |-> k, subject |-> x])
    /\ nextNetworkEventId' = nextNetworkEventId + 1
    /\ cursor' = IF frame' = NoFrame THEN cursor + 1 ELSE cursor
    /\ UNCHANGED <<players, simEvents, clients, acked, snapshotWait, known,
                   baselines, nextSnapshotId, phase, tickEvents>>
    /\ UNCHANGED <<logins, snapshots, snapshotAcks, eventAcks>>

EndSnapshots ==
    /\ phase = "snapshots"
    /\ cursor > Len(clients)
    /\ phase' = "broadcast"
    /\ UNCHANGED <<players, simEvents, clients, acked, snapshotWait, known,
                   pending, baselines, nextSnapshotId, nextNetworkEventId,
                   cursor, frame, tickEvents, told>>
    /\ UNCHANGED networkVars

(* One event of BroadcastReliableEvents: it takes an id even when it has no *)
(* DTO, and goes to every network client under that id.  The simulation     *)
(* queues no interest event on the server, so the observer filter of the    *)
(* loop never applies.                                                      *)
BroadcastReliableEvent ==
    /\ phase = "broadcast"
    /\ tickEvents # <<>>
    /\ nextNetworkEventId' = nextNetworkEventId + 1
    /\ tickEvents' = Tail(tickEvents)
    /\ LET e == Head(tickEvents)
       IN  IF e.kind = "PlayerMoved"
           THEN UNCHANGED <<events, pending, told>>
           ELSE \E sent \in Accepted("ReliableEvent", NetworkClients) :
                   SendReliableEvent(sent, [id |-> nextNetworkEventId,
                                            kind |-> e.kind,
                                            subject |-> e.subject])
    /\ UNCHANGED <<players, simEvents, clients, acked, snapshotWait, known,
                   baselines, nextSnapshotId, phase, cursor, frame>>
    /\ UNCHANGED <<logins, snapshots, snapshotAcks, eventAcks>>

EndBroadcast ==
    /\ phase = "broadcast"
    /\ tickEvents = <<>>
    /\ phase' = "resend"
    /\ UNCHANGED <<players, simEvents, clients, acked, snapshotWait, known,
                   pending, baselines, nextSnapshotId, nextNetworkEventId,
                   cursor, frame, tickEvents, told>>
    /\ UNCHANGED networkVars

(* Mutant: what is due for one client is sent again to every client.        *)
ResendToEveryone ==
    /\ phase = "resend"
    /\ LET due == UNION {ReliableEventsDueForResend(pending[c]) : c \in Client}
       IN  /\ pending' = [c \in Client |->
                 {IF p \in due THEN Sent(p) ELSE p : p \in pending[c]}]
           /\ events' = [c \in Client |-> events[c] \cup {p.event : p \in due}]
    /\ phase' = "pump"
    /\ UNCHANGED <<players, simEvents, clients, acked, snapshotWait, known,
                   baselines, nextSnapshotId, nextNetworkEventId, cursor,
                   frame, tickEvents, told>>
    /\ UNCHANGED <<logins, snapshots, snapshotAcks, eventAcks>>

(* ResendPendingReliableEvents: every due event of every client; a Send     *)
(* that fails leaves the entry as it was, due again next tick.              *)
ResendPendingReliableEvents ==
    /\ phase = "resend"
    /\ \E sent \in Accepted("Resend", UNION {{<<c, p>> :
                    p \in ReliableEventsDueForResend(pending[c])} : c \in Client}) :
          /\ pending' = [c \in Client |->
                {IF <<c, p>> \in sent THEN Sent(p) ELSE p : p \in pending[c]}]
          /\ events' = [c \in Client |-> events[c] \cup
                {p.event : p \in {q \in pending[c] : <<c, q>> \in sent}}]
    /\ phase' = "pump"
    /\ UNCHANGED <<players, simEvents, clients, acked, snapshotWait, known,
                   baselines, nextSnapshotId, nextNetworkEventId, cursor,
                   frame, tickEvents, told>>
    /\ UNCHANGED <<logins, snapshots, snapshotAcks, eventAcks>>

-----------------------------------------------------------------------------
PumpClientMessage(c) ==
    \/ HandleLoginEnvelope(c)
    \/ \E id \in snapshotAcks[c] : HandleSnapshotAckEnvelope(c, id)
    \/ \E id \in eventAcks[c] : HandleNetworkEventAckEnvelope(c, id)

TickAndSendSnapshots ==
    \/ BeginTick
    \/ \E c \in Client : \/ SkipSnapshot(c)
                         \/ SendSnapshotFails(c)
                         \/ SendSnapshot(c)
                         \/ SendInterestEvent(c)
    \/ EndSnapshots
    \/ BroadcastReliableEvent
    \/ EndBroadcast
    \/ ResendPendingReliableEvents
=============================================================================
