------------------------------ MODULE TimeSync ------------------------------
(***************************************************************************)
(* The clocks.  The server's simulation time counts its ticks, which fall   *)
(* due on real time.  The client asks for it (RemoteClientSession::Tick),   *)
(* the server answers before its next tick (HandleTimeSyncEnvelope), and    *)
(* the client's NetworkClock keeps a smoothed offset from its local clock   *)
(* to the server's, in truncating integer arithmetic.  The server keeps a   *)
(* history of snapshots in which a client's timestamp, mapped by such an    *)
(* offset, is looked up (LagCompensationService).  Requests and answers are *)
(* lost, delayed and reordered.  Times are in milliseconds; the local clock *)
(* is the real time, of arbitrary origin.                                   *)
(***************************************************************************)
EXTENDS Integers, Sequences

CONSTANTS
    Tick,              \* tickDurationMs
    Start,             \* the local clock when the client starts
    ServerStart,       \* the server's simulation time then
    SyncInterval,      \* 1000 in Tick
    MaxRewind,         \* maxRewindMs
    FutureTolerance,   \* futureToleranceMs
    HistorySize,       \* LagCompensationHistory::maxSnapshots_
    MaxTime            \* bound: the local clock

ASSUME TimeSyncAssumption ==
    /\ Tick \in Nat \ {0} /\ SyncInterval \in Nat \ {0}
    /\ Start \in Nat /\ ServerStart \in Nat
    /\ MaxRewind \in Nat /\ FutureTolerance \in Nat
    /\ HistorySize \in Nat \ {0} /\ MaxTime \in Nat /\ Start <= MaxTime

(* What the server's time is ahead of the local clock, the true offset.     *)
Ahead == ServerStart - Start

VARIABLES
    now,        \* the client's local clock
    serverTime, \* the server simulation's timeMs_
    history,    \* times of the snapshots in the server's history_
    lastTick,   \* lastTickTimeMs_ of the session, or -1
    nextSyncAt, \* nextTimeSyncAtMs_
    requests,   \* clientSentAtMs of the requests on their way
    responses,  \* answers on their way
    sampled,    \* hasSample_
    offset,     \* serverOffsetMs_
    rtt,        \* rttMs_
    worstRtt    \* history: the longest round trip measured

clockVars == <<sampled, offset, rtt, worstRtt>>
serverVars == <<serverTime, history>>
syncVars == <<now, serverVars, lastTick, nextSyncAt, requests, responses, clockVars>>

Response == [sent : Nat, served : Nat]

SyncInit ==
    /\ now = Start /\ serverTime = ServerStart /\ history = << >>
    /\ lastTick = -1 /\ nextSyncAt = 0
    /\ requests = {} /\ responses = {}
    /\ sampled = FALSE /\ offset = 0 /\ rtt = 0 /\ worstRtt = 0

-----------------------------------------------------------------------------
(* The server is on time: real time does not pass a tick that is due.       *)
Due == Ahead + now = serverTime + Tick

Advance ==
    /\ now < MaxTime
    /\ ~Due
    /\ now' = now + 1
    /\ UNCHANGED <<serverVars, lastTick, nextSyncAt, requests, responses, clockVars>>

(* LagCompensationHistory::Record.                                          *)
Recorded(h, time) ==
    LET longer == Append(h, time)
    IN  IF Len(longer) > HistorySize THEN Tail(longer) ELSE longer

(* HandleTimeSyncEnvelope: the answer holds the time of the last tick.      *)
Answer(sent) == [sent |-> sent, served |-> serverTime]

(* TickOnce: of the requests, those that arrived are answered, though an    *)
(* answer may be lost; then the tick, recorded in the history.              *)
ServerTick(arrived, answered) ==
    /\ Due
    /\ requests' = requests \ arrived
    /\ responses' = responses \cup {Answer(sent) : sent \in answered}
    /\ serverTime' = serverTime + Tick
    /\ history' = Recorded(history, serverTime')
    /\ UNCHANGED <<now, lastTick, nextSyncAt, clockVars>>

ServerTicks ==
    \E arrived \in SUBSET requests : \E answered \in SUBSET arrived :
        ServerTick(arrived, answered)

-----------------------------------------------------------------------------
(* RemoteClientSession::Tick after the login: a request when it is time,    *)
(* which may be lost.                                                       *)
SessionTick ==
    /\ lastTick' = now
    /\ \/ now < nextSyncAt /\ UNCHANGED <<nextSyncAt, requests>>
       \/ /\ now >= nextSyncAt
          /\ nextSyncAt' = now + SyncInterval
          /\ \/ UNCHANGED requests
             \/ requests' = requests \cup {now}
    /\ UNCHANGED <<now, serverVars, responses, clockVars>>

(* C++ division: towards zero.                                              *)
Halved(x) == x \div 2
Eighth(x) == IF x >= 0 THEN x \div 8 ELSE -((-x) \div 8)

MeasuredRtt(sent, received) == IF received >= sent THEN received - sent ELSE 0

MeasuredOffset(sent, served, received) ==
    served - (sent + Halved(MeasuredRtt(sent, received)))

(* Mutant: the weights add up to more than the divisor.                     *)
SmoothedTooMuch(old, measured) == Eighth(8 * old + measured)

Smoothed(old, measured) == Eighth(7 * old + measured)

(* RecordTimeSyncSample, in the pump that follows the session's tick.       *)
RecordSample(r) ==
    LET measuredRtt == MeasuredRtt(r.sent, lastTick)
        measured == MeasuredOffset(r.sent, r.served, lastTick)
    IN  /\ sampled' = TRUE
        /\ offset' = IF sampled THEN Smoothed(offset, measured) ELSE measured
        /\ rtt' = IF sampled THEN Smoothed(rtt, measuredRtt) ELSE measuredRtt
        /\ worstRtt' = IF measuredRtt > worstRtt THEN measuredRtt ELSE worstRtt

PumpResponse(r) ==
    /\ lastTick = now
    /\ r \in responses
    /\ responses' = responses \ {r}
    /\ RecordSample(r)
    /\ UNCHANGED <<now, serverVars, lastTick, nextSyncAt, requests>>

(* NetworkClock::EstimateServerTime, and LagCompensationService's own copy  *)
(* of it, MapClientTimeToServerTime.                                        *)
EstimateServerTime(local, off) == IF local + off <= 0 THEN 0 ELSE local + off

SyncNext ==
    \/ Advance
    \/ ServerTicks
    \/ SessionTick
    \/ \E r \in responses : PumpResponse(r)

SyncSpec == SyncInit /\ [][SyncNext]_syncVars

-----------------------------------------------------------------------------
(* LagCompensationService::Query: refused when the time is too far in the   *)
(* future or too old, else the last snapshot of the history not after it.   *)
ClosestAtOrBefore(h, time) ==
    LET before == {i \in DOMAIN h : h[i] <= time}
    IN  IF before = {} THEN -1 ELSE h[CHOOSE i \in before : \A j \in before : j <= i]

Refused == -1

(* Mutant: the age is compared with the tolerance for the future.           *)
QueryTooStrict(h, target) ==
    IF \/ target > serverTime + FutureTolerance
       \/ serverTime - target > FutureTolerance
    THEN Refused ELSE ClosestAtOrBefore(h, target)

Query(h, target) ==
    IF \/ target > serverTime + FutureTolerance
       \/ serverTime - target > MaxRewind
    THEN Refused ELSE ClosestAtOrBefore(h, target)

-----------------------------------------------------------------------------
(* How far the clock may be off: half the longest round trip, which may all *)
(* have been spent in one direction, and the tick the answer waits for.     *)
MaxError == Halved(worstRtt + 1) + Tick

(* However requests and answers are delayed, reordered and lost, and        *)
(* however the smoothing rounds, the clock's offset is the true one, less   *)
(* the tick the answer is behind, within half the worst round trip.         *)
ClockErrorBounded ==
    sampled => offset - (Ahead - Tick) \in (-Halved(worstRtt))..Halved(worstRtt + 1)

(* A client's timestamp, mapped by its clock, is looked up as far back as   *)
(* the service allows once the history is that long, and the snapshot found *)
(* is of the time the client meant, within the clock's error and a tick.    *)
RewindIsClose ==
    sampled => \A local \in Start..now :
        LET target == EstimateServerTime(local, offset)
            found == Query(history, target)
        IN  /\ found # Refused =>
                  found - (Ahead + local) \in (-(MaxError + Tick))..MaxError
            /\ /\ ServerStart + Tick <= target /\ target <= serverTime
               /\ serverTime - target <= MaxRewind
               => found # Refused
=============================================================================
