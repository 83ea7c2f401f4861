-------------------- MODULE ServerClientReplicationState --------------------
(***************************************************************************)
(* What the server remembers about one client, as operators on values:     *)
(* pending reliable events (ServerClientReplicationState.hpp), the cache of *)
(* snapshot baselines (SnapshotBaselineCache.cpp) and the interest tracker  *)
(* (InterestManagement.cpp).  Times are counted in server ticks since the   *)
(* last send, which is all the resend rule reads of a timestamp.            *)
(***************************************************************************)
EXTENDS Naturals, Sequences, FiniteSets

CONSTANTS
    ResendBase,    \* reliableEventResendBaseIntervalMs, in ticks
    MaxSendCount,  \* reliableEventMaxSendCount; 0 is no cap
    MaxBaselines   \* maxBaselinesPerClient

ASSUME ReplicationStateAssumption ==
    ResendBase \in Nat /\ MaxSendCount \in Nat /\ MaxBaselines \in Nat

SmallerOf(a, b) == IF a < b THEN a ELSE b

-----------------------------------------------------------------------------
(* Pending reliable events: a set of [event, sendCount, age], one per id.   *)
(* sendCount stops at CountCap and age at the entry's own delay: the resend *)
(* rule does not tell the values above them apart.                          *)

(* 1 << min(sendCount - 1, 4), for a sendCount of 1 to 5 and more.          *)
BackoffFactor(sendCount) == <<1, 2, 4, 8, 16>>[SmallerOf(sendCount, 5)]

CountCap == IF MaxSendCount > 5 THEN MaxSendCount ELSE 5

PendingOf(Event) == [event : Event, sendCount : 1..CountCap, age : Nat]

IsPending(pending, id) == \E p \in pending : p.event.id = id

(* A pending entry after one more send, and after one more tick.            *)
Sent(p) == [event |-> p.event,
            sendCount |-> SmallerOf(p.sendCount + 1, CountCap), age |-> 0]

ResendDelay(p) == ResendBase * BackoffFactor(p.sendCount)

Aged(p) == [event |-> p.event, sendCount |-> p.sendCount,
            age |-> SmallerOf(p.age + 1, ResendDelay(p))]

Older(pending) == {Aged(p) : p \in pending}

(* Mutant: a new entry has not been sent yet.                               *)
TrackUnsent(pending, e) ==
    pending \cup {[event |-> e, sendCount |-> 0, age |-> 0]}

(* pendingReliableEvents_[id]: an entry that exists keeps its event.        *)
TrackReliableEvent(pending, e) ==
    IF IsPending(pending, e.id)
    THEN {IF p.event.id = e.id THEN Sent(p) ELSE p : p \in pending}
    ELSE pending \cup {[event |-> e, sendCount |-> 1, age |-> 0]}

AcknowledgeReliableEvent(pending, id) == {p \in pending : p.event.id # id}

(* Mutant: nothing is ever due.                                             *)
NeverDueForResend(pending) == {}

ReliableEventsDueForResend(pending) ==
    {p \in pending : /\ MaxSendCount = 0 \/ p.sendCount < MaxSendCount
                     /\ p.age >= ResendDelay(p)}

-----------------------------------------------------------------------------
(* Baselines of one client: the ids of the snapshots kept, oldest first.    *)

Store(baselines, id) ==
    LET longer == Append(baselines, id)
    IN  IF Len(longer) > MaxBaselines THEN Tail(longer) ELSE longer

Find(baselines, id) == \E i \in 1..Len(baselines) : baselines[i] = id

(* Mutant: the last snapshot sent, whether or not it was acknowledged.      *)
LastSentBaseline(baselines, requested) ==
    IF baselines = <<>> THEN 0 ELSE baselines[Len(baselines)]

(* The baseline the next snapshot is built on; 0 is none.                   *)
EffectiveBaseline(baselines, requested) ==
    IF requested # 0 /\ Find(baselines, requested) THEN requested ELSE 0

-----------------------------------------------------------------------------
(* Interest: the frame an Update returns when the tracker knows `known` and *)
(* the snapshot holds `visible`.  The tracker then knows `visible`.         *)

(* Mutant: entities that leave are not reported.                            *)
InterestFrameWithoutExits(known, visible) ==
    [entered |-> visible \ known, exited |-> {}]

InterestFrame(known, visible) ==
    [entered |-> visible \ known, exited |-> known \ visible]

NoFrame == [entered |-> {}, exited |-> {}]
=============================================================================
