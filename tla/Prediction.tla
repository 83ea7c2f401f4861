----------------------------- MODULE Prediction -----------------------------
(***************************************************************************)
(* Client prediction and reconciliation of the local player: the client's   *)
(* fixed-step loop (RunFrame, ClientApplication, ClientRuntime,             *)
(* PendingInputHistory), the server's admission of inputs and its tick, and *)
(* the unreliable channels between them.  A position is abstracted to the   *)
(* sequence of the inputs that moved the player to it, in order: that is    *)
(* what tells a lost, repeated or reordered input apart.  The player is not *)
(* defeated (a defeated player's inputs move it nowhere on either side).    *)
(***************************************************************************)
EXTENDS Naturals, Sequences, FiniteSets

CONSTANTS
    MaxSequence,  \* bound: inputs the client makes
    MaxInFlight   \* bound: snapshots in flight

ASSUME PredictionAssumption ==
    MaxSequence \in Nat /\ MaxInFlight \in Nat

VARIABLES
    nextSequence,      \* nextSequence_
    unacked,           \* PendingInputHistory::unackedInputs_
    queued,            \* the client simulation's pendingInputs_
    predicted,         \* inputs behind the client's predicted position
    step,              \* where RunFrame's loop is
    lastAccepted,      \* the server's lastAcceptedSequence_ of the client
    accepted,          \* the server simulation's pendingInputs_
    moves,             \* inputs behind the server's position
    inputEnvelopes,    \* inputs in flight
    snapshotEnvelopes, \* snapshots in flight, oldest first
    confirmed          \* history: inputs behind any snapshot applied

clientVars == <<nextSequence, unacked, queued, predicted, step, confirmed>>
serverVars == <<lastAccepted, accepted, moves>>
vars == <<clientVars, serverVars, inputEnvelopes, snapshotEnvelopes>>

InputSequence == 1..MaxSequence
Snapshot == [acked : 0..MaxSequence, moves : Seq(InputSequence)]
Members(s) == {s[i] : i \in 1..Len(s)}

(* Types of the client's and the server's input state and of the envelopes. *)
TypeOK ==
    /\ nextSequence \in 1..(MaxSequence + 1)
    /\ unacked \in Seq(InputSequence)
    /\ queued \in Seq(InputSequence)
    /\ predicted \in Seq(InputSequence)
    /\ step \in {"input", "tick", "pump"}
    /\ lastAccepted \in 0..MaxSequence
    /\ accepted \in Seq(InputSequence)
    /\ moves \in Seq(InputSequence)
    /\ inputEnvelopes \subseteq InputSequence
    /\ snapshotEnvelopes \in Seq(Snapshot)
    /\ Len(snapshotEnvelopes) <= MaxInFlight
    /\ confirmed \subseteq InputSequence

Init ==
    /\ nextSequence = 1
    /\ unacked = <<>>
    /\ queued = <<>>
    /\ predicted = <<>>
    /\ step = "input"
    /\ lastAccepted = 0
    /\ accepted = <<>>
    /\ moves = <<>>
    /\ inputEnvelopes = {}
    /\ snapshotEnvelopes = <<>>
    /\ confirmed = {}

-----------------------------------------------------------------------------
(* ProcessInputs: each input of a batch replaces the intent of the one      *)
(* before it, and the player moves once, by the last.                       *)
Moved(position, batch) ==
    IF batch = <<>> THEN position ELSE Append(position, batch[Len(batch)])

(* Mutant: the replay is one batch, of which only the last input moves.     *)
ReplayedAsBatch(position, batch) == Moved(position, batch)

(* ReplayLocalInputsForPrediction: every input moves the player.            *)
Replayed(position, batch) == position \o batch

(* Mutant: the acknowledged input itself is kept.                           *)
AcknowledgeBefore(history, sequence) ==
    LET Kept[i \in 0..Len(history)] ==
            IF i = 0 THEN <<>>
            ELSE IF history[i] >= sequence THEN Append(Kept[i - 1], history[i])
                                           ELSE Kept[i - 1]
    IN  Kept[Len(history)]

(* The erase-remove_if of PendingInputHistory: every input up to sequence   *)
(* goes, wherever it is, and the others keep their order.                   *)
AcknowledgeThrough(history, sequence) ==
    LET Kept[i \in 0..Len(history)] ==
            IF i = 0 THEN <<>>
            ELSE IF history[i] > sequence THEN Append(Kept[i - 1], history[i])
                                          ELSE Kept[i - 1]
    IN  Kept[Len(history)]

-----------------------------------------------------------------------------
(* Mutant: the sequence number is advanced before it is used.               *)
SubmitInputAdvancingFirst(arrives) ==
    /\ step = "input"
    /\ step' = "tick"
    /\ nextSequence <= MaxSequence
    /\ nextSequence' = nextSequence + 1
    /\ unacked' = Append(unacked, nextSequence')
    /\ queued' = Append(queued, nextSequence')
    /\ inputEnvelopes' = inputEnvelopes \cup {nextSequence'}
    /\ UNCHANGED <<predicted, confirmed, snapshotEnvelopes, serverVars>>

(* SubmitInput, once per pass of RunFrame's loop: recorded, queued for the  *)
(* next tick and sent; it may be lost, or dropped because the login has not *)
(* been sent yet.  Past MaxSequence the player makes no more inputs.        *)
SubmitInput(arrives) ==
    /\ step = "input"
    /\ step' = "tick"
    /\ IF nextSequence > MaxSequence
       THEN UNCHANGED <<nextSequence, unacked, queued, inputEnvelopes>>
       ELSE /\ nextSequence' = nextSequence + 1
            /\ unacked' = Append(unacked, nextSequence)
            /\ queued' = Append(queued, nextSequence)
            /\ inputEnvelopes' = IF arrives THEN inputEnvelopes \cup {nextSequence}
                                            ELSE inputEnvelopes
    /\ UNCHANGED <<predicted, confirmed, snapshotEnvelopes, serverVars>>

TickSimulation ==
    /\ step = "tick"
    /\ step' = "pump"
    /\ predicted' = Moved(predicted, queued)
    /\ queued' = <<>>
    /\ UNCHANGED <<nextSequence, unacked, confirmed, inputEnvelopes,
                   snapshotEnvelopes, serverVars>>

(* The channel's policy is UnreliableSequenced, and nothing acts on it: no   *)
(* transport and no pump drops a snapshot for being older than the last, so *)
(* snapshots arrive in any order.                                           *)
LeftInFlight(i) ==
    SubSeq(snapshotEnvelopes, 1, i - 1) \o
        SubSeq(snapshotEnvelopes, i + 1, Len(snapshotEnvelopes))

(* Mutant: the inputs not acknowledged are not replayed.                    *)
ApplySnapshotWithoutReplay(s) ==
    /\ unacked' = AcknowledgeThrough(unacked, s.acked)
    /\ predicted' = s.moves
    /\ confirmed' = confirmed \cup Members(s.moves)

(* PumpIncoming applies whatever snapshot arrives: the position becomes the *)
(* server's, acknowledged inputs are forgotten, the others replayed.        *)
ApplyServerSnapshot(s) ==
    /\ unacked' = AcknowledgeThrough(unacked, s.acked)
    /\ predicted' = Replayed(s.moves, unacked')
    /\ confirmed' = confirmed \cup Members(s.moves)

PumpSnapshot ==
    /\ step = "pump"
    /\ \E i \in 1..Len(snapshotEnvelopes) :
          /\ ApplyServerSnapshot(snapshotEnvelopes[i])
          /\ snapshotEnvelopes' = LeftInFlight(i)
    /\ UNCHANGED <<nextSequence, queued, step, inputEnvelopes, serverVars>>

EndPump ==
    /\ step = "pump"
    /\ step' = "input"
    /\ UNCHANGED <<nextSequence, unacked, queued, predicted, confirmed,
                   inputEnvelopes, snapshotEnvelopes, serverVars>>

-----------------------------------------------------------------------------
(* HandleInputEnvelope and Submit: an input that is not newer than the last *)
(* is refused.                                                              *)
HandleInputEnvelope(n) ==
    /\ n \in inputEnvelopes
    /\ inputEnvelopes' = inputEnvelopes \ {n}
    /\ IF n > lastAccepted
       THEN lastAccepted' = n /\ accepted' = Append(accepted, n)
       ELSE UNCHANGED <<lastAccepted, accepted>>
    /\ UNCHANGED <<moves, snapshotEnvelopes, clientVars>>

(* Mutant: a tick simulates one input of those accepted.                    *)
ServerTickOneInput(sends) ==
    /\ moves' = IF accepted = <<>> THEN moves ELSE Append(moves, Head(accepted))
    /\ accepted' = IF accepted = <<>> THEN accepted ELSE Tail(accepted)
    /\ IF sends
       THEN /\ Len(snapshotEnvelopes) < MaxInFlight
            /\ snapshotEnvelopes' = Append(snapshotEnvelopes,
                   [acked |-> lastAccepted, moves |-> moves'])
       ELSE UNCHANGED snapshotEnvelopes
    /\ UNCHANGED <<lastAccepted, inputEnvelopes, clientVars>>

(* TickAndSendSnapshots: the tick, then a snapshot, unless it is not its    *)
(* time yet or it is lost (as it is when MaxInFlight are on their way).     *)
ServerTick(sends) ==
    /\ moves' = Moved(moves, accepted)
    /\ accepted' = <<>>
    /\ IF sends
       THEN /\ Len(snapshotEnvelopes) < MaxInFlight
            /\ snapshotEnvelopes' = Append(snapshotEnvelopes,
                   [acked |-> lastAccepted, moves |-> moves'])
       ELSE UNCHANGED snapshotEnvelopes
    /\ UNCHANGED <<lastAccepted, inputEnvelopes, clientVars>>

ClientStep ==
    \/ \E arrives \in BOOLEAN : SubmitInput(arrives)
    \/ TickSimulation
    \/ PumpSnapshot
    \/ EndPump

Next ==
    \/ ClientStep
    \/ \E n \in InputSequence : HandleInputEnvelope(n)
    \/ \E sends \in BOOLEAN : ServerTick(sends)

Spec == Init /\ [][Next]_vars

(* The client's loop and the server's keep running.  An input that is not   *)
(* lost arrives, and of the snapshots sent again and again not all are      *)
(* lost: one enters the channel, and the oldest in the channel arrives.     *)
OldestSnapshotArrives ==
    /\ snapshotEnvelopes # <<>>
    /\ PumpSnapshot
    /\ snapshotEnvelopes' = Tail(snapshotEnvelopes)

Fairness ==
    /\ WF_vars(\E arrives \in BOOLEAN : SubmitInput(arrives))
    /\ WF_vars(TickSimulation)
    /\ SF_vars(EndPump) /\ SF_vars(OldestSnapshotArrives)
    /\ SF_vars(ServerTick(TRUE))
    /\ \A n \in InputSequence : WF_vars(HandleInputEnvelope(n))

FairSpec == Spec /\ Fairness

-----------------------------------------------------------------------------
(* No input moves the predicted player twice, and none moves it out of      *)
(* order, although an input reaches it by the tick it was queued for, by    *)
(* replays and inside snapshots.                                            *)
InputsPredictedInOrder ==
    \A i, j \in 1..Len(predicted) : i < j => predicted[i] < predicted[j]

(* After a tick, whatever was pumped since, the prediction holds every      *)
(* input the server has not acknowledged: a snapshot takes none back.       *)
UnackedInputsArePredicted ==
    queued = <<>> => Members(unacked) \subseteq Members(predicted)

(* A snapshot acknowledges only inputs the server has already simulated:    *)
(* what it accepted is never acknowledged while it waits for its tick.      *)
AcknowledgedInputsWereSimulated ==
    \A i \in 1..Len(snapshotEnvelopes) : \A n \in Members(accepted) :
        n > snapshotEnvelopes[i].acked

(* Snapshots arrive unreliably but in sequence, so the prediction never     *)
(* goes back behind a server position it has shown: inputs behind any       *)
(* snapshot applied stay behind the prediction.                             *)
ConfirmedInputsStay == confirmed \subseteq Members(predicted)

(* Once the player makes no more inputs, the prediction comes to agree with *)
(* the server but for inputs that were never acknowledged, and stays so,    *)
(* even if snapshots arrive out of order.                                   *)
PredictionConverges == <>[](predicted = moves \o unacked)
=============================================================================
