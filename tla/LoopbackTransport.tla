-------------------------- MODULE LoopbackTransport --------------------------
(***************************************************************************)
(* LoopbackTransport: a pair of ends in one thread, each with its own       *)
(* connection state and its own conditions, which drop or hold back every   *)
(* n-th envelope it sends.  What a call does is an operator on the record   *)
(* `w` of the pair; a call that returns something gives a record of the     *)
(* pair afterwards and the result.                                          *)
(***************************************************************************)
EXTENDS TransportScript

LoopbackInit(cond) ==
    [state |-> [p \in {1, Server} |-> "Connected"],
     incoming |-> [p \in {1, Server} |-> <<>>],   \* IncomingQueue of each end
     delayed |-> [p \in {1, Server} |-> <<>>],    \* DelayedOutgoingQueue of each end
     ordinal |-> [p \in {1, Server} |-> 0],       \* outgoingEnvelopeOrdinal_
     dropped |-> [p \in {1, Server} |-> 0],       \* envelopesDroppedByCondition
     conditions |-> [p \in {1, Server} |-> cond]]

LoopbackConnect(w, p) == [w EXCEPT !.state[p] = "Connected"]
LoopbackClose(w, p) == [w EXCEPT !.state[p] = "Disconnected"]
LoopbackSetNetworkConditions(w, p, c) == [w EXCEPT !.conditions[p] = c]

PushOutgoing(w, p, e) == [w EXCEPT !.incoming[Other(p)] = Append(@, e)]

(* Mutant: an envelope that is released is not taken off its queue.         *)
ReleaseOneDelayedAgain(w, p) ==
    IF w.delayed[p] = <<>> THEN w ELSE PushOutgoing(w, p, Head(w.delayed[p]))

ReleaseOneDelayed(w, p) ==
    IF w.delayed[p] = <<>> THEN w
    ELSE PushOutgoing([w EXCEPT !.delayed[p] = Tail(@)], p, Head(w.delayed[p]))

(* Mutant: an envelope that is held back waits for the next one sent.       *)
LoopbackUpdateNothing(w, p) == w

LoopbackUpdate(w, p) == ReleaseOneDelayed(w, p)

(* FlushDelayed releases one after the other until none is left.            *)
LoopbackFlushDelayed(w, p) ==
    [w EXCEPT !.delayed[p] = <<>>, !.incoming[Other(p)] = @ \o w.delayed[p]]

(* ShouldDropOutgoing and ShouldDelayOutgoing; 0 means never.               *)
EveryNth(n, ordinal) == n # 0 /\ ordinal % n = 0

(* Mutant: Send puts an invalid envelope in the queue.                      *)
LoopbackSendUnchecked(w, p, e) ==
    [accepted |-> w.state[p] = "Connected",
     world |-> IF w.state[p] # "Connected" THEN w
               ELSE ReleaseOneDelayed(PushOutgoing(w, p, e), p)]

LoopbackSend(w, p, e) ==
    LET counted == [w EXCEPT !.ordinal[p] = @ + 1]
        Sends(v) == [accepted |-> TRUE, world |-> v]
    IN  CASE w.state[p] # "Connected" \/ ~ValidateEnvelope(e) ->
               [accepted |-> FALSE, world |-> w]
          [] OTHER ->
               IF EveryNth(w.conditions[p].drop, counted.ordinal[p])
               THEN Sends([counted EXCEPT !.dropped[p] = @ + 1])
               ELSE IF EveryNth(w.conditions[p].delay, counted.ordinal[p])
               THEN Sends([counted EXCEPT !.delayed[p] = Append(@, e)])
               ELSE Sends(ReleaseOneDelayed(PushOutgoing(counted, p, e), p))

(* An invalid envelope leaves the queue and nothing is returned.            *)
LoopbackPoll(w, p) ==
    LET e == Head(w.incoming[p])
        rest == [w EXCEPT !.incoming[p] = Tail(@)]
    IN  IF w.state[p] # "Connected" \/ w.incoming[p] = <<>>
        THEN [world |-> w, polled |-> <<>>]
        ELSE [world |-> rest, polled |-> IF ValidateEnvelope(e) THEN <<e>> ELSE <<>>]
=============================================================================
