---------------------------- MODULE RtcTransport ----------------------------
(***************************************************************************)
(* KcpRtcPumpedTransport at the two ends of an in-memory pair: the          *)
(* handshake of KcpRtcTransport, the signaling hub that routes it, and the  *)
(* data channel that carries the frames.  The pair lives in one thread, so  *)
(* what a call does is an operator on the record `w` of the pair.           *)
(*                                                                          *)
(* Left out: Leave, Error and IceCandidate signals, which no code sends; an *)
(* invalid configuration; and the failures of the data channel, which stays *)
(* open.  Every call empties the buffer of outgoing frames, so its limit is *)
(* a limit on one frame.                                                    *)
(***************************************************************************)
EXTENDS TransportScript

CONSTANT maxBufferedAmountBytes   \* 1 MiB unless configured

Phase == {"Disconnected", "Signaling", "DataChannelConnecting", "Connected"}
SignalKind ==
    <<"Join", "Offer", "Answer", "IceCandidate", "DataChannelReady", "Leave",
      "Error">>
Pair == {1, Server}

RtcInit ==
    [phase |-> [p \in Pair |-> "Disconnected"], \* phase_, which gives state_
     remote |-> [p \in Pair |-> Nobody],        \* remotePeerId_
     out |-> [p \in Pair |-> <<>>],             \* outgoingSignals_
     ready |-> [p \in Pair |-> FALSE],          \* localDataChannelReady_
     notified |-> [p \in Pair |-> FALSE],       \* readyNotified_
     registered |-> {},                      \* peers_ of the hub
     hub |-> [p \in Pair |-> <<>>],             \* PeerQueue::incoming
     channel |-> [p \in Pair |-> <<>>],         \* frames on their way to a peer
     incoming |-> [p \in Pair |-> <<>>]]        \* incomingEnvelopes_

-----------------------------------------------------------------------------
(* Signals as bytes.  Strings are sequences of bytes: the session's id, and *)
(* the label or name some signals carry.  Signals are numbered, but nobody  *)
(* looks at the number.                                                     *)

WriteString(s) == Pod(4, Len(s)) \o s

SerializeRtcSignalingMessage(m) ==
    Concat(<<WriteEnum(SignalKind, m.kind), Pod(4, m.sender), Pod(4, m.target),
             Pod(4, m.sequence)>>) \o WriteString(m.sessionId) \o WriteString(m.payload)

(* A length, and as many bytes; `size` is the reader after the length.      *)
ReadSized(r, size, name) ==
    IF ~size.ok THEN Fail(r)
    ELSE ReadBytes(Having(size, r.fields), name, size.fields.size)

ReadString(r, name) == ReadSized(r, ReadFields(r, Fields(4, <<"size">>)), name)

ValidateRtcSignalingMessage(m) == m.sender # 0 /\ m.sessionId # <<>>

DeserializeRtcSignalingMessage(bytes) ==
    LET header == ReadFields(Reader(bytes), <<EnumField("kind", SignalKind)>>
                      \o Fields(4, <<"sender", "target", "sequence">>))
        m == FinishDecode(ReadString(ReadString(header, "sessionId"), "payload"))
    IN  IF m # Refused /\ ValidateRtcSignalingMessage(m) THEN m ELSE Refused

(* The signals the code sends; the table of their bytes and of what these   *)
(* decode to is constant, so it is computed once: what                      *)
(* InMemoryRtcSignalingClient::Send puts on the wire, and what Poll makes   *)
(* of it.                                                                   *)
Signal ==
    [kind : {"Join", "Offer", "Answer", "DataChannelReady"}, sender : Pair,
     target : Pair \cup {Nobody}, sequence : {7}, sessionId : {<<1>>},
     payload : {<<>>, <<2, 3>>}]

SignalBytes == [m \in Signal |-> SerializeRtcSignalingMessage(m)]
SignalOf == [b \in Range(SignalBytes) |-> DeserializeRtcSignalingMessage(b)]

-----------------------------------------------------------------------------
(* Signaling *)

QueueSignal(w, p, kind, target) ==
    [w EXCEPT !.out[p] = Append(@,
        [kind |-> kind, sender |-> p, target |-> target, sequence |-> 7,
         sessionId |-> <<1>>,
         payload |-> IF kind = "DataChannelReady" THEN <<>> ELSE <<2, 3>>])]

(* Mutant: the hub keeps signals for a peer that is not registered.         *)
RouteToAnyone(w, bytes) ==
    LET m == SignalOf[bytes]
    IN  [w EXCEPT !.hub = [p \in Pair |->
            IF p # m.sender THEN Append(w.hub[p], bytes) ELSE w.hub[p]]]

(* The hub delivers to the target, or to every other peer when there is     *)
(* none.  What has no registered receiver is gone: nothing sends it again.  *)
RouteMessage(w, bytes, m) ==
    LET receivers == IF m.target # Nobody THEN {m.target} ELSE w.registered \ {m.sender}
    IN  IF m = Refused \/ m.sender \notin w.registered THEN w
        ELSE [w EXCEPT !.hub = [p \in Pair |->
                IF p \in receivers \cap w.registered THEN Append(w.hub[p], bytes)
                ELSE w.hub[p]]]

Route(w, bytes) == RouteMessage(w, bytes, SignalOf[bytes])

SendSignal(w, m) ==
    IF ValidateRtcSignalingMessage(m) THEN Route(w, SignalBytes[m]) ELSE w

TransitionToConnected(w, p) == [w EXCEPT !.phase[p] = "Connected"]

(* An offer reaches only the server and an answer only the client, or they  *)
(* are rejected once the sender has been noted.                             *)
ReceiveSignalingMessage(w, p, m) ==
    LET known == [w EXCEPT !.remote[p] = m.sender]
        connecting == [known EXCEPT !.phase[p] = "DataChannelConnecting"]
    IN  IF m.target \notin {Nobody, p} \/ m.sender = p THEN w
        ELSE
        CASE m.kind = "Offer" /\ p = Server ->
               QueueSignal(connecting, p, "Answer", m.sender)
          [] m.kind = "Answer" /\ p # Server -> connecting
          [] m.kind = "DataChannelReady" -> TransitionToConnected(known, p)
          [] OTHER -> known

(* The pair after some signals were sent, and after end p received some.    *)
(* Everything in the hub decodes: Route has refused what does not.          *)
SendSignals(w, signals) ==
    LET routed[i \in 0..Len(signals)] ==
            IF i = 0 THEN w ELSE SendSignal(routed[i - 1], signals[i])
    IN  routed[Len(signals)]

ReceiveSignals(w, p, queue) ==
    LET received[i \in 0..Len(queue)] ==
            IF i = 0 THEN w
            ELSE ReceiveSignalingMessage(received[i - 1], p, SignalOf[queue[i]])
    IN  received[Len(queue)]

PumpKcpRtcSignaling(w, p) ==
    LET routed == SendSignals([w EXCEPT !.out[p] = <<>>], w.out[p])
    IN  ReceiveSignals([routed EXCEPT !.hub[p] = <<>>], p, routed.hub[p])

(* NotifyDataChannelReady queues its signal once per connection.            *)
NotifyDataChannelReady(w, p) ==
    LET told == IF w.ready[p] THEN w
                ELSE QueueSignal([w EXCEPT !.ready[p] = TRUE], p,
                                 "DataChannelReady", w.remote[p])
    IN  TransitionToConnected(told, p)

(* The in-memory channel is always open.                                    *)
NotifyReadyIfPossible(w, p) ==
    IF w.notified[p] \/ w.phase[p] # "DataChannelConnecting"
    THEN w
    ELSE NotifyDataChannelReady([w EXCEPT !.notified[p] = TRUE], p)

-----------------------------------------------------------------------------
(* Frames *)

(* A frame that arrives while the transport is not connected, or does not   *)
(* decode, is refused.                                                      *)
ReceiveFrame(phase, frame) ==
    IF phase = "Connected" THEN FrameDecoded[frame] ELSE Refused

PumpKcpRtcDataChannel(w, p) ==
    LET Received(frame) == ReceiveFrame(w.phase[p], frame)
        envelopes == [i \in DOMAIN w.channel[p] |-> Received(w.channel[p][i])]
    IN  [w EXCEPT !.channel[p] = <<>>,
                  !.incoming[p] = @ \o ElementsAt(envelopes,
                        {i \in DOMAIN envelopes : envelopes[i] # Refused})]

(* The pair after one more call, Call, of end p.                            *)
Then(w, p, Call(_, _)) == CHOOSE v \in {Call(u, p) : u \in {w}} : TRUE

(* Mutant: frames are pumped before the signals that came ahead of them.    *)
UpdateFramesFirst(w, p) ==
    Then(Then(Then(Then(w, p, PumpKcpRtcDataChannel), p, PumpKcpRtcSignaling),
              p, NotifyReadyIfPossible), p, PumpKcpRtcSignaling)

RtcUpdate(w, p) ==
    Then(Then(Then(Then(w, p, PumpKcpRtcSignaling), p, NotifyReadyIfPossible),
              p, PumpKcpRtcSignaling), p, PumpKcpRtcDataChannel)

-----------------------------------------------------------------------------
(* The calls of ITransport *)

(* RegisterPeer replaces the peer's queue.                                  *)
Registered(w, p) ==
    [w EXCEPT !.registered = @ \cup {p}, !.hub[p] = <<>>,
              !.phase[p] = "Signaling"]

(* Mutant: the client joins and waits for the server to offer.              *)
RtcConnectWithoutOffer(w, p) ==
    QueueSignal(Registered(w, p), p, "Join", Nobody)

RtcConnect(w, p) ==
    LET joined == QueueSignal(Registered(w, p), p, "Join", Nobody)
    IN  IF p # Server THEN QueueSignal(joined, p, "Offer", Nobody) ELSE joined

(* Send and Poll update first: v is the pair after that.  Send hands the    *)
(* frame to the channel and pumps it.                                       *)
RtcSend(v, p, q, e) ==
    IF /\ ValidateEnvelope(e)
       /\ v.phase[p] = "Connected"
       /\ Len(Frame[e]) <= maxBufferedAmountBytes
    THEN [accepted |-> TRUE, world |-> PumpKcpRtcDataChannel(
             [v EXCEPT !.channel[q] = Append(@, Frame[e])], p)]
    ELSE [accepted |-> FALSE, world |-> v]

RtcPoll(v, p) ==
    IF v.incoming[p] = <<>> THEN [world |-> v, polled |-> <<>>]
    ELSE [world |-> [v EXCEPT !.incoming[p] = Tail(@)],
          polled |-> <<Head(v.incoming[p])>>]

(* The channel keeps the frames that are on their way.                      *)
RtcClose(w, p) ==
    [w EXCEPT !.phase[p] = "Disconnected", !.remote[p] = Nobody,
              !.out[p] = <<>>, !.ready[p] = FALSE, !.notified[p] = FALSE,
              !.incoming[p] = <<>>, !.registered = @ \ {p}, !.hub[p] = <<>>]
=============================================================================
