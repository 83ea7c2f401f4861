----------------------------- MODULE Transport -----------------------------
(***************************************************************************)
(* ITransport and its three implementations.  A behaviour picks one of      *)
(* them and a script of messages for its ends to send; the ends then        *)
(* connect, update, send, poll and close in any order.  A session or an     *)
(* application updates, sends and polls only between Connect and Close.     *)
(***************************************************************************)
EXTENDS RtcTransport, LoopbackTransport, MultiClientLoopbackTransport

CONSTANTS
    Implementation, \* of "loopback", "hub" and "rtc"
    Every,          \* numbers a condition may drop or delay by, 0 for never
    MaxCloses       \* bound: times a client closes, to connect again

ASSUME TransportAssumption ==
    /\ Implementation \subseteq {"loopback", "hub", "rtc"}
    /\ Every \subseteq Nat
    /\ kMaxNetworkPayloadBytes \in Number /\ maxBufferedAmountBytes \in Nat
    /\ MaxCloses \in Nat

VARIABLES
    impl,    \* which implementation
    script,  \* what the ends send
    world,   \* the transports' own state
    sent,    \* [Direction -> envelopes a Send accepted]
    polled,  \* history: [Direction -> envelopes Poll returned]
    closes   \* closes so far

vars == <<impl, script, world, sent, polled, closes>>

Peers == IF impl = "hub" THEN Peer ELSE {1, Server}
Conditions == [drop : Every, delay : Every]

Init ==
    /\ impl \in Implementation
    /\ script \in Script
    /\ CASE impl = "loopback" ->
              \E c \in Conditions : world = LoopbackInit(c)
         [] impl = "hub" -> world = HubInit
         [] impl = "rtc" -> world = RtcInit
    /\ sent = [d \in Direction |-> <<>>]
    /\ polled = [d \in Direction |-> <<>>]
    /\ closes = 0

Started(p) ==
    IF impl = "rtc" THEN p \in world.registered ELSE world.state[p] = "Connected"

-----------------------------------------------------------------------------
Connect(p) ==
    /\ ~Started(p)
    /\ world' = CASE impl = "loopback" -> LoopbackConnect(world, p)
                  [] impl = "hub" -> HubConnect(world, p)
                  [] impl = "rtc" -> RtcConnect(world, p)
    /\ UNCHANGED <<impl, script, sent, polled, closes>>

Update(p) ==
    /\ Started(p)
    /\ world' = CASE impl = "loopback" -> LoopbackUpdate(world, p)
                  [] impl = "hub" -> world
                  [] impl = "rtc" -> RtcUpdate(world, p)
    /\ UNCHANGED <<impl, script, sent, polled, closes>>

Close(p) ==
    /\ Started(p)
    /\ p \in Client /\ closes < MaxCloses
    /\ closes' = closes + 1
    /\ world' = CASE impl = "loopback" -> LoopbackClose(world, p)
                  [] impl = "hub" -> HubClose(world, p)
                  [] impl = "rtc" -> RtcClose(world, p)
    /\ UNCHANGED <<impl, script, sent, polled>>

(* What a Send or a Poll of the pumped transport finds.                     *)
Updated(p) == IF impl = "rtc" THEN RtcUpdate(world, p) ELSE world

(* The next message of the script, until a Send accepts it.                 *)
Send(p, q) ==
    /\ Started(p)
    /\ Len(sent[<<p, q>>]) < Len(script[<<p, q>>])
    /\ \E e \in {EnvelopeFor(<<p, q>>, script[<<p, q>>][Len(sent[<<p, q>>]) + 1])} :
       \E w \in {Updated(p)} :
       \E result \in {CASE impl = "loopback" -> LoopbackSend(w, p, e)
                          [] impl = "hub" -> HubSend(w, p, e)
                          [] impl = "rtc" -> RtcSend(w, p, q, e)} :
           /\ world' = result.world
           /\ sent' = IF result.accepted THEN [sent EXCEPT ![<<p, q>>] = Append(@, e)]
                      ELSE sent
    /\ UNCHANGED <<impl, script, polled, closes>>

(* Where the receiver takes an envelope to come from: on the hub it says so *)
From(p, e) == IF p # Server THEN Server ELSE IF impl = "hub" THEN e.peerId ELSE 1

Poll(p) ==
    /\ Started(p)
    /\ \E w \in {Updated(p)} :
       \E result \in {CASE impl = "loopback" -> LoopbackPoll(w, p)
                          [] impl = "hub" -> HubPoll(w, p)
                          [] impl = "rtc" -> RtcPoll(w, p)} :
           /\ world' = result.world
           /\ polled' = [d \in Direction |->
                  IF result.polled # <<>> /\ d = <<From(p, Head(result.polled)), p>>
                  THEN polled[d] \o result.polled ELSE polled[d]]
    /\ UNCHANGED <<impl, script, sent, closes>>

FlushDelayed(p) ==
    /\ impl = "loopback"
    /\ world' = LoopbackFlushDelayed(world, p)
    /\ UNCHANGED <<impl, script, sent, polled, closes>>

SetNetworkConditions(p, c) ==
    /\ impl = "loopback"
    /\ world' = LoopbackSetNetworkConditions(world, p, c)
    /\ UNCHANGED <<impl, script, sent, polled, closes>>

Next ==
    \E p \in Peers :
        \/ Connect(p) \/ Update(p) \/ Close(p) \/ Poll(p) \/ FlushDelayed(p)
        \/ \E q \in Peers : <<p, q>> \in Direction /\ Send(p, q)
        \/ \E c \in Conditions : SetNetworkConditions(p, c)

Spec == Init /\ [][Next]_vars

(* Both programs start, and update and poll in every pass of their loops;   *)
(* on the data channel a Poll updates, and on the hub Update does nothing.  *)
FairSpec ==
    /\ Spec
    /\ \A p \in Peer :
          /\ WF_vars(p \in Peers /\ Connect(p))
          /\ WF_vars(p \in Peers /\ impl = "loopback" /\ Update(p))
          /\ WF_vars(p \in Peers /\ Poll(p))

-----------------------------------------------------------------------------
(* The envelopes on their way in a direction, the next to arrive first.     *)
Waiting(d) ==
    LET to == d[2]
    IN  IF ~(d[1] \in Peers /\ to \in Peers) THEN <<>>
        ELSE
        CASE impl = "loopback" -> world.incoming[to] \o world.delayed[d[1]]
          [] impl = "hub" -> ElementsAt(world.incoming[to],
               {i \in DOMAIN world.incoming[to] : From(to, world.incoming[to][i]) = d[1]})
          [] impl = "rtc" -> world.incoming[to]
               \o [i \in DOMAIN world.channel[to] |->
                     FrameDecoded[world.channel[to][i]]]

EnvelopeType ==
    [protocolVersion : {kProtocolVersion}, peerId : Client \cup {0},
     channel : Range(NetworkChannel), messageClass : Range(MessageClass),
     sequence : Nat, payload : Seq(Byte)]

(* Types; and the signaling hub holds signals only for the peers that are   *)
(* registered with it.                                                      *)
TypeOK ==
    /\ impl \in Implementation /\ DOMAIN script = Direction
    /\ \A d \in Direction : /\ Len(sent[d]) \in 0..Len(script[d])
                            /\ Waiting(d) \in Seq(EnvelopeType)
    /\ closes \in 0..MaxCloses
    /\ impl = "rtc" =>
         /\ world.phase \in [Peers -> Phase]
         /\ \A p \in Peers \ world.registered : world.hub[p] = <<>>

(* Whatever waits in a queue passes ValidateEnvelope, because every Send    *)
(* has checked it: a Poll that returns nothing, which ends the caller's     *)
(* loop, has found its queue empty.                                         *)
QueuedEnvelopesAreValid ==
    \A d \in Direction : \A i \in DOMAIN Waiting(d) : ValidateEnvelope(Waiting(d)[i])

(* Of the messages an end has sent, none is missing from what was polled    *)
(* and what is on its way, except those the conditions of a loopback drop   *)
(* and those that were on their way when a client of the data channel       *)
(* closed.  On the hub and the data channel they also keep their order: the *)
(* server's end of the channel may send as soon as it is connected, before  *)
(* the client's is, and frames that were on their way when the client       *)
(* closed may arrive in its next connection, ahead of that one's own.       *)
EveryFrameArrives ==
    \A d \in Direction :
        LET seen == polled[d] \o Waiting(d)
            dropped == IF impl = "loopback" /\ d[1] \in Peers /\ d[2] \in Peers
                       THEN world.dropped[d[1]] ELSE 0
        IN  /\ impl # "rtc" \/ closes = 0 => Len(seen) >= Len(sent[d]) - dropped
            /\ impl # "loopback" =>
                 \E place \in [DOMAIN seen -> DOMAIN sent[d]] :
                    /\ \A i \in DOMAIN seen : Content(sent[d][place[i]]) = Content(seen[i])
                    /\ \A i, j \in DOMAIN seen : i < j => place[i] < place[j]

(* Whatever message a Send is given, its payload decodes to that message,   *)
(* and only as a whole: cut anywhere, or with a byte after it, it is refused *)
(* by the decoder of its class.  The payloads are the same on every         *)
(* transport, so they are looked at once per script.                        *)
PayloadsDecodeWhole ==
    impl = "hub" /\ closes = 0 /\ (\A d \in Direction : sent[d] = <<>>) =>
        \A i \in UNION {Range(script[d]) : d \in Direction} :
        \A whole \in {Serialize(i.class, i.message)} :
        \A bytes \in {SubSeq(Append(whole, 0), 1, n) : n \in 0..(Len(whole) + 1)} :
            Deserialize(i.class, bytes) = IF bytes = whole THEN i.message ELSE Refused

(* The channel as seen from the calls: accepted, waiting, polled.           *)
Contents(envelopes) == {Content(e) : e \in Range(envelopes)}
Channel == INSTANCE LossyChannel WITH
    sent <- [d \in Direction |-> Contents(sent[d])],
    inFlight <- [d \in Direction |-> Contents(Waiting(d))],
    delivered <- [d \in Direction |-> Contents(polled[d])]

(* Every implementation is a lossy channel that neither invents nor repeats *)
(* messages: an envelope arrives as it was sent, at the peer it was sent to, *)
(* through frames and queues.                                               *)
ImplementsLossyChannel == Channel!Spec

(* Nothing stays in a queue: envelopes that are held back are released by   *)
(* later updates, and what is in a queue is polled or refused.              *)
QueuesDrain == <>[](\A d \in Direction : Waiting(d) = <<>>)

(* When the server is up first, the two ends of the data channel come to be *)
(* connected and stay so, also when the client closes and connects again:   *)
(* the server, which has sent its DataChannelReady before and will not      *)
(* again, gets back to Connected by the client's.  (When the client does so *)
(* twice, the answer to an earlier offer can take it out of Connected for   *)
(* good; and a client that is up first loses its offer.)                    *)
HandshakeCompletes ==
    [](Started(1) => Started(Server))
        => <>[](impl = "rtc" => \A p \in Peers : world.phase[p] = "Connected")
=============================================================================
