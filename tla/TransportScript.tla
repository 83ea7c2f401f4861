--------------------------- MODULE TransportScript ---------------------------
(***************************************************************************)
(* The peers of a transport and the messages they send to each other.       *)
(***************************************************************************)
EXTENDS NetworkProtocol

CONSTANT Script   \* set of [Direction -> sequence of items]

Client == {1, 2}  \* peer ids
Server == 9
Nobody == 0
Peer == Client \cup {Server}
Direction == ({Server} \X Client) \cup (Client \X {Server})
Other(p) == IF p = Server THEN 1 ELSE Server   \* when there is one client

(* The host names the client an envelope is for; a session names nobody.    *)
EnvelopeFor(d, item) ==
    Envelope(IF d[1] = Server THEN d[2] ELSE Nobody, item.class, item.message,
             Serialize(item.class, item.message))

(* An envelope but for the peer it names, which the hub fills in.           *)
Content(e) == [e EXCEPT !.peerId = Nobody]

(* A script types its items, and sends no envelope twice in a direction.    *)
(* The transports never compare envelopes: that these differ only lets a    *)
(* property tell which of them arrived.                                     *)
ASSUME ScriptAssumption ==
    /\ Script \subseteq [Direction -> Seq(Item)]
    /\ \A s \in Script : \A d \in Direction : \A i, j \in DOMAIN s[d] :
          i # j => Content(EnvelopeFor(d, s[d][i])) # Content(EnvelopeFor(d, s[d][j]))

(* The elements of a queue at the given places, in order.                   *)
ElementsAt(queue, places) ==
    LET kept[i \in 0..Len(queue)] ==
            IF i = 0 THEN <<>>
            ELSE IF i \in places THEN Append(kept[i - 1], queue[i]) ELSE kept[i - 1]
    IN  kept[Len(queue)]

(* The frame of each envelope an end may send, and what a frame decodes to. *)
(* All of it is constant, so it is computed once.                           *)
Envelopes ==
    UNION {UNION {{EnvelopeFor(d, i) : i \in Range(s[d])} : d \in Direction} : s \in Script}
Frame == [e \in Envelopes |-> EncodeTransportPacket(e)]
FrameDecoded == [f \in {EncodeTransportPacket(e) : e \in Envelopes} |->
                   DecodeTransportPacket(f)]
=============================================================================
