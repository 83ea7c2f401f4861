---------------------------- MODULE LossyChannel ----------------------------
(***************************************************************************)
(* What a transport promises, whatever it is made of: in each direction a   *)
(* message that arrives was sent in that direction and had not arrived      *)
(* before.  Messages may overtake each other and any of them may be lost.   *)
(* Several directions may take a step at once.                              *)
(***************************************************************************)
CONSTANT Direction

VARIABLES
    sent,      \* [Direction -> messages a Send has accepted]
    inFlight,  \* [Direction -> messages that may still arrive]
    delivered  \* [Direction -> messages that have arrived]

vars == <<sent, inFlight, delivered>>

Init ==
    /\ sent = [d \in Direction |-> {}]
    /\ inFlight = [d \in Direction |-> {}]
    /\ delivered = [d \in Direction |-> {}]

Lose(d) ==
    /\ inFlight'[d] \subseteq inFlight[d]
    /\ sent'[d] = sent[d]
    /\ delivered'[d] = delivered[d]

Send(d) ==
    \E m \in sent'[d] \ sent[d] :
        /\ sent'[d] = sent[d] \cup {m}
        /\ inFlight'[d] \subseteq inFlight[d] \cup {m}
        /\ delivered'[d] = delivered[d]

Deliver(d) ==
    \E m \in inFlight[d] \ delivered[d] :
        /\ delivered'[d] = delivered[d] \cup {m}
        /\ inFlight'[d] \subseteq inFlight[d] \ {m}
        /\ sent'[d] = sent[d]

Next ==
    /\ \A v \in {sent', inFlight', delivered'} : DOMAIN v = Direction
    /\ \A d \in Direction : Lose(d) \/ Send(d) \/ Deliver(d)

Spec == Init /\ [][Next]_vars
=============================================================================
