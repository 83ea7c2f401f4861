-------------------- MODULE MultiClientLoopbackTransport --------------------
(***************************************************************************)
(* MultiClientLoopbackTransport: one server and several clients on a hub    *)
(* that holds a queue to the server and one to each client.  A client's     *)
(* envelopes are marked with its id; the server's go to the peer they name. *)
(***************************************************************************)
EXTENDS TransportScript

HubInit ==
    [state |-> [p \in Peer |-> "Connected"],
     incoming |-> [p \in Peer |-> <<>>]]   \* toServer and toClients

HubConnect(w, p) == [w EXCEPT !.state[p] = "Connected"]
HubClose(w, p) == [w EXCEPT !.state[p] = "Disconnected"]

(* The server's Send refuses an envelope that names nobody.                 *)
HubSend(w, p, e) ==
    LET routed == IF p = Server THEN e ELSE [e EXCEPT !.peerId = p]
        to == IF p = Server THEN e.peerId ELSE Server
    IN  IF w.state[p] # "Connected" \/ ~ValidateEnvelope(e) \/ routed.peerId = 0
        THEN [accepted |-> FALSE, world |-> w]
        ELSE [accepted |-> TRUE,
              world |-> [w EXCEPT !.incoming[to] = Append(@, routed)]]

HubPoll(w, p) ==
    LET e == Head(w.incoming[p])
        rest == [w EXCEPT !.incoming[p] = Tail(@)]
    IN  IF w.state[p] # "Connected" \/ w.incoming[p] = <<>>
        THEN [world |-> w, polled |-> <<>>]
        ELSE [world |-> rest, polled |-> IF ValidateEnvelope(e) THEN <<e>> ELSE <<>>]
=============================================================================
