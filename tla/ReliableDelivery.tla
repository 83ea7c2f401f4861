-------------------------- MODULE ReliableDelivery --------------------------
(***************************************************************************)
(* What the reliable events promise a client, whatever the network does:    *)
(* an event the client is told of stays owed to it until the client has     *)
(* ingested it.  An event may be ingested again, and before it is forgotten *)
(* or after; one event may be told to several clients in one step.          *)
(***************************************************************************)
CONSTANT Client

VARIABLES
    told,     \* [Client -> events the server has undertaken to deliver]
    owed,     \* [Client -> those it still keeps to send again]
    ingested  \* [Client -> those the client has received]

vars == <<told, owed, ingested>>

Init ==
    /\ told = [c \in Client |-> {}]
    /\ owed = [c \in Client |-> {}]
    /\ ingested = [c \in Client |-> {}]

Tell(c) ==
    /\ \E e \in told'[c] \ told[c] :
          /\ told'[c] = told[c] \cup {e}
          /\ owed'[c] = owed[c] \cup {e}
    /\ ingested'[c] = ingested[c]

Ingest(c) ==
    /\ \E e \in told[c] : ingested'[c] = ingested[c] \cup {e}
    /\ told'[c] = told[c]
    /\ owed'[c] = owed[c]

Forget(c) ==
    /\ \E e \in owed[c] \cap ingested[c] : owed'[c] = owed[c] \ {e}
    /\ told'[c] = told[c]
    /\ ingested'[c] = ingested[c]

Rest(c) ==
    /\ told'[c] = told[c]
    /\ owed'[c] = owed[c]
    /\ ingested'[c] = ingested[c]

Next == \A c \in Client : Tell(c) \/ Ingest(c) \/ Forget(c) \/ Rest(c)

Spec == Init /\ [][Next]_vars
=============================================================================
